------------------------------ MODULE Sockets ------------------------------
(* The connected TCP sockets of the daemon, as theme::socket sees them          *)
(* (src/src/io/socket.cpp), together with the kernel's end of each connection   *)
(* and the remote program (external: modelled from the calls the daemon makes   *)
(* and the results it tests).  Every operator below constrains the variables of *)
(* this module only; Lobby composes them with the poller and the clients.       *)
(* Data: rx counts the segments a read() has still to return, room counts the   *)
(* messages the send buffer can still take.                                     *)
EXTENDS Naturals

CONSTANTS
    Conns,      \* identities of remote programs; one connection of each at a time
    Fds,        \* the descriptors the process may still open (RLIMIT_NOFILE)
    NoFd,       \* m_fd = -1: the connection has not been accepted
    MaxSend,    \* bound: the segments a remote program sends in one connection
    TxCap       \* bound: the messages a send buffer holds

ASSUME SocketsAssumption ==
    /\ NoFd \notin Fds
    /\ MaxSend \in Nat
    /\ TxCap \in Nat \ {0}

VARIABLES
    link,       \* the kernel's view of the connection
    fd,         \* socket::m_fd of the client that owns the connection
    unsent,     \* segments the remote program may still send
    rx,         \* segments received and not read
    room,       \* messages the send buffer still takes
    blocked,    \* SOCK_NOSPACE: a write found the buffer full
    shut        \* shutdown(SHUT_RDWR) was called

sockVars == <<link, fd, unsent, rx, room, blocked, shut>>

\* "fin" and "reset": the peer closed, or aborted; "pipe": it aborted after its
\* FIN; "dead": the daemon has been told of the abort by a failed call.
Links == {"absent", "open", "fin", "reset", "pipe", "dead"}

SocketsTypeOK ==
    /\ link \in [Conns -> Links]
    /\ fd \in [Conns -> Fds \cup {NoFd}]
    /\ unsent \in [Conns -> Nat]
    /\ rx \in [Conns -> Nat]
    /\ room \in [Conns -> 0..TxCap]
    /\ blocked \in [Conns -> BOOLEAN]
    /\ shut \in [Conns -> BOOLEAN]

SocketsInit ==
    /\ link = [c \in Conns |-> "absent"]
    /\ fd = [c \in Conns |-> NoFd]
    /\ unsent = [c \in Conns |-> 0]
    /\ rx = [c \in Conns |-> 0]
    /\ room = [c \in Conns |-> TxCap]
    /\ blocked = [c \in Conns |-> FALSE]
    /\ shut = [c \in Conns |-> FALSE]

-----------------------------------------------------------------------------
\* What a system call would find.

\* Established connections that wait in the listen queue.
Backlog == {c \in Conns : link[c] # "absent" /\ fd[c] = NoFd}

FreeFds == {f \in Fds : \A c \in Conns : fd[c] # f}

HungUp(c) == shut[c] \/ link[c] \in {"fin", "reset", "pipe", "dead"}

\* read(): -1 with ECONNRESET, 0 at the end of the stream, -1 with EAGAIN.
ReadFails(c) == rx[c] = 0 /\ link[c] = "reset"
ReadEof(c) == rx[c] = 0 /\ HungUp(c) /\ link[c] # "reset"
ReadBlocks(c) == rx[c] = 0 /\ ~HungUp(c)

\* write(): SIGPIPE, or, unless the connection was reset, a count or -1 with EAGAIN.
WriteKills(c) == link[c] \in {"pipe", "dead"} \/ (shut[c] /\ link[c] # "reset")
Writable(c) == ~shut[c] /\ link[c] \in {"open", "fin"}

-----------------------------------------------------------------------------
\* The remote program and the network.

Connect(c) ==
    /\ link[c] = "absent"
    /\ link' = [link EXCEPT ![c] = "open"]
    /\ unsent' = [unsent EXCEPT ![c] = MaxSend]
    /\ UNCHANGED <<fd, rx, room, blocked, shut>>

Send(c) ==
    /\ link[c] = "open" /\ ~shut[c] /\ unsent[c] > 0
    /\ unsent' = [unsent EXCEPT ![c] = @ - 1]
    /\ rx' = [rx EXCEPT ![c] = @ + 1]
    /\ UNCHANGED <<link, fd, room, blocked, shut>>

\* The peer reads a reply, so the send buffer takes one more.
Drain(c) ==
    /\ link[c] \in {"open", "fin"} /\ room[c] < TxCap
    /\ room' = [room EXCEPT ![c] = @ + 1]
    /\ blocked' = [blocked EXCEPT ![c] = FALSE]
    /\ UNCHANGED <<link, fd, unsent, rx, shut>>

Fin(c) ==
    /\ link[c] = "open"
    /\ link' = [link EXCEPT ![c] = "fin"]
    /\ UNCHANGED <<fd, unsent, rx, room, blocked, shut>>

Rst(c) ==
    /\ link[c] \in {"open", "fin"}
    /\ link' = [link EXCEPT ![c] = IF @ = "open" THEN "reset" ELSE "pipe"]
    /\ UNCHANGED <<fd, unsent, rx, room, blocked, shut>>

-----------------------------------------------------------------------------
\* The system calls of theme::socket that change something.

\* accept(): the descriptor goes from the local socket into the new client.
accept(c, f) ==
    /\ c \in Backlog /\ f \in FreeFds
    /\ fd' = [fd EXCEPT ![c] = f]
    /\ UNCHANGED <<link, unsent, rx, room, blocked, shut>>

\* read() returning data.
read(c) ==
    /\ rx[c] > 0
    /\ rx' = [rx EXCEPT ![c] = @ - 1]
    /\ UNCHANGED <<link, fd, unsent, room, blocked, shut>>

\* write() of a whole message.
write(c) ==
    /\ Writable(c) /\ room[c] > 0
    /\ room' = [room EXCEPT ![c] = @ - 1]
    /\ UNCHANGED <<link, fd, unsent, rx, blocked, shut>>

\* write() that leaves a rest: EAGAIN, or a short count.
WriteBlocks(c) ==
    /\ Writable(c) /\ room[c] = 0
    /\ blocked' = [blocked EXCEPT ![c] = TRUE]
    /\ UNCHANGED <<link, fd, unsent, rx, room, shut>>

shutdown(c) ==
    /\ shut' = [shut EXCEPT ![c] = TRUE]
    /\ UNCHANGED <<link, fd, unsent, rx, room, blocked>>

\* A call that reports ECONNRESET, and the shutdown() its caller answers with.
FailAndShutdown(c) ==
    /\ link[c] = "reset"
    /\ link' = [link EXCEPT ![c] = "dead"]
    /\ shut' = [shut EXCEPT ![c] = TRUE]
    /\ UNCHANGED <<fd, unsent, rx, room, blocked>>

\* ~socket(): the connection and its descriptor are gone.
close(c) ==
    /\ link' = [link EXCEPT ![c] = "absent"]
    /\ fd' = [fd EXCEPT ![c] = NoFd]
    /\ unsent' = [unsent EXCEPT ![c] = 0]
    /\ rx' = [rx EXCEPT ![c] = 0]
    /\ room' = [room EXCEPT ![c] = TxCap]
    /\ blocked' = [blocked EXCEPT ![c] = FALSE]
    /\ shut' = [shut EXCEPT ![c] = FALSE]
=============================================================================
