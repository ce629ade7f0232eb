------------------------------ MODULE Listener ------------------------------
(* The listening socket at start: theme::socket::bind and listen                *)
(* (src/src/io/socket.cpp) as server::init_fds calls them.  The operators       *)
(* update this module's variables only; Startup conjoins them to its steps.     *)
EXTENDS Naturals, Sequences

CONSTANT
    Resolves    \* host |-> the addresses getaddrinfo lists for it

\* getaddrinfo succeeds with one address at least.
ASSUME ResolvesAssumption ==
    \A h \in DOMAIN Resolves : Resolves[h] \in Seq(STRING \ {""}) /\ Resolves[h] # <<>>

VARIABLES
    it,         \* bind: the place in that list, 0 for nullptr
    listenSock  \* m_listenSock

listenVars == <<it, listenSock>>

\* uint16_t, and what becomes of a number in it.
Ports == 0..65535
uint16(n) == n % 65536

Unbound == [addr |-> "", port |-> 0, listening |-> FALSE]

ListenerTypeOK ==
    /\ it \in 0..2
    /\ listenSock.port \in Ports
    /\ listenSock.listening => listenSock.addr # ""

ListenerInit == it = 0 /\ listenSock = Unbound

\* The addresses are known: the loop of bind starts.
getaddrinfo == it' = 1 /\ UNCHANGED listenSock

\* it = addrListPtr->ai_next: the second address, again and again.
Advanced(host) == IF Len(Resolves[host]) > 1 THEN 2 ELSE 0

\* socket() or ::bind() fails on this address.
TryNext(host) ==
    /\ it # 0 /\ it' = Advanced(host)
    /\ UNCHANGED listenSock

\* m_fd, and m_addr of the address it is bound to.
setfd(addr, port) == listenSock' = [addr |-> addr, port |-> port, listening |-> FALSE]

\* ::bind() succeeds.  The port has become a uint16_t on the way; for port 0 the
\* kernel chooses one.
bind(host, port) ==
    /\ it # 0 /\ it' = 0
    /\ setfd(Resolves[host][it], uint16(port))

listen ==
    /\ listenSock' = [listenSock EXCEPT !.listening = TRUE]
    /\ UNCHANGED it

\* The process is gone.
Closed == it' = 0 /\ listenSock' = Unbound
=============================================================================
