---------------------------- MODULE LobbyProofs -----------------------------
(* Proofs about Lobby, for every set of remote programs and descriptors.       *)
EXTENDS Lobby, TLAPS

\* A callback runs for a client whose event has left the batch.
CurAt ==
    /\ cur = Nobody <=> at \in {"loop", "accept"}
    /\ \A c \in Conns : cur = c => c \notin batch

\* The registries and the events in flight: what no step can break alone.
RegInv == TypeOK /\ RegistriesAgree /\ BatchEventsLive /\ CurAt

USE SocketsAssumption, PollerAssumption, LobbyAssumption
    DEF SocketsAssumption, PollerAssumption, LobbyAssumption

\* The daemon starts with the registries in agreement.
LEMMA RegInit == Init => RegInv
<1> SUFFICES ASSUME Init PROVE RegInv
  OBVIOUS
<1> USE DEF Init, SocketsInit, PollerInit
<1>1. TypeOK
  <2>1. SocketsTypeOK
    BY DEF SocketsTypeOK, Links
  <2>2. PollerTypeOK
    BY DEF PollerTypeOK, Items, Events
  <2>3. QED
    BY <2>1, <2>2 DEF TypeOK, Places
<1>2. RegistriesAgree
  BY DEF RegistriesAgree
<1>3. BatchEventsLive /\ CurAt
  BY DEF BatchEventsLive, CurAt
<1>4. QED
  BY <1>1, <1>2, <1>3 DEF RegInv

\* What epoll_wait() leaves alone, and what it moves from the ready list to the batch.
LEMMA WaitFrame ==
  ASSUME EpollWait
  PROVE /\ at = "loop" /\ batch = {}
        /\ UNCHANGED <<sockVars, lobbyVars, callbacks, interest>>
        /\ ready' \subseteq ready /\ batch' \subseteq ready /\ batch' \subseteq Items
        /\ mask' \in [Items -> SUBSET Events]
<1>1. PICK S \in SUBSET Items : epoll_wait(S)
  BY DEF EpollWait
<1>2. at = "loop" /\ batch = {} /\ UNCHANGED <<sockVars, lobbyVars, callbacks, interest>>
  BY <1>1 DEF EpollWait, epoll_wait
<1>3. S \subseteq ready /\ batch' = S /\ ready' \subseteq ready
  BY <1>1 DEF epoll_wait, Reported
<1>4. mask' \in [Items -> SUBSET Events]
  <2>1. \A i \in Items : (IF i \in S THEN Readiness(i) ELSE {}) \in SUBSET Events
    BY DEF Readiness, Events
  <2>2. QED
    BY <1>1, <2>1 DEF epoll_wait
<1>5. QED
  BY <1>2, <1>3, <1>4

\* What the hang-up branch of dispatch does: the callback of the descriptor is the client's own.
HupEffect(i) ==
    /\ at = "loop" /\ i \in Conns /\ i \in batch /\ "hup" \in mask[i]
    /\ i \in polling /\ i \in clients /\ fd[i] \in Fds /\ callbacks[fd[i]] = i
    /\ batch' = batch \ {i} /\ interest' = interest \ {i} /\ ready' = ready \ {i}
    /\ callbacks' = [callbacks EXCEPT ![fd[i]] = Nobody]
    /\ link' = [link EXCEPT ![i] = "absent"] /\ fd' = [fd EXCEPT ![i] = NoFd]
    /\ unsent' = [unsent EXCEPT ![i] = 0] /\ rx' = [rx EXCEPT ![i] = 0]
    /\ room' = [room EXCEPT ![i] = TxCap] /\ blocked' = [blocked EXCEPT ![i] = FALSE]
    /\ shut' = [shut EXCEPT ![i] = FALSE]
    /\ clients' = clients \ {i} /\ polling' = polling \ {i} /\ writes' = [writes EXCEPT ![i] = 0]
    /\ UNCHANGED <<mask, at, cur, stalled>>

LEMMA HupFrame ==
  ASSUME RegInv, NEW i \in batch \cap Conns, DispatchHup(i)
  PROVE HupEffect(i)
<1>1. i \in polling /\ callbacks[fd[i]] = i
  BY DEF RegInv, BatchEventsLive
<1>2. i \in clients
  BY <1>1 DEF RegInv, TypeOK
<1>3. fd[i] \in Fds
  <2>1. fd[i] # NoFd
    BY <1>2 DEF RegInv, RegistriesAgree
  <2>2. fd[i] \in Fds \cup {NoFd}
    BY DEF RegInv, TypeOK, SocketsTypeOK
  <2>3. QED BY <2>1, <2>2
<1>4. PICK cli \in Conns : /\ cli = callbacks[fd[i]]
                          /\ take_hup(i, fd[i]) /\ close(cli) /\ erase(cli)
  BY DEF DispatchHup
<1>5. take_hup(i, fd[i]) /\ close(i) /\ erase(i)
  BY <1>1, <1>4
<1>6. QED
  BY <1>1, <1>2, <1>3, <1>5 DEF DispatchHup, take_hup, close, erase, HupEffect

\* The hang-up branch of dispatch takes one client out of every registry.
LEMMA HupStep ==
  ASSUME RegInv, NEW i \in batch \cap Conns, DispatchHup(i)
  PROVE RegInv'
<1>h. HupEffect(i)
  BY HupFrame
<1> USE DEF RegInv, HupEffect
<1>1. TypeOK'
  <2>1. SocketsTypeOK'
    BY <1>h DEF TypeOK, SocketsTypeOK, Links
  <2>2. PollerTypeOK'
    BY <1>h DEF TypeOK, PollerTypeOK, Items
  <2>3. /\ clients' \subseteq Conns /\ polling' \subseteq clients' /\ writes' \in [Conns -> Nat]
        /\ at' \in Places /\ cur' \in Conns \cup {Nobody} /\ stalled' \in BOOLEAN
    BY <1>h DEF TypeOK
  <2>4. QED BY <2>1, <2>2, <2>3 DEF TypeOK
<1>t. /\ fd \in [Conns -> Fds \cup {NoFd}] /\ callbacks \in [Fds -> Conns \cup {Nobody}]
      /\ batch \subseteq Items /\ clients \subseteq Conns /\ polling \subseteq clients
  BY DEF TypeOK, SocketsTypeOK, PollerTypeOK
<1>f. \A c \in Conns : fd'[c] = IF c = i THEN NoFd ELSE fd[c]
  BY <1>h, <1>t
<1>c. \A f \in Fds : callbacks'[f] = IF f = fd[i] THEN Nobody ELSE callbacks[f]
  BY <1>h, <1>t
<1>2. RegistriesAgree'
  <2>1. interest' = polling' \cup {Listener}
    BY <1>h, <1>t DEF RegistriesAgree
  <2>2. \A c \in Conns : c \in clients' <=> fd'[c] # NoFd
    BY <1>h, <1>f DEF RegistriesAgree
  <2>3. \A c, d \in Conns : fd'[c] = fd'[d] /\ fd'[c] # NoFd => c = d
    BY <1>h, <1>f DEF RegistriesAgree
  <2>4. ASSUME NEW f \in Fds, NEW c \in Conns
        PROVE  callbacks'[f] = c <=> c \in polling' /\ fd'[c] = f
    <3>1. callbacks[f] = c <=> c \in polling /\ fd[c] = f
      BY DEF RegistriesAgree
    <3>2. CASE c = i
      BY <1>h, <1>c, <1>f, <3>1, <3>2
    <3>3. CASE c # i
      <4>1. c \in polling' <=> c \in polling
        BY <1>h, <3>3
      <4>2. fd'[c] = fd[c]
        BY <1>f, <3>3
      <4>3. f = fd[i] => callbacks[f] = i /\ callbacks'[f] = Nobody
        BY <1>h, <1>c
      <4>4. f # fd[i] => callbacks'[f] = callbacks[f]
        BY <1>c
      <4>5. QED BY <3>1, <3>3, <4>1, <4>2, <4>3, <4>4
    <3>4. QED BY <3>2, <3>3
  <2>5. QED BY <2>1, <2>2, <2>3, <2>4 DEF RegistriesAgree
<1>3. BatchEventsLive'
  <2>1. ASSUME NEW c \in batch' \cap Conns PROVE c \in polling' /\ callbacks'[fd'[c]] = c
    <3>1. c \in batch /\ c # i /\ c \in polling /\ callbacks[fd[c]] = c
      BY <1>h, <2>1 DEF BatchEventsLive
    <3>2. fd[c] \in Fds /\ fd[c] # fd[i]
      BY <1>h, <1>t, <3>1 DEF RegistriesAgree
    <3>3. QED BY <1>h, <1>c, <1>f, <3>1, <3>2
  <2>2. cur' = Nobody
    BY <1>h DEF CurAt
  <2>3. QED BY <2>1, <2>2 DEF BatchEventsLive
<1>4. CurAt'
  BY <1>h DEF CurAt
<1>5. QED BY <1>1, <1>2, <1>3, <1>4

\* accept_cb takes a new client into m_clients and, unless add_fd fails, the poller.
AcceptEffect(c, f) ==
    /\ at = "accept" /\ cur = Nobody
    /\ c \in Conns /\ c \notin clients /\ c \notin polling /\ link[c] # "absent" /\ fd[c] = NoFd
    /\ f \in Fds /\ f # NoFd /\ \A d \in Conns : fd[d] # f
    /\ fd' = [fd EXCEPT ![c] = f] /\ UNCHANGED <<link, unsent, rx, room, blocked, shut>>
    /\ clients' = clients \cup {c}
    /\ UNCHANGED <<writes, stalled, batch, mask>> /\ at' = "accept" /\ cur' = Nobody
    /\ ready \subseteq ready' /\ polling' \subseteq polling \cup {c}
    /\ \/ /\ callbacks[f] = Nobody /\ callbacks' = [callbacks EXCEPT ![f] = c]
          /\ interest' = interest \cup {c} /\ polling' = polling \cup {c}
          /\ ready' = IF Readiness(c) # {} THEN ready \cup {c} ELSE ready
       \/ UNCHANGED <<callbacks, interest, ready, polling>>

LEMMA AcceptFrame ==
  ASSUME RegInv, NEW c \in Conns, NEW f \in Fds, NEW registered \in BOOLEAN,
         Accept(c, f, registered)
  PROVE  AcceptEffect(c, f)
<1>1. at = "accept" /\ accept(c, f) /\ clients' = clients \cup {c} /\ UNCHANGED <<writes, stalled>>
      /\ at' = "accept" /\ cur' = Nobody
  BY DEF Accept, NextAccept
<1>2. link[c] # "absent" /\ fd[c] = NoFd /\ \A d \in Conns : fd[d] # f
  BY <1>1 DEF accept, Backlog, FreeFds
<1>3. c \notin clients /\ c \notin polling /\ f # NoFd
  BY <1>2 DEF RegInv, TypeOK, RegistriesAgree
<1>4. cur = Nobody
  BY <1>1 DEF RegInv, CurAt
<1>5. fd' = [fd EXCEPT ![c] = f] /\ UNCHANGED <<link, unsent, rx, room, blocked, shut>>
  BY <1>1 DEF accept
<1>6. CASE registered /\ add_fd(c, f) /\ polling' = polling \cup {c}
  BY <1>1, <1>2, <1>3, <1>4, <1>5, <1>6 DEF add_fd, AcceptEffect
<1>7. CASE UNCHANGED <<pollVars, polling>>
  BY <1>1, <1>2, <1>3, <1>4, <1>5, <1>7 DEF pollVars, AcceptEffect
<1>8. QED
  BY <1>6, <1>7 DEF Accept

LEMMA AcceptStep ==
  ASSUME RegInv, NEW c \in Conns, NEW f \in Fds, AcceptEffect(c, f)
  PROVE  RegInv'
<1> USE DEF RegInv, AcceptEffect
<1>t. /\ fd \in [Conns -> Fds \cup {NoFd}] /\ callbacks \in [Fds -> Conns \cup {Nobody}]
      /\ batch \subseteq Items /\ clients \subseteq Conns /\ polling \subseteq clients
      /\ interest \subseteq Items /\ ready \subseteq interest
  BY DEF TypeOK, SocketsTypeOK, PollerTypeOK
<1>f. \A d \in Conns : fd'[d] = IF d = c THEN f ELSE fd[d]
  BY <1>t
<1>1. TypeOK'
  <2>1. SocketsTypeOK'
    BY DEF TypeOK, SocketsTypeOK
  <2>2. PollerTypeOK'
    <3>1. callbacks' \in [Fds -> Conns \cup {Nobody}]
      BY <1>t
    <3>2. interest' \subseteq Items /\ ready' \subseteq interest'
      BY <1>t DEF Items
    <3>3. batch' \subseteq Items /\ mask' \in [Items -> SUBSET Events]
      BY DEF TypeOK, PollerTypeOK
    <3>4. QED BY <3>1, <3>2, <3>3 DEF PollerTypeOK
  <2>3. /\ clients' \subseteq Conns /\ polling' \subseteq clients' /\ writes' \in [Conns -> Nat]
        /\ at' \in Places /\ cur' \in Conns \cup {Nobody} /\ stalled' \in BOOLEAN
    BY DEF TypeOK, Places
  <2>4. QED BY <2>1, <2>2, <2>3 DEF TypeOK
<1>2. RegistriesAgree'
  <2>1. interest' = polling' \cup {Listener}
    BY DEF RegistriesAgree
  <2>2. \A d \in Conns : d \in clients' <=> fd'[d] # NoFd
    BY <1>f DEF RegistriesAgree
  <2>3. \A d, e \in Conns : fd'[d] = fd'[e] /\ fd'[d] # NoFd => d = e
    BY <1>f DEF RegistriesAgree
  <2>4. ASSUME NEW g \in Fds, NEW d \in Conns
        PROVE  callbacks'[g] = d <=> d \in polling' /\ fd'[d] = g
    <3>1. callbacks[g] = d <=> d \in polling /\ fd[d] = g
      BY DEF RegistriesAgree
    <3>2. CASE UNCHANGED <<callbacks, polling>>
      BY <1>f, <3>1, <3>2
    <3>3. CASE callbacks[f] = Nobody /\ callbacks' = [callbacks EXCEPT ![f] = c] /\ polling' = polling \cup {c}
      <4>1. callbacks'[g] = IF g = f THEN c ELSE callbacks[g]
        BY <1>t, <3>3
      <4>2. fd'[d] = IF d = c THEN f ELSE fd[d]
        BY <1>f
      <4>3. d \in polling' <=> d \in polling \/ d = c
        BY <3>3
      <4>4. fd[d] # f /\ fd[c] = NoFd /\ c \notin polling
        OBVIOUS
      <4>5. QED BY <3>1, <4>1, <4>2, <4>3, <4>4
    <3>4. QED BY <3>2, <3>3
  <2>5. QED BY <2>1, <2>2, <2>3, <2>4 DEF RegistriesAgree
<1>3. BatchEventsLive'
  <2>1. ASSUME NEW d \in batch' \cap Conns PROVE d \in polling' /\ callbacks'[fd'[d]] = d
    <3>1. d \in polling /\ callbacks[fd[d]] = d /\ d # c
      BY <2>1 DEF BatchEventsLive
    <3>2. fd[d] \in Fds /\ fd[d] # f /\ fd'[d] = fd[d]
      BY <1>t, <1>f, <3>1 DEF RegistriesAgree
    <3>3. callbacks'[fd[d]] = callbacks[fd[d]]
      BY <1>t, <3>2
    <3>4. QED BY <3>1, <3>2, <3>3
  <2>2. QED BY <2>1 DEF BatchEventsLive
<1>4. CurAt'
  BY DEF CurAt
<1>5. QED BY <1>1, <1>2, <1>3, <1>4

\* Every step keeps the registries.
LEMMA RegStep == RegInv /\ [Next]_vars => RegInv'
<1> SUFFICES ASSUME RegInv, [Next]_vars PROVE RegInv'
  OBVIOUS
<1> USE DEF RegInv, TypeOK, SocketsTypeOK, PollerTypeOK, Items, Places, RegistriesAgree,
            BatchEventsLive, CurAt
<1>1. CASE UNCHANGED vars
  BY <1>1 DEF vars, sockVars, pollVars, lobbyVars
<1>2. CASE EpollWait
  <2>1. /\ at = "loop" /\ batch = {} /\ UNCHANGED <<sockVars, lobbyVars, callbacks, interest>>
        /\ ready' \subseteq ready /\ batch' \subseteq ready /\ batch' \subseteq Items
        /\ mask' \in [Items -> SUBSET Events]
    BY <1>2, WaitFrame
  <2>2. TypeOK' /\ RegistriesAgree'
    BY <2>1 DEF sockVars, lobbyVars
  <2>3. BatchEventsLive'
    <3>1. \A c \in batch' \cap Conns : c \in polling /\ callbacks[fd[c]] = c
      <4>1. \A c \in Conns : c \in interest => c \in polling
        OBVIOUS
      <4>2. \A c \in Conns : c \in polling => fd[c] \in Fds
        OBVIOUS
      <4>3. QED
        BY <2>1, <4>1, <4>2
    <3>2. QED
      BY <2>1, <3>1 DEF sockVars, lobbyVars
  <2>4. CurAt'
    BY <2>1 DEF sockVars, lobbyVars
  <2>5. QED
    BY <2>2, <2>3, <2>4
<1>3. CASE DispatchAccept
  BY <1>3 DEF DispatchAccept, take, sockVars
<1>4. ASSUME NEW i \in batch \cap Conns, DispatchHup(i) PROVE RegInv'
  <2> HIDE DEF RegInv, TypeOK, SocketsTypeOK, PollerTypeOK, Items, Places, RegistriesAgree,
               BatchEventsLive, CurAt
  <2>1. QED
    BY <1>4, HupStep
<1>5. ASSUME NEW i \in batch \cap Conns, DispatchEvent(i) PROVE RegInv'
  BY <1>5 DEF DispatchEvent, take, FirstPump, HandledFirst, sockVars
<1>6. ASSUME NEW c \in Conns, NEW f \in Fds, NEW registered \in BOOLEAN, Accept(c, f, registered)
      PROVE RegInv'
  <2> HIDE DEF RegInv, TypeOK, SocketsTypeOK, PollerTypeOK, Items, Places, RegistriesAgree,
               BatchEventsLive, CurAt
  <2>1. AcceptEffect(c, f)
    BY <1>6, AcceptFrame
  <2>2. QED
    BY <2>1, AcceptStep
<1>7. CASE AcceptDone
  BY <1>7 DEF AcceptDone, Return, sockVars, pollVars
<1>8. CASE AcceptFails
  BY <1>8 DEF AcceptFails, Return, sockVars, pollVars
<1>9. ASSUME NEW c \in Conns, PumpWriteNone(c) PROVE RegInv'
  BY <1>9 DEF PumpWriteNone, EndPumpWrite, sockVars, pollVars, Links
<1>10. ASSUME NEW c \in Conns, PumpWriteSent(c) PROVE RegInv'
  BY <1>10 DEF PumpWriteSent, write, Writable, NextWrite, sockVars, pollVars, Links
<1>11. ASSUME NEW c \in Conns, PumpWriteBlocked(c) PROVE RegInv'
  BY <1>11 DEF PumpWriteBlocked, WriteBlocks, Writable, EndPumpWrite, sockVars,
       pollVars, Links
<1>12. ASSUME NEW c \in Conns, PumpWriteFailed(c) PROVE RegInv'
  BY <1>12 DEF PumpWriteFailed, FailAndShutdown, Wake, EndPumpWrite, sockVars, pollVars,
       Links
<1>13. ASSUME NEW c \in Conns, PumpWriteKilled(c) PROVE RegInv'
  BY <1>13 DEF PumpWriteKilled, WriteKills, sockVars, pollVars, Links
<1>14. ASSUME NEW c \in Conns, ReadSegment(c) PROVE RegInv'
  BY <1>14 DEF ReadSegment, read, sockVars, pollVars, Links
<1>15. ASSUME NEW c \in Conns, ReadBlocked(c) PROVE RegInv'
  BY <1>15 DEF ReadBlocked, ReadBlocks, Return, sockVars, pollVars, Links
<1>16. ASSUME NEW c \in Conns, ReadFailed(c) PROVE RegInv'
  BY <1>16 DEF ReadFailed, ReadFails, FailAndShutdown, Wake, Return, sockVars, pollVars,
       Links
<1>17. ASSUME NEW c \in Conns, ReadAtEof(c) PROVE RegInv'
  BY <1>17 DEF ReadAtEof, ReadEof, sockVars, pollVars, Links
<1>18. ASSUME NEW c \in Conns, ReadOversize(c) PROVE RegInv'
  BY <1>18 DEF ReadOversize, shutdown, Wake, Return, sockVars, pollVars, Links
<1>19. ASSUME NEW c \in Conns, HandleRefused(c) PROVE RegInv'
  BY <1>19 DEF HandleRefused, shutdown, Wake, Return, sockVars, pollVars, Links
<1>20. ASSUME NEW c \in Conns, HandleSilent(c) PROVE RegInv'
  BY <1>20 DEF HandleSilent, NextRead, sockVars, pollVars, Links
<1>21. ASSUME NEW c \in Conns, ReplyQueued(c) PROVE RegInv'
  BY <1>21 DEF ReplyQueued, NextRead, sockVars, pollVars, Links
<1>22. ASSUME NEW c \in Conns, ReplySent(c) PROVE RegInv'
  BY <1>22 DEF ReplySent, write, Writable, NextRead, sockVars, pollVars, Links
<1>23. ASSUME NEW c \in Conns, ReplyBlocked(c) PROVE RegInv'
  BY <1>23 DEF ReplyBlocked, WriteBlocks, Writable, Keep, NextRead, sockVars, pollVars,
       Links
<1>24. ASSUME NEW c \in Conns, ReplyFailed(c) PROVE RegInv'
  BY <1>24 DEF ReplyFailed, FailAndShutdown, Wake, Keep, NextRead, sockVars, pollVars,
       Links
<1>25. ASSUME NEW c \in Conns, ReplyKilled(c) PROVE RegInv'
  BY <1>25 DEF ReplyKilled, WriteKills, sockVars, pollVars, Links
<1>26. ASSUME NEW c \in Conns, PeerConnects(c) PROVE RegInv'
  BY <1>26 DEF PeerConnects, Connect, Wake, lobbyVars, sockVars, pollVars, Links
<1>27. ASSUME NEW c \in Conns, PeerSends(c) PROVE RegInv'
  BY <1>27 DEF PeerSends, Send, Wake, lobbyVars, sockVars, pollVars, Links
<1>28. ASSUME NEW c \in Conns, PeerFin(c) PROVE RegInv'
  BY <1>28 DEF PeerFin, Fin, Wake, lobbyVars, sockVars, pollVars, Links
<1>29. ASSUME NEW c \in Conns, PeerRst(c) PROVE RegInv'
  BY <1>29 DEF PeerRst, Rst, Wake, lobbyVars, sockVars, pollVars, Links
<1>30. ASSUME NEW c \in Conns, PeerDrains(c) PROVE RegInv'
  BY <1>30 DEF PeerDrains, Drain, Wake, lobbyVars, pollVars, sockVars, Links
<1> HIDE DEF RegInv, TypeOK, SocketsTypeOK, PollerTypeOK, Items, Places,
            RegistriesAgree, BatchEventsLive, CurAt
<1>31. QED
  BY <1>1, <1>2, <1>3, <1>4, <1>5, <1>6, <1>7, <1>8, <1>9, <1>10, <1>11, <1>12, <1>13,
       <1>14, <1>15, <1>16, <1>17, <1>18, <1>19, <1>20, <1>21, <1>22, <1>23, <1>24,
       <1>25, <1>26, <1>27, <1>28, <1>29, <1>30 DEF Next, Daemon, Dispatch, AcceptLoop,
       PumpWrite, PumpRead, Handle, Peer
-----------------------------------------------------------------------------
\* epoll_wait() loses no edge: an item with a level is in the batch with all of
\* its level, or still in the ready list.
LEMMA WaitKeeps ==
  ASSUME RegInv, EpollWait, NEW i \in ready, NEW e \in Readiness(i)
  PROVE EventAhead(i, e)'
<1>1. PICK S \in SUBSET Items : epoll_wait(S)
  BY DEF EpollWait
<1>2. CASE i \in S
  <2>1. mask'[i] = Readiness(i)
    BY <1>1, <1>2 DEF epoll_wait
  <2>2. QED
    BY <2>1, <1>1, <1>2 DEF epoll_wait, EventAhead
<1>3. CASE i \notin S
  BY <1>1, <1>3 DEF epoll_wait, EventAhead
<1>4. QED
  BY <1>2, <1>3

\* A hang-up stays announced: whoever makes it wakes the poller, and only the
\* hang-up branch of dispatch takes the event (NoLostHup).
LEMMA HupKept == RegInv /\ NoLostHup /\ [Next]_vars => NoLostHup'
<1> SUFFICES ASSUME RegInv, NoLostHup, [Next]_vars PROVE NoLostHup'
  OBVIOUS
<1> USE DEF RegInv, TypeOK, SocketsTypeOK, PollerTypeOK, Items, RegistriesAgree,
            BatchEventsLive, CurAt, NoLostHup, EventAhead, HungUp
<1>1. CASE UNCHANGED vars
  BY <1>1 DEF vars, sockVars, pollVars, lobbyVars
<1>2. CASE EpollWait
  <2> SUFFICES ASSUME NEW c \in polling', HungUp(c)' PROVE EventAhead(c, "hup")'
    BY DEF NoLostHup
  <2>1. c \in polling /\ c \in Conns /\ HungUp(c) /\ batch = {}
    BY <1>2, WaitFrame DEF lobbyVars, sockVars
  <2>2. c \in ready /\ "hup" \in Readiness(c)
    BY <2>1 DEF Readiness, Events
  <2>3. QED
    BY <1>2, <2>2, WaitKeeps
<1>3. CASE DispatchAccept
  BY <1>3 DEF DispatchAccept, take, sockVars
<1>4. ASSUME NEW i \in batch \cap Conns, DispatchHup(i) PROVE NoLostHup'
  BY <1>4, HupFrame DEF HupEffect
<1>5. ASSUME NEW i \in batch \cap Conns, DispatchEvent(i) PROVE NoLostHup'
  BY <1>5 DEF DispatchEvent, take, FirstPump, HandledFirst, sockVars
<1>6. ASSUME NEW c \in Conns, NEW f \in Fds, NEW registered \in BOOLEAN, Accept(c, f, registered)
      PROVE NoLostHup'
  <2>1. AcceptEffect(c, f)
    BY <1>6, AcceptFrame
  <2>2. /\ UNCHANGED <<link, shut, batch, mask>> /\ ready \subseteq ready'
        /\ polling' = polling \/ (polling' = polling \cup {c} /\ (Readiness(c) # {} => c \in ready'))
    BY <2>1 DEF AcceptEffect
  <2>3. ASSUME NEW d \in polling', HungUp(d)' PROVE EventAhead(d, "hup")'
    <3>1. HungUp(d)
      BY <2>2, <2>3
    <3>2. CASE d \in polling
      BY <2>2, <3>1, <3>2
    <3>3. CASE d \notin polling
      <4>1. d = c /\ (Readiness(c) # {} => c \in ready')
        BY <2>2, <3>3
      <4>2. "hup" \in Readiness(c)
        BY <3>1, <4>1 DEF Readiness, Events
      <4>3. QED
        BY <4>1, <4>2
    <3>4. QED
      BY <3>2, <3>3
  <2>4. QED
    BY <2>3
<1>7. CASE AcceptDone
  BY <1>7 DEF AcceptDone, Return, sockVars, pollVars
<1>8. CASE AcceptFails
  BY <1>8 DEF AcceptFails, Return, sockVars, pollVars
<1>9. ASSUME NEW c \in Conns, PumpWrite(c) PROVE NoLostHup'
  BY <1>9 DEF PumpWrite, PumpWriteNone, EndPumpWrite, PumpWriteSent, write, Writable,
       NextWrite, PumpWriteBlocked, WriteBlocks, PumpWriteFailed, FailAndShutdown, Wake,
       PumpWriteKilled, WriteKills, sockVars, pollVars, Links
<1>10. ASSUME NEW c \in Conns, PumpRead(c) PROVE NoLostHup'
  BY <1>10 DEF PumpRead, ReadSegment, read, ReadBlocked, ReadBlocks, Return, ReadFailed,
       ReadFails, FailAndShutdown, Wake, ReadAtEof, ReadEof, ReadOversize, shutdown,
       sockVars, pollVars, Links
<1>11. ASSUME NEW c \in Conns, Handle(c) PROVE NoLostHup'
  BY <1>11 DEF Handle, HandleRefused, shutdown, Wake, Return, HandleSilent, NextRead,
       ReplyQueued, ReplySent, write, Writable, ReplyBlocked, WriteBlocks, Keep,
       ReplyFailed, FailAndShutdown, ReplyKilled, WriteKills, sockVars, pollVars, Links
<1>12. ASSUME NEW c \in Conns, Peer(c) PROVE NoLostHup'
  BY <1>12 DEF Peer, PeerConnects, Connect, Wake, lobbyVars, PeerSends, Send, PeerFin,
       Fin, PeerRst, Rst, PeerDrains, Drain, pollVars, sockVars, Links
<1> HIDE DEF RegInv, TypeOK, SocketsTypeOK, PollerTypeOK, Items, RegistriesAgree,
            BatchEventsLive, CurAt, NoLostHup, EventAhead, HungUp
<1>13. QED
  BY <1>1, <1>2, <1>3, <1>4, <1>5, <1>6, <1>7, <1>8, <1>9, <1>10, <1>11, <1>12 DEF Next,
       Daemon, Dispatch, AcceptLoop

\* Input stays announced: pump_read gives up a client only on EAGAIN, with
\* nothing left, or after a shutdown, which is an event (NoLostRead).
LEMMA ReadKept == RegInv /\ NoLostRead /\ [Next]_vars => NoLostRead'
<1> SUFFICES ASSUME RegInv, NoLostRead, [Next]_vars PROVE NoLostRead'
  OBVIOUS
<1> USE DEF RegInv, TypeOK, SocketsTypeOK, PollerTypeOK, Items, RegistriesAgree,
            BatchEventsLive, CurAt, NoLostRead, EventAhead
<1>1. CASE UNCHANGED vars
  BY <1>1 DEF vars, sockVars, pollVars, lobbyVars
<1>2. CASE EpollWait
  <2> SUFFICES ASSUME NEW c \in polling', rx'[c] > 0 PROVE EventAhead(c, "read")'
    BY DEF NoLostRead
  <2>1. c \in polling /\ c \in Conns /\ rx[c] > 0 /\ batch = {} /\ at = "loop"
    BY <1>2, WaitFrame DEF lobbyVars, sockVars
  <2>2. c \in ready /\ "read" \in Readiness(c)
    BY <2>1 DEF Readiness, Events
  <2>3. QED
    BY <1>2, <2>2, WaitKeeps
<1>3. CASE DispatchAccept
  BY <1>3 DEF DispatchAccept, take, sockVars
<1>4. ASSUME NEW i \in batch \cap Conns, DispatchHup(i) PROVE NoLostRead'
  BY <1>4, HupFrame DEF HupEffect
<1>5. ASSUME NEW i \in batch \cap Conns, DispatchEvent(i) PROVE NoLostRead'
  BY <1>5 DEF DispatchEvent, take, FirstPump, HandledFirst, sockVars
<1>6. ASSUME NEW c \in Conns, NEW f \in Fds, NEW registered \in BOOLEAN, Accept(c, f, registered)
      PROVE NoLostRead'
  <2> SUFFICES ASSUME NEW d \in polling', rx[d] > 0 PROVE EventAhead(d, "read")'
    BY <1>6 DEF Accept, accept
  <2>1. CASE d \in polling
    BY <1>6, <2>1 DEF Accept, accept, add_fd, pollVars
  <2>2. CASE d \notin polling
    <3>1. d = c /\ add_fd(c, f)
      BY <1>6, <2>2 DEF Accept
    <3>2. "read" \in Readiness(c)
      BY <3>1 DEF Readiness, Events
    <3>3. QED
      BY <3>1, <3>2 DEF add_fd
  <2>3. QED
    BY <2>1, <2>2
<1>7. CASE AcceptDone
  BY <1>7 DEF AcceptDone, Return, sockVars, pollVars
<1>8. CASE AcceptFails
  BY <1>8 DEF AcceptFails, Return, sockVars, pollVars
<1>9. ASSUME NEW c \in Conns, PumpWrite(c) PROVE NoLostRead'
  BY <1>9 DEF PumpWrite, PumpWriteNone, EndPumpWrite, PumpWriteSent, write, Writable,
       NextWrite, PumpWriteBlocked, WriteBlocks, PumpWriteFailed, FailAndShutdown, Wake,
       PumpWriteKilled, WriteKills, sockVars, pollVars, Links
<1>10. ASSUME NEW c \in Conns, PumpRead(c) PROVE NoLostRead'
  BY <1>10 DEF PumpRead, ReadSegment, read, ReadBlocked, ReadBlocks, Return, ReadFailed,
       ReadFails, FailAndShutdown, Wake, ReadAtEof, ReadEof, ReadOversize, shutdown,
       sockVars, pollVars, Links
<1>11. ASSUME NEW c \in Conns, Handle(c) PROVE NoLostRead'
  BY <1>11 DEF Handle, HandleRefused, shutdown, Wake, Return, HandleSilent, NextRead,
       ReplyQueued, ReplySent, write, Writable, ReplyBlocked, WriteBlocks, Keep,
       ReplyFailed, FailAndShutdown, ReplyKilled, WriteKills, sockVars, pollVars, Links
<1>12. ASSUME NEW c \in Conns, Peer(c) PROVE NoLostRead'
  BY <1>12 DEF Peer, PeerConnects, Connect, Wake, lobbyVars, PeerSends, Send, PeerFin,
       Fin, PeerRst, Rst, PeerDrains, Drain, pollVars, sockVars, Links
<1> HIDE DEF RegInv, TypeOK, SocketsTypeOK, PollerTypeOK, Items, RegistriesAgree,
            BatchEventsLive, CurAt, NoLostRead, EventAhead
<1>13. QED
  BY <1>1, <1>2, <1>3, <1>4, <1>5, <1>6, <1>7, <1>8, <1>9, <1>10, <1>11, <1>12 DEF Next,
       Daemon, Dispatch, AcceptLoop

\* The listen queue stays announced (NoLostAccept).
LEMMA AcceptKept == RegInv /\ NoLostAccept /\ [Next]_vars => NoLostAccept'
<1> SUFFICES ASSUME RegInv, NoLostAccept, [Next]_vars PROVE NoLostAccept'
  OBVIOUS
<1> USE DEF RegInv, TypeOK, SocketsTypeOK, PollerTypeOK, Items, RegistriesAgree,
            BatchEventsLive, CurAt, NoLostAccept, Backlog
<1>1. CASE UNCHANGED vars
  BY <1>1 DEF vars, sockVars, pollVars, lobbyVars
<1>2. CASE EpollWait
  <2> SUFFICES ASSUME Backlog' # {} PROVE NoLostAccept'
    OBVIOUS
  <2>1. UNCHANGED <<sockVars, lobbyVars>> /\ batch = {} /\ at = "loop"
    BY <1>2, WaitFrame
  <2>2. Backlog # {}
    BY <2>1 DEF sockVars
  <2>3. CASE stalled
    BY <2>1, <2>3 DEF lobbyVars
  <2>4. CASE ~stalled
    <3>1. Listener \in ready
      BY <2>1, <2>2, <2>4
    <3>2. "read" \in Readiness(Listener)
      BY <2>2 DEF Readiness
    <3>3. EventAhead(Listener, "read")'
      BY <1>2, <3>1, <3>2, WaitKeeps
    <3>4. QED
      BY <3>3 DEF EventAhead
  <2>5. QED
    BY <2>3, <2>4
<1>3. CASE DispatchAccept
  BY <1>3 DEF DispatchAccept, take, sockVars
<1>4. ASSUME NEW i \in batch \cap Conns, DispatchHup(i) PROVE NoLostAccept'
  BY <1>4, HupFrame DEF HupEffect
<1>5. ASSUME NEW i \in batch \cap Conns, DispatchEvent(i) PROVE NoLostAccept'
  BY <1>5 DEF DispatchEvent, take, FirstPump, HandledFirst, sockVars
<1>6. ASSUME NEW c \in Conns, NEW f \in Fds, NEW registered \in BOOLEAN, Accept(c, f, registered)
      PROVE NoLostAccept'
  BY <1>6, AcceptFrame DEF AcceptEffect
<1>7. CASE AcceptDone
  BY <1>7 DEF AcceptDone, Return, sockVars, pollVars
<1>8. CASE AcceptFails
  BY <1>8 DEF AcceptFails, Return, sockVars, pollVars
<1>9. ASSUME NEW c \in Conns, PumpWrite(c) PROVE NoLostAccept'
  BY <1>9 DEF PumpWrite, PumpWriteNone, EndPumpWrite, PumpWriteSent, write, Writable,
       NextWrite, PumpWriteBlocked, WriteBlocks, PumpWriteFailed, FailAndShutdown, Wake,
       PumpWriteKilled, WriteKills, sockVars, pollVars, Links
<1>10. ASSUME NEW c \in Conns, PumpRead(c) PROVE NoLostAccept'
  BY <1>10 DEF PumpRead, ReadSegment, read, ReadBlocked, ReadBlocks, Return, ReadFailed,
       ReadFails, FailAndShutdown, Wake, ReadAtEof, ReadEof, ReadOversize, shutdown,
       sockVars, pollVars, Links
<1>11. ASSUME NEW c \in Conns, Handle(c) PROVE NoLostAccept'
  BY <1>11 DEF Handle, HandleRefused, shutdown, Wake, Return, HandleSilent, NextRead,
       ReplyQueued, ReplySent, write, Writable, ReplyBlocked, WriteBlocks, Keep,
       ReplyFailed, FailAndShutdown, ReplyKilled, WriteKills, sockVars, pollVars, Links
<1>12. ASSUME NEW c \in Conns, Peer(c) PROVE NoLostAccept'
  BY <1>12 DEF Peer, PeerConnects, Connect, Wake, lobbyVars, PeerSends, Send, PeerFin,
       Fin, PeerRst, Rst, PeerDrains, Drain, pollVars, sockVars, Links
<1> HIDE DEF RegInv, TypeOK, SocketsTypeOK, PollerTypeOK, Items, RegistriesAgree,
            BatchEventsLive, CurAt, NoLostAccept, Backlog
<1>13. QED
  BY <1>1, <1>2, <1>3, <1>4, <1>5, <1>6, <1>7, <1>8, <1>9, <1>10, <1>11, <1>12 DEF Next,
       Daemon, Dispatch, AcceptLoop

\* A client that is not polled has never written, failed or been shut down.
Closed(c) == shut[c] \/ link[c] = "dead"
Fresh == \A c \in Conns : c \notin polling => writes[c] = 0 /\ ~Closed(c)

\* It stays so: add_fd() is all that makes a client polled, and only polled ones write.
LEMMA FreshKept == RegInv /\ Fresh /\ [Next]_vars => Fresh'
<1> SUFFICES ASSUME RegInv, Fresh, [Next]_vars PROVE Fresh'
  OBVIOUS
<1> USE DEF RegInv, TypeOK, SocketsTypeOK, PollerTypeOK, Items, RegistriesAgree,
            BatchEventsLive, CurAt, Fresh, Closed
<1>1. CASE UNCHANGED vars
  BY <1>1 DEF vars, sockVars, pollVars, lobbyVars
<1>2. CASE EpollWait
  BY <1>2 DEF EpollWait, epoll_wait, Reported, Readiness, Events, sockVars, lobbyVars
<1>3. CASE DispatchAccept
  BY <1>3 DEF DispatchAccept, take, sockVars
<1>4. ASSUME NEW i \in batch \cap Conns, DispatchHup(i) PROVE Fresh'
  BY <1>4, HupFrame DEF HupEffect
<1>5. ASSUME NEW i \in batch \cap Conns, DispatchEvent(i) PROVE Fresh'
  BY <1>5 DEF DispatchEvent, take, FirstPump, HandledFirst, sockVars
<1>6. ASSUME NEW c \in Conns, NEW f \in Fds, NEW registered \in BOOLEAN, Accept(c, f, registered)
      PROVE Fresh'
  BY <1>6, AcceptFrame DEF AcceptEffect
<1>7. CASE AcceptDone
  BY <1>7 DEF AcceptDone, Return, sockVars, pollVars
<1>8. CASE AcceptFails
  BY <1>8 DEF AcceptFails, Return, sockVars, pollVars
<1>9. ASSUME NEW c \in Conns, PumpWrite(c) PROVE Fresh'
  BY <1>9 DEF PumpWrite, PumpWriteNone, EndPumpWrite, PumpWriteSent, write, Writable,
       NextWrite, PumpWriteBlocked, WriteBlocks, PumpWriteFailed, FailAndShutdown, Wake,
       PumpWriteKilled, WriteKills, sockVars, pollVars, Links
<1>10. ASSUME NEW c \in Conns, PumpRead(c) PROVE Fresh'
  BY <1>10 DEF PumpRead, ReadSegment, read, ReadBlocked, ReadBlocks, Return, ReadFailed,
       ReadFails, FailAndShutdown, Wake, ReadAtEof, ReadEof, ReadOversize, shutdown,
       sockVars, pollVars, Links
<1>11. ASSUME NEW c \in Conns, Handle(c) PROVE Fresh'
  BY <1>11 DEF Handle, HandleRefused, shutdown, Wake, Return, HandleSilent, NextRead,
       ReplyQueued, ReplySent, write, Writable, ReplyBlocked, WriteBlocks, Keep,
       ReplyFailed, FailAndShutdown, ReplyKilled, WriteKills, sockVars, pollVars, Links
<1>12. ASSUME NEW c \in Conns, Peer(c) PROVE Fresh'
  BY <1>12 DEF Peer, PeerConnects, Connect, Wake, lobbyVars, PeerSends, Send, PeerFin,
       Fin, PeerRst, Rst, PeerDrains, Drain, pollVars, sockVars, Links
<1> HIDE DEF RegInv, TypeOK, SocketsTypeOK, PollerTypeOK, Items, RegistriesAgree,
            BatchEventsLive, CurAt, Fresh, Closed
<1>13. QED
  BY <1>1, <1>2, <1>3, <1>4, <1>5, <1>6, <1>7, <1>8, <1>9, <1>10, <1>11, <1>12 DEF Next,
       Daemon, Dispatch, AcceptLoop


\* A full send buffer is known to be full: a client with something to write has
\* been told to wait, is hung up, or is just trying.
WriteWaits == \A c \in Conns :
    /\ blocked[c] => room[c] = 0
    /\ writes[c] > 0 /\ room[c] = 0 => blocked[c] \/ HungUp(c) \/ (cur = c /\ at = "write")

\* What waits for room stays known to wait (resume_write, enqueue_write).
LEMMA WaitsKept == RegInv /\ Fresh /\ WriteWaits /\ [Next]_vars => WriteWaits'
<1> SUFFICES ASSUME RegInv, Fresh, WriteWaits, [Next]_vars PROVE WriteWaits'
  OBVIOUS
<1> USE DEF RegInv, TypeOK, SocketsTypeOK, PollerTypeOK, Items, RegistriesAgree,
            BatchEventsLive, CurAt, WriteWaits, HungUp
<1>1. CASE UNCHANGED vars
  BY <1>1 DEF vars, sockVars, pollVars, lobbyVars
<1>2. CASE EpollWait
  BY <1>2 DEF EpollWait, epoll_wait, Reported, Readiness, Events, sockVars, lobbyVars
<1>3. CASE DispatchAccept
  BY <1>3 DEF DispatchAccept, take, sockVars
<1>4. ASSUME NEW i \in batch \cap Conns, DispatchHup(i) PROVE WriteWaits'
  BY <1>4, HupFrame DEF HupEffect
<1>5. ASSUME NEW i \in batch \cap Conns, DispatchEvent(i) PROVE WriteWaits'
  BY <1>5 DEF DispatchEvent, take, FirstPump, HandledFirst, sockVars
<1>6. ASSUME NEW c \in Conns, NEW f \in Fds, NEW registered \in BOOLEAN, Accept(c, f, registered)
      PROVE WriteWaits'
  BY <1>6, AcceptFrame DEF AcceptEffect
<1>7. CASE AcceptDone
  BY <1>7 DEF AcceptDone, Return, sockVars, pollVars
<1>8. CASE AcceptFails
  BY <1>8 DEF AcceptFails, Return, sockVars, pollVars
<1>9. ASSUME NEW c \in Conns, PumpWrite(c) PROVE WriteWaits'
  BY <1>9 DEF PumpWrite, PumpWriteNone, EndPumpWrite, PumpWriteSent, write, Writable,
       NextWrite, PumpWriteBlocked, WriteBlocks, PumpWriteFailed, FailAndShutdown, Wake,
       PumpWriteKilled, WriteKills, sockVars, pollVars, Links
<1>10. ASSUME NEW c \in Conns, PumpRead(c) PROVE WriteWaits'
  BY <1>10 DEF PumpRead, ReadSegment, read, ReadBlocked, ReadBlocks, Return, ReadFailed,
       ReadFails, FailAndShutdown, Wake, ReadAtEof, ReadEof, ReadOversize, shutdown,
       sockVars, pollVars, Links
<1>11. ASSUME NEW c \in Conns, Handle(c) PROVE WriteWaits'
  BY <1>11 DEF Handle, HandleRefused, shutdown, Wake, Return, HandleSilent, NextRead,
       ReplyQueued, ReplySent, write, Writable, ReplyBlocked, WriteBlocks, Keep,
       ReplyFailed, FailAndShutdown, ReplyKilled, WriteKills, sockVars, pollVars, Links
<1>12. ASSUME NEW c \in Conns, Peer(c) PROVE WriteWaits'
  BY <1>12 DEF Peer, PeerConnects, Connect, Wake, lobbyVars, PeerSends, Send, PeerFin,
       Fin, PeerRst, Rst, PeerDrains, Drain, pollVars, sockVars, Links
<1> HIDE DEF RegInv, TypeOK, SocketsTypeOK, PollerTypeOK, Items, RegistriesAgree,
            BatchEventsLive, CurAt, WriteWaits, HungUp
<1>13. QED
  BY <1>1, <1>2, <1>3, <1>4, <1>5, <1>6, <1>7, <1>8, <1>9, <1>10, <1>11, <1>12 DEF Next,
       Daemon, Dispatch, AcceptLoop


\* A connection the daemon has closed or failed on is not written to again: its
\* next event is a hang-up, and until then its queue is not empty.
ClosedKnown == \A c \in Conns : Closed(c) =>
    /\ c \in batch => "hup" \in mask[c]
    /\ cur = c => at # "write" /\ (at \in {"read", "oversize", "handle"} => writes[c] > 0)

\* After a shutdown or an error no write is ahead (resume_write, pump_read).
LEMMA KnownKept == RegInv /\ Fresh /\ ClosedKnown /\ [Next]_vars => ClosedKnown'
<1> SUFFICES ASSUME RegInv, Fresh, ClosedKnown, [Next]_vars PROVE ClosedKnown'
  OBVIOUS
<1> USE DEF RegInv, TypeOK, SocketsTypeOK, PollerTypeOK, Items, RegistriesAgree,
            BatchEventsLive, CurAt, ClosedKnown, Closed
<1>1. CASE UNCHANGED vars
  BY <1>1 DEF vars, sockVars, pollVars, lobbyVars
<1>2. CASE EpollWait
  <2> SUFFICES ASSUME NEW c \in Conns, Closed(c), c \in batch' PROVE "hup" \in mask'[c]
    BY <1>2, WaitFrame DEF sockVars, lobbyVars
  <2>1. PICK S \in SUBSET Items : epoll_wait(S)
    BY <1>2 DEF EpollWait
  <2>2. mask'[c] = Readiness(c)
    BY <2>1 DEF epoll_wait
  <2>3. "hup" \in Readiness(c)
    BY DEF Readiness, Events, HungUp
  <2>4. QED
    BY <2>2, <2>3
<1>3. CASE DispatchAccept
  BY <1>3 DEF DispatchAccept, take, sockVars
<1>4. ASSUME NEW i \in batch \cap Conns, DispatchHup(i) PROVE ClosedKnown'
  BY <1>4, HupFrame DEF HupEffect
<1>5. ASSUME NEW i \in batch \cap Conns, DispatchEvent(i) PROVE ClosedKnown'
  BY <1>5 DEF DispatchEvent, take, FirstPump, HandledFirst, sockVars
<1>6. ASSUME NEW c \in Conns, NEW f \in Fds, NEW registered \in BOOLEAN, Accept(c, f, registered)
      PROVE ClosedKnown'
  BY <1>6, AcceptFrame DEF AcceptEffect
<1>7. CASE AcceptDone
  BY <1>7 DEF AcceptDone, Return, sockVars, pollVars
<1>8. CASE AcceptFails
  BY <1>8 DEF AcceptFails, Return, sockVars, pollVars
<1>9. ASSUME NEW c \in Conns, PumpWrite(c) PROVE ClosedKnown'
  BY <1>9 DEF PumpWrite, PumpWriteNone, EndPumpWrite, PumpWriteSent, write, Writable,
       NextWrite, PumpWriteBlocked, WriteBlocks, PumpWriteFailed, FailAndShutdown, Wake,
       PumpWriteKilled, WriteKills, sockVars, pollVars, Links
<1>10. ASSUME NEW c \in Conns, PumpRead(c) PROVE ClosedKnown'
  BY <1>10 DEF PumpRead, ReadSegment, read, ReadBlocked, ReadBlocks, Return, ReadFailed,
       ReadFails, FailAndShutdown, Wake, ReadAtEof, ReadEof, ReadOversize, shutdown,
       sockVars, pollVars, Links
<1>11. ASSUME NEW c \in Conns, Handle(c) PROVE ClosedKnown'
  BY <1>11 DEF Handle, HandleRefused, shutdown, Wake, Return, HandleSilent, NextRead,
       ReplyQueued, ReplySent, write, Writable, ReplyBlocked, WriteBlocks, Keep,
       ReplyFailed, FailAndShutdown, ReplyKilled, WriteKills, sockVars, pollVars, Links
<1>12. ASSUME NEW c \in Conns, Peer(c) PROVE ClosedKnown'
  BY <1>12 DEF Peer, PeerConnects, Connect, Wake, lobbyVars, PeerSends, Send, PeerFin,
       Fin, PeerRst, Rst, PeerDrains, Drain, pollVars, sockVars, Links
<1> HIDE DEF RegInv, TypeOK, SocketsTypeOK, PollerTypeOK, Items, RegistriesAgree,
            BatchEventsLive, CurAt, ClosedKnown, Closed
<1>13. QED
  BY <1>1, <1>2, <1>3, <1>4, <1>5, <1>6, <1>7, <1>8, <1>9, <1>10, <1>11, <1>12 DEF Next,
       Daemon, Dispatch, AcceptLoop

\* Queued output stays announced (NoLostWrite).
LEMMA WriteKept == RegInv /\ Fresh /\ WriteWaits /\ NoLostWrite /\ [Next]_vars => NoLostWrite'
<1> SUFFICES ASSUME RegInv, Fresh, WriteWaits, NoLostWrite, [Next]_vars PROVE NoLostWrite'
  OBVIOUS
<1> USE DEF RegInv, TypeOK, SocketsTypeOK, PollerTypeOK, Items, RegistriesAgree,
            BatchEventsLive, CurAt, Fresh, WriteWaits, NoLostWrite, EventAhead
<1>1. CASE UNCHANGED vars
  BY <1>1 DEF vars, sockVars, pollVars, lobbyVars
<1>2. CASE EpollWait
  <2> SUFFICES ASSUME NEW c \in polling', writes'[c] > 0, ~(blocked'[c] /\ room'[c] = 0)
               PROVE  EventAhead(c, "write")' \/ EventAhead(c, "hup")'
    BY DEF NoLostWrite
  <2>1. /\ c \in polling /\ c \in Conns /\ writes[c] > 0 /\ batch = {} /\ at = "loop"
        /\ ~(blocked[c] /\ room[c] = 0)
    BY <1>2, WaitFrame DEF lobbyVars, sockVars
  <2>2. c \in ready
    BY <2>1
  <2>3. room[c] > 0 \/ HungUp(c)
    BY <2>1
  <2>4. "write" \in Readiness(c) \/ "hup" \in Readiness(c)
    BY <2>1, <2>3 DEF Readiness, Events
  <2>5. QED
    BY <1>2, <2>2, <2>4, WaitKeeps
<1>3. CASE DispatchAccept
  BY <1>3 DEF DispatchAccept, take, sockVars
<1>4. ASSUME NEW i \in batch \cap Conns, DispatchHup(i) PROVE NoLostWrite'
  BY <1>4, HupFrame DEF HupEffect
<1>5. ASSUME NEW i \in batch \cap Conns, DispatchEvent(i) PROVE NoLostWrite'
  BY <1>5 DEF DispatchEvent, take, FirstPump, HandledFirst, sockVars
<1>6. ASSUME NEW c \in Conns, NEW f \in Fds, NEW registered \in BOOLEAN, Accept(c, f, registered)
      PROVE NoLostWrite'
  <2>1. writes[c] = 0 \/ c \in polling
    OBVIOUS
  <2>2. polling' \subseteq polling \cup {c} /\ UNCHANGED <<writes, room, blocked, batch, mask>>
    BY <1>6 DEF Accept, accept, add_fd, pollVars
  <2>3. ready \subseteq ready' /\ UNCHANGED cur /\ at = "accept"
    BY <1>6 DEF Accept, add_fd, pollVars, NextAccept
  <2>4. QED
    BY <2>1, <2>2, <2>3
<1>7. CASE AcceptDone
  BY <1>7 DEF AcceptDone, Return, sockVars, pollVars
<1>8. CASE AcceptFails
  BY <1>8 DEF AcceptFails, Return, sockVars, pollVars
<1>9. ASSUME NEW c \in Conns, PumpWrite(c) PROVE NoLostWrite'
  BY <1>9 DEF PumpWrite, PumpWriteNone, EndPumpWrite, PumpWriteSent, write, Writable,
       NextWrite, PumpWriteBlocked, WriteBlocks, PumpWriteFailed, FailAndShutdown, Wake,
       PumpWriteKilled, WriteKills, sockVars, pollVars, Links
<1>10. ASSUME NEW c \in Conns, PumpRead(c) PROVE NoLostWrite'
  BY <1>10 DEF PumpRead, ReadSegment, read, ReadBlocked, ReadBlocks, Return, ReadFailed,
       ReadFails, FailAndShutdown, Wake, ReadAtEof, ReadEof, ReadOversize, shutdown,
       sockVars, pollVars, Links
<1>11. ASSUME NEW c \in Conns, Handle(c) PROVE NoLostWrite'
  BY <1>11 DEF Handle, HandleRefused, shutdown, Wake, Return, HandleSilent, NextRead,
       ReplyQueued, ReplySent, write, Writable, ReplyBlocked, WriteBlocks, Keep,
       ReplyFailed, FailAndShutdown, ReplyKilled, WriteKills, sockVars, pollVars, Links
<1>12. ASSUME NEW c \in Conns, Peer(c) PROVE NoLostWrite'
  BY <1>12 DEF Peer, PeerConnects, Connect, Wake, lobbyVars, PeerSends, Send, PeerFin,
       Fin, PeerRst, Rst, PeerDrains, Drain, pollVars, sockVars, Links
<1> HIDE DEF RegInv, TypeOK, SocketsTypeOK, PollerTypeOK, Items, RegistriesAgree,
            BatchEventsLive, CurAt, Fresh, WriteWaits, NoLostWrite, EventAhead
<1>13. QED
  BY <1>1, <1>2, <1>3, <1>4, <1>5, <1>6, <1>7, <1>8, <1>9, <1>10, <1>11, <1>12 DEF Next,
       Daemon, Dispatch, AcceptLoop

\* pump_write is not reached by a connection that is closed, and enqueue_write
\* writes only when nothing is queued: the daemon does not kill itself
\* (KilledOnlyByPeer).
LEMMA KilledKept == RegInv /\ Fresh /\ ClosedKnown /\ KilledOnlyByPeer /\ [Next]_vars => KilledOnlyByPeer'
<1> SUFFICES ASSUME RegInv, Fresh, ClosedKnown, KilledOnlyByPeer, [Next]_vars PROVE KilledOnlyByPeer'
  OBVIOUS
<1> USE DEF RegInv, TypeOK, SocketsTypeOK, PollerTypeOK, Items, RegistriesAgree,
            BatchEventsLive, CurAt, Fresh, ClosedKnown, KilledOnlyByPeer, Closed
<1>1. CASE UNCHANGED vars
  BY <1>1 DEF vars, sockVars, pollVars, lobbyVars
<1>2. CASE EpollWait
  BY <1>2 DEF EpollWait, epoll_wait, Reported, Readiness, Events, sockVars, lobbyVars
<1>3. CASE DispatchAccept
  BY <1>3 DEF DispatchAccept, take, sockVars
<1>4. ASSUME NEW i \in batch \cap Conns, DispatchHup(i) PROVE KilledOnlyByPeer'
  BY <1>4, HupFrame DEF HupEffect
<1>5. ASSUME NEW i \in batch \cap Conns, DispatchEvent(i) PROVE KilledOnlyByPeer'
  BY <1>5 DEF DispatchEvent, take, FirstPump, HandledFirst, sockVars
<1>6. ASSUME NEW c \in Conns, NEW f \in Fds, NEW registered \in BOOLEAN, Accept(c, f, registered)
      PROVE KilledOnlyByPeer'
  BY <1>6, AcceptFrame DEF AcceptEffect
<1>7. CASE AcceptDone
  BY <1>7 DEF AcceptDone, Return, sockVars, pollVars
<1>8. CASE AcceptFails
  BY <1>8 DEF AcceptFails, Return, sockVars, pollVars
<1>9. ASSUME NEW c \in Conns, PumpWrite(c) PROVE KilledOnlyByPeer'
  BY <1>9 DEF PumpWrite, PumpWriteNone, EndPumpWrite, PumpWriteSent, write, Writable,
       NextWrite, PumpWriteBlocked, WriteBlocks, PumpWriteFailed, FailAndShutdown, Wake,
       PumpWriteKilled, WriteKills, sockVars, pollVars, Links
<1>10. ASSUME NEW c \in Conns, PumpRead(c) PROVE KilledOnlyByPeer'
  BY <1>10 DEF PumpRead, ReadSegment, read, ReadBlocked, ReadBlocks, Return, ReadFailed,
       ReadFails, FailAndShutdown, Wake, ReadAtEof, ReadEof, ReadOversize, shutdown,
       sockVars, pollVars, Links
<1>11. ASSUME NEW c \in Conns, Handle(c) PROVE KilledOnlyByPeer'
  BY <1>11 DEF Handle, HandleRefused, shutdown, Wake, Return, HandleSilent, NextRead,
       ReplyQueued, ReplySent, write, Writable, ReplyBlocked, WriteBlocks, Keep,
       ReplyFailed, FailAndShutdown, ReplyKilled, WriteKills, sockVars, pollVars, Links
<1>12. ASSUME NEW c \in Conns, Peer(c) PROVE KilledOnlyByPeer'
  BY <1>12 DEF Peer, PeerConnects, Connect, Wake, lobbyVars, PeerSends, Send, PeerFin,
       Fin, PeerRst, Rst, PeerDrains, Drain, pollVars, sockVars, Links
<1> HIDE DEF RegInv, TypeOK, SocketsTypeOK, PollerTypeOK, Items, RegistriesAgree,
            BatchEventsLive, CurAt, Fresh, ClosedKnown, KilledOnlyByPeer, Closed
<1>13. QED
  BY <1>1, <1>2, <1>3, <1>4, <1>5, <1>6, <1>7, <1>8, <1>9, <1>10, <1>11, <1>12 DEF Next,
       Daemon, Dispatch, AcceptLoop

-----------------------------------------------------------------------------
(* When a client ends. *)

\* A hang-up reported for a connection is not over by the time it is dispatched.
OverNoticed == \A c \in batch \cap Conns : "hup" \in mask[c] => HungUp(c)

\* A connection that is over stays so until its client is erased; only epoll_wait()
\* adds events to the batch.
OverStays == (\A c \in Conns : HungUp(c) => HungUp(c)') /\ batch' \subseteq batch /\ mask' = mask

\* No step but the hang-up branch of dispatch erases a client, and none moves a
\* client's descriptor.
KeepsClients == clients \subseteq clients' /\ \A c \in clients : fd'[c] = fd[c]

LEMMA OverWait ==
  ASSUME TypeOK, EpollWait
  PROVE OverNoticed' /\ KeepsClients
<1>1. PICK R \in SUBSET Items : epoll_wait(R)
  BY DEF EpollWait
<1>2. UNCHANGED <<link, shut, fd, clients>>
  BY WaitFrame DEF sockVars, lobbyVars
<1>3. KeepsClients
  BY <1>2 DEF KeepsClients
<1>4. batch' = R /\ mask' = [i \in Items |-> IF i \in R THEN Readiness(i) ELSE {}]
  BY <1>1 DEF epoll_wait
<1>5. \A c \in Conns : "hup" \in Readiness(c) => HungUp(c)
  BY PollerAssumption DEF Readiness, Events
<1>6. \A c : HungUp(c)' = HungUp(c)
  BY <1>2 DEF HungUp
<1>7. QED
  BY <1>3, <1>4, <1>5, <1>6, Zenon DEF OverNoticed, Items

LEMMA OverHup ==
  ASSUME TypeOK, OverNoticed, NEW i \in batch \cap Conns, HupEffect(i)
  PROVE /\ OverNoticed'
        /\ i \in polling /\ HungUp(i) /\ at = "loop" /\ clients' = clients \ {i}
        /\ \A c \in clients' : fd'[c] = fd[c]
<1>1. i \in polling /\ HungUp(i) /\ at = "loop" /\ clients' = clients \ {i}
  BY DEF OverNoticed, HupEffect
<1>2. batch' = batch \ {i} /\ mask' = mask
  BY DEF HupEffect
<1>3. \A c \in Conns : c # i => link'[c] = link[c] /\ shut'[c] = shut[c] /\ fd'[c] = fd[c]
  BY DEF HupEffect, TypeOK, SocketsTypeOK
<1>4. \A c \in Conns : c # i => HungUp(c)' = HungUp(c)
  BY <1>3 DEF HungUp
<1>5. OverNoticed'
  BY <1>2, <1>4 DEF OverNoticed
<1>6. \A c \in clients' : fd'[c] = fd[c]
  BY <1>1, <1>3 DEF TypeOK
<1>7. QED
  BY <1>1, <1>5, <1>6

LEMMA OverRest ==
  ASSUME RegInv, [Next]_vars, ~EpollWait, \A i \in batch \cap Conns : ~DispatchHup(i)
  PROVE OverStays /\ KeepsClients
<1> USE DEF OverStays, KeepsClients, TypeOK, SocketsTypeOK, HungUp
<1>t. TypeOK /\ RegistriesAgree
  BY DEF RegInv
<1>1. CASE UNCHANGED vars
  BY <1>1 DEF vars, sockVars, pollVars, lobbyVars
<1>2. CASE DispatchAccept \/ AcceptDone \/ AcceptFails
  BY <1>2 DEF DispatchAccept, take, AcceptDone, AcceptFails, sockVars, pollVars
<1>3. ASSUME NEW i \in batch \cap Conns, DispatchEvent(i) PROVE OverStays /\ KeepsClients
  BY <1>3 DEF DispatchEvent, take, sockVars
<1>4. ASSUME NEW c \in Conns, NEW f \in Fds, NEW registered \in BOOLEAN, Accept(c, f, registered)
      PROVE OverStays /\ KeepsClients
  <2>1. /\ fd[c] = NoFd /\ fd' = [fd EXCEPT ![c] = f] /\ clients' = clients \cup {c}
        /\ UNCHANGED <<link, shut, batch, mask>>
    BY <1>4 DEF Accept, accept, Backlog, add_fd, pollVars
  <2>2. c \notin clients
    BY <1>t, <2>1 DEF RegistriesAgree
  <2>3. \A d \in clients : fd'[d] = fd[d]
    BY <1>t, <2>1, <2>2
  <2>4. QED
    BY <2>1, <2>3
<1>5. ASSUME NEW c \in Conns, PumpWrite(c) PROVE OverStays /\ KeepsClients
  BY <1>t, <1>5 DEF PumpWrite, PumpWriteNone, PumpWriteSent, write, PumpWriteBlocked, WriteBlocks,
       PumpWriteFailed, FailAndShutdown, Wake, PumpWriteKilled, sockVars, pollVars
<1>6. ASSUME NEW c \in Conns, PumpRead(c) PROVE OverStays /\ KeepsClients
  BY <1>t, <1>6 DEF PumpRead, ReadSegment, read, ReadBlocked, ReadFailed, FailAndShutdown, Wake,
       ReadAtEof, ReadOversize, shutdown, sockVars, pollVars
<1>7. ASSUME NEW c \in Conns, Handle(c) PROVE OverStays /\ KeepsClients
  BY <1>t, <1>7 DEF Handle, HandleRefused, shutdown, Wake, HandleSilent, ReplyQueued, ReplySent, write,
       ReplyBlocked, WriteBlocks, ReplyFailed, FailAndShutdown, ReplyKilled, sockVars, pollVars
<1>8. ASSUME NEW c \in Conns, Peer(c) PROVE OverStays /\ KeepsClients
  BY <1>t, <1>8 DEF Peer, PeerConnects, Connect, Wake, lobbyVars, PeerSends, Send, PeerFin,
       Fin, PeerRst, Rst, PeerDrains, Drain, pollVars
<1> HIDE DEF OverStays, KeepsClients, TypeOK, SocketsTypeOK, HungUp
<1>9. QED
  BY <1>1, <1>2, <1>3, <1>4, <1>5, <1>6, <1>7, <1>8 DEF Next, Daemon, Dispatch, AcceptLoop

\* A client is erased only between two callbacks, when its hang-up is dispatched, and
\* its connection is over then; until that it keeps its descriptor.  So a client the
\* epoll refused is never erased.
EndsWhenOver ==
    /\ \A c \in clients \ clients' : c \in polling /\ HungUp(c) /\ at = "loop"
    /\ \A c \in clients \cap clients' : fd'[c] = fd[c]

LEMMA OverStep == RegInv /\ OverNoticed /\ [Next]_vars => OverNoticed' /\ EndsWhenOver
<1> SUFFICES ASSUME RegInv, OverNoticed, [Next]_vars PROVE OverNoticed' /\ EndsWhenOver
  OBVIOUS
<1>1. CASE EpollWait
  BY <1>1, OverWait DEF RegInv, KeepsClients, EndsWhenOver
<1>2. ASSUME NEW i \in batch \cap Conns, DispatchHup(i) PROVE OverNoticed' /\ EndsWhenOver
  <2>1. HupEffect(i) /\ TypeOK
    BY <1>2, HupFrame DEF RegInv
  <2>2. QED
    BY <2>1, OverHup, Zenon DEF EndsWhenOver
<1>3. CASE ~EpollWait /\ \A i \in batch \cap Conns : ~DispatchHup(i)
  <2>1. OverStays /\ KeepsClients
    BY <1>3, OverRest
  <2>2. QED
    BY <2>1, Zenon DEF OverStays, KeepsClients, OverNoticed, EndsWhenOver
<1>4. QED
  BY <1>1, <1>2, <1>3

-----------------------------------------------------------------------------
\* The inductive invariant.
IndInv ==
    /\ RegInv
    /\ NoLostHup /\ NoLostRead /\ NoLostAccept
    /\ Fresh /\ WriteWaits /\ NoLostWrite
    /\ ClosedKnown /\ KilledOnlyByPeer

\* The inductive invariant holds at the start, when nobody is connected.
LEMMA IndInit == Init => IndInv
<1> SUFFICES ASSUME Init PROVE IndInv
  OBVIOUS
<1>1. RegInv
  BY RegInit
<1>2. NoLostHup /\ NoLostRead /\ NoLostAccept /\ NoLostWrite
  BY DEF Init, SocketsInit, PollerInit, NoLostHup, NoLostRead, NoLostAccept, NoLostWrite, Backlog
<1>3. Fresh /\ WriteWaits /\ ClosedKnown /\ KilledOnlyByPeer
  BY DEF Init, SocketsInit, PollerInit, Fresh, Closed, WriteWaits, ClosedKnown, KilledOnlyByPeer
<1>4. QED
  BY <1>1, <1>2, <1>3 DEF IndInv

\* Every step of the daemon and of the remote programs keeps it.
LEMMA IndStep == IndInv /\ [Next]_vars => IndInv'
  BY RegStep, HupKept, ReadKept, AcceptKept, FreshKept, WaitsKept, WriteKept, KnownKept,
     KilledKept DEF IndInv

\* So it holds throughout.
LEMMA Inductive == Spec => []IndInv
  BY IndInit, IndStep, PTL DEF Spec

\* Every variable keeps its type, and with it: an item in the ready list is in the
\* interest list, and a client with e_polling is in m_clients.
THEOREM TypeCorrect == Spec => []TypeOK
<1>1. IndInv => TypeOK
  BY DEF IndInv, RegInv
<1>2. QED
  BY Inductive, <1>1, PTL

\* The epoll interest list, m_callbacks, m_clients and the open descriptors agree
\* at every system call, whatever is accepted, erased and reused.
THEOREM Registries == Spec => []RegistriesAgree
<1>1. IndInv => RegistriesAgree
  BY DEF IndInv, RegInv
<1>2. QED
  BY Inductive, <1>1, PTL

\* The callbacks dispatch() calls, and the pointers its batch still holds, belong
\* to clients that exist.
THEOREM LiveEvents == Spec => []BatchEventsLive
<1>1. IndInv => BatchEventsLive
  BY DEF IndInv, RegInv
<1>2. QED
  BY Inductive, <1>1, PTL

\* Edge-triggered polling loses no input: pump_read's loop to EAGAIN is enough.
THEOREM InputAnnounced == Spec => []NoLostRead
<1>1. IndInv => NoLostRead
  BY DEF IndInv
<1>2. QED
  BY Inductive, <1>1, PTL

\* No hang-up is lost, so every dead client has the event that frees it ahead.
THEOREM HangupAnnounced == Spec => []NoLostHup
<1>1. IndInv => NoLostHup
  BY DEF IndInv
<1>2. QED
  BY Inductive, <1>1, PTL

\* No queued reply waits without an edge to come.
THEOREM OutputAnnounced == Spec => []NoLostWrite
<1>1. IndInv => NoLostWrite
  BY DEF IndInv
<1>2. QED
  BY Inductive, <1>1, PTL

\* No connection in the listen queue is forgotten, unless accept() failed.
THEOREM BacklogAnnounced == Spec => []NoLostAccept
<1>1. IndInv => NoLostAccept
  BY DEF IndInv
<1>2. QED
  BY Inductive, <1>1, PTL

\* SIGPIPE comes only from a connection its peer closed and then aborted, never
\* from one that handle_write, resume_read or pump_read has shut down.
THEOREM NeverKillsItself == Spec => []KilledOnlyByPeer
<1>1. IndInv => KilledOnlyByPeer
  BY DEF IndInv
<1>2. QED
  BY Inductive, <1>1, PTL

\* A client is freed only when its connection is over, never under its own callback,
\* and one whose add_fd failed is never freed (epoll_dispatch::dispatch,
\* client::handle_dispatch, server::accept_cb).
THEOREM ErasedWhenOver == Spec => [][EndsWhenOver]_vars
<1>1. Init => OverNoticed
  BY DEF Init, PollerInit, OverNoticed
<1>2. IndInv /\ OverNoticed /\ [Next]_vars => OverNoticed' /\ [EndsWhenOver]_vars
  BY OverStep DEF IndInv
<1>3. QED
  BY <1>1, <1>2, Inductive, PTL DEF Spec
=============================================================================
