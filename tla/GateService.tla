---------------------------- MODULE GateService -----------------------------
(* What a gatekeeper connection promises: the phases of the handshake in order, *)
(* service only in the last one, and to every request one reply, received in    *)
(* the order of the requests.                                                   *)
EXTENDS Naturals, Sequences

CONSTANTS Ids       \* transaction ids

VARIABLES
    phase,      \* "greeting", "handshake", "seed", "serving", "ended"
    requests,   \* transaction ids of the requests taken
    replies,    \* transaction ids of the replies produced
    received    \* how many of them the client has received whole

serviceVars == <<phase, requests, replies, received>>

Init == phase = "greeting" /\ requests = <<>> /\ replies = <<>> /\ received = 0

Following(p, q) == <<p, q>> \in {<<"greeting", "handshake">>, <<"handshake", "seed">>, <<"seed", "serving">>}

Advance ==
    /\ Following(phase, phase')
    /\ UNCHANGED <<requests, replies, received>>

\* A reply may reach the client at once if no other is on its way.
Serve ==
    /\ phase = "serving"
    /\ \E t \in Ids : requests' = Append(requests, t) /\ replies' = Append(replies, t)
    /\ received' \in {received} \cup (IF received = Len(replies) THEN {received + 1} ELSE {})
    /\ UNCHANGED phase

Receive ==
    /\ phase # "ended" /\ received < Len(replies)
    /\ received' = received + 1
    /\ UNCHANGED <<phase, requests, replies>>

End ==
    /\ phase' = "ended"
    /\ UNCHANGED <<requests, replies, received>>

Next == Advance \/ Serve \/ Receive \/ End

Spec == Init /\ [][Next]_serviceVars
=============================================================================
