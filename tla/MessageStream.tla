--------------------------- MODULE MessageStream ----------------------------
(* What the reading side of a connection promises: the messages of a byte      *)
(* stream, whole and in order, as soon as their last byte is there; a message   *)
(* that announces too many elements ends the connection instead.                *)
EXTENDS Naturals, Sequences

VARIABLES
    plan,       \* the stream's messages: where each ends, where its size is known, if it is legal
    arrived,    \* bytes the network has delivered
    delivered,  \* messages handed to the handler
    state       \* "open"; "refused" by the daemon; "lost" to the network or the client

streamVars == <<plan, arrived, delivered, state>>

Init ==
    /\ arrived = 0
    /\ delivered = 0
    /\ state = "open"

Next1 == plan[delivered + 1]

Arrive ==
    /\ arrived' > arrived
    /\ UNCHANGED <<plan, delivered, state>>

\* The handler may end the connection with the message it is given.
Deliver ==
    /\ state = "open" /\ delivered < Len(plan)
    /\ Next1.legal /\ arrived >= Next1.end
    /\ delivered' = delivered + 1
    /\ state' \in {"open", "refused"}
    /\ UNCHANGED <<plan, arrived>>

Refuse ==
    /\ state = "open" /\ delivered < Len(plan)
    /\ ~Next1.legal /\ arrived >= Next1.head
    /\ state' = "refused"
    /\ UNCHANGED <<plan, arrived, delivered>>

Lose ==
    /\ state = "open" /\ state' = "lost"
    /\ UNCHANGED <<plan, arrived, delivered>>

Next == Arrive \/ Deliver \/ Refuse \/ Lose

Spec == Init /\ [][Next]_streamVars /\ WF_streamVars(Deliver) /\ WF_streamVars(Refuse)
=============================================================================
