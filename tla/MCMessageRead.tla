--------------------------- MODULE MCMessageRead ----------------------------
(* Instances of MessageRead for TLC: the messages a gatekeeper client sends,    *)
(* with payload sizes around the limit (scaled down from 1024 to 3).            *)
EXTENDS MessageRead, Messages

\* One message after another in the stream.
Placed(msgs) ==
    FoldLeft(LAMBDA done, s : Append(done,
                 [s EXCEPT !.start = IF done = <<>> THEN 0 ELSE End(Last(done))]),
             <<>>, msgs)

Handshake(n) == <<connection_header(n + 4, n), encrypt_header, encrypt_seed>>

Session(n, m) ==
    Handshake(n) \o <<msg_std_header, pingRequest(m, m), msg_std_header, fileSrvRequest, msg_std_header, authSrvRequest>>

\* Sessions with empty, small and largest payloads, and refused ones: one over
\* the limit, and a redundant size of zero to three.
MCScripts ==
    {Placed(Session(0, 1)), Placed(Session(3, 0)), Placed(Session(2, 2)), Placed(Session(0, 3)),
      Placed(Handshake(1) \o <<msg_std_header, pingRequest(4, 4)>>),
      Placed(<<connection_header(0, 1)>>), Placed(<<connection_header(3, 1)>>),
      Placed(<<connection_header(8, 1)>>)}
=============================================================================
