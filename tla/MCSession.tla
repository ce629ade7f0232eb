----------------------------- MODULE MCSession ------------------------------
(* Instances of Session for TLC: MCMessageRead's messages with what they say.   *)
EXTENDS Session, MCMessageRead

Named(s, name, says) == [name |-> name, says |-> says] @@ s

Header(value, payload, says) == Named(connection_header(value, payload), "connection_header", says)
Sized == Named(encrypt_header, "encrypt_header", "sized")
Seed(says) == Named(encrypt_seed, "encrypt_seed", says)
Type(says) == Named(msg_std_header, "msg_std_header", says)
Greeting(n) == <<Header(n + 4, n, "gate"), Sized, Seed("seed")>>

PingOf(value, payload, id) ==
    <<Type("pingRequest"), Named(pingRequest(value, payload), "pingRequest", id)>>
FileSrvOf(id) == <<Type("fileSrvRequest"), Named(fileSrvRequest, "fileSrvRequest", id)>>
AuthSrvOf(id) == <<Type("authSrvRequest"), Named(authSrvRequest, "authSrvRequest", id)>>

\* Sessions that are served, with empty and largest payloads; refused sizes; and
\* what the handlers refuse at each stage.
MCSessions ==
    {Placed(x) : x \in
        {Greeting(0) \o PingOf(3, 3, "t1") \o FileSrvOf("t2") \o AuthSrvOf("t1"),
         Greeting(3) \o AuthSrvOf("t1") \o PingOf(0, 0, "t2"),
         Greeting(1) \o PingOf(1, 1, "t1") \o PingOf(4, 4, "t2"),
         <<Header(0, 1, "gate")>>, <<Header(3, 1, "gate")>>, <<Header(8, 1, "gate")>>,
         <<Header(4, 0, "other"), Sized>>,
         <<Header(4, 0, "gate"), Named(encrypt_header, "encrypt_header", "misfit"), Seed("seed")>>,
         <<Header(4, 0, "gate"), Named(encrypt_header, "encrypt_header", "empty")>> \o AuthSrvOf("t1"),
         <<Header(5, 1, "gate"), Sized, Seed("weak")>> \o AuthSrvOf("t1"),
         Greeting(2) \o <<Type("unknown")>>}}

\* Bytes on the wire, scaled down.
MCSize == [encrypt_s2c |-> 2, pingReply |-> 2, fileSrvReply |-> 2, authSrvReply |-> 2]
=============================================================================
