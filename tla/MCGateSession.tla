--------------------------- MODULE MCGateSession ----------------------------
(* Instances of GateSession for TLC.                                            *)
EXTENDS GateSession

\* Bytes on the wire, scaled down so that every reply can be cut in two.
MCSize == [encrypt_s2c |-> 3, pingReply |-> 2, fileSrvReply |-> 3, authSrvReply |-> 3]
=============================================================================
