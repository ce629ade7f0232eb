--------------------------- MODULE MCKeyExchange ----------------------------
(* Instances of KeyExchange for TLC.                                            *)
EXTENDS KeyExchange, Bitwise

\* uru_crypt.cpp's ^ on two bytes.
MCXor(p, q) == p ^^ q
=============================================================================
