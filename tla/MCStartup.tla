----------------------------- MODULE MCStartup ------------------------------
(* An instance of Startup for TLC.                                              *)
EXTENDS Startup, TLC

MCText == STRING

MCInside == [v \in {"[::1]"} |-> "::1"]

MCPairs == <<"pair1", "pair2">>

MCShared(pair, g) == pair \o "^" \o ToString(g)

MCNumber == [v \in {"0", "4", "7", "14617", "70000"} |->
                CASE v = "0" -> 0 [] v = "4" -> 4 [] v = "7" -> 7
                  [] v = "14617" -> 14617 [] v = "70000" -> 70000]

\* A host with one address and one with several.
MCResolves == [h \in {"127.0.0.1", "lan"} |->
                  CASE h = "127.0.0.1" -> <<"127.0.0.1">>
                    [] h = "lan" -> <<"10.0.0.1", "10.0.0.2", "10.0.0.3">>]

Order(section, keys) ==
    [i \in 1..(Len(keys) + 1) |-> [section |-> section, key |-> IF i = 1 THEN "" ELSE keys[i - 1]]]

\* Two orders of the maps: in one a save writes n before k and g last, in the other X
\* last.
MCLayouts ==
    {Order("lobby", <<"port", "extaddr", "bindaddr">>) \o
       Order("gate", <<"authaddr", "crypt_n", "crypt_x", "crypt_k", "crypt_g">>),
     Order("gate", <<"crypt_g", "crypt_k", "authaddr", "crypt_n", "crypt_x">>) \o
       Order("lobby", <<"bindaddr", "port", "extaddr">>)}

\* No file; a saved one with keys and a port of more than 16 bits; and one by hand, with an
\* item before any section, an empty port, an external address in brackets that hides the
\* next item, another base, and an unknown section.
MCFiles ==
    {<<>>,
     <<Header("gate"), Item("crypt_k", "old"), Item("crypt_n", "old"), Item("crypt_x", "old^4"),
       Item("authaddr", ""), Header("lobby"), Item("port", "70000")>>,
     <<Item("port", "5000"), Comment, Header("lobby"), Item("port", ""), Item("color", "red"),
       Item("bindaddr", "lan"), Item("extaddr", "[::1]"), Item("port", "14617"),
       Header("gate"), Item("crypt_g", "7"), Header("auth"), Item("port", "1")>>}
=============================================================================
