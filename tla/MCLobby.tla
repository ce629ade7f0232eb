------------------------------ MODULE MCLobby -------------------------------
(* Instances of Lobby for TLC. *)
EXTENDS Lobby, TLC

\* Remote programs and descriptors are interchangeable: no definition names one.
Symmetry == Permutations(Conns) \cup Permutations(Fds)
=============================================================================
