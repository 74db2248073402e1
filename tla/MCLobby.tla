------------------------------ MODULE MCLobby ------------------------------
(***************************************************************************)
(* The lobby with three clients and two game threads.                      *)
(***************************************************************************)
EXTENDS Lobby, TLC

CONSTANTS c1, c2, c3

MCClients == {c1, c2, c3}
MCSlots == 0 .. 1
MCVanish == {c1}
MCNobody == {}

\* The immortal clients are interchangeable.
MCSymmetry == Permutations({c2, c3})
=============================================================================
