------------------------------ MODULE MCFrames ------------------------------
(* A dot beside the pacman, a wall, and a ghost that charges in any direction: *)
(* at the pacman, the wall and the edges, over the dot and back.               *)
EXTENDS Frames, TLC

CONSTANT g1

\*   o P
\*   X M
CornerWalls == {<<0, 1>>}
CornerDots  == {<<0, 0>>}
CornerStart == (Pac :> <<1, 0>>) @@ (g1 :> <<1, 1>>)
SlowGhost   == (Pac :> 0) @@ (g1 :> 1)

Cmd(op) == [op |-> op, turns |-> 1]
ChargeMoves == g1 :> <<Cmd("C"), Cmd("R")>>
=============================================================================
