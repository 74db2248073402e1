------------------------------ MODULE MCLevel ------------------------------
(* Small levels for TLC: boards, ghost programs and client commands. *)
EXTENDS Level, TLC

CONSTANTS g1, g2

\* A board of 3 x 2 cells with one wall:      P o M
\*                                            X o @     (ghosts on the right)
SmallWalls   == {<<0, 1>>}
SmallPortals == {<<2, 1>>}
SmallDots    == {<<0, 0>>, <<1, 0>>}
SmallStart   == (Pac :> <<0, 0>>) @@ (g1 :> <<2, 0>>) @@ (g2 :> <<1, 1>>)

NoPasso == [t \in Threads |-> 0]
SlowPasso == [t \in Threads |-> IF t = Pac THEN 1 ELSE 0]

Cmd(op) == [op |-> op, turns |-> 1]
RandomMoves == [g \in Ghosts |-> <<Cmd("R")>>]
\* g1 charges to and fro along its row; g2 charges at the wall and crosses the row.
ChargeMoves == (g1 :> <<Cmd("C"), Cmd("A"), Cmd("C"), Cmd("D")>>)
               @@ (g2 :> <<Cmd("D"), Cmd("C"), Cmd("A"), Cmd("W"), Cmd("S")>>)

\* A ghost that waits, with an unknown letter at the end of its file.
WaitMoves == (g1 :> <<[op |-> "T", turns |-> 2], Cmd("A"), Cmd("D")>>)
             @@ (g2 :> <<Cmd("W"), Cmd("other")>>)

\* One ghost roams, the other waits and moves slowly until it comes to an unknown
\* letter in its file.
MixedMoves == (g1 :> <<Cmd("R")>>)
              @@ (g2 :> <<[op |-> "T", turns |-> 2], Cmd("W"), Cmd("other")>>)
MixedPasso == [t \in Threads |-> IF t = Pac THEN 1 ELSE 0]

RowCommands == {"A", "D", "Q"}
AllCommands == {"W", "S", "A", "D", "T", "Q"}
=============================================================================
