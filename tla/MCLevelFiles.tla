---------------------------- MODULE MCLevelFiles ----------------------------
(***************************************************************************)
(* A directory with one level file that may hold anything, a good one and  *)
(* files of other kinds.                                                   *)
(***************************************************************************)
EXTENDS LevelFiles, TLC

Dims == [is |-> "DIM", w |-> 2, h |-> 2]
Dot == [is |-> "DIM", w |-> 1, h |-> 1]
Tempo == [is |-> "TEMPO", n |-> 1]
Comment == [is |-> "#"]
Mon(names) == [is |-> "MON", files |-> names]
Row(cells) == [is |-> "row", cells |-> cells]
Pac(name) == [is |-> "PAC", file |-> name]
Pos(i, j) == [is |-> "POS", first |-> i, second |-> j]
Passo == [is |-> "PASSO", n |-> 2]
Move(op) == [is |-> "move", op |-> op, n |-> Undefined]
Wait(n) == [is |-> "move", op |-> "T", n |-> n]

SomeLines ==
  {Dims, Dot, Comment, Pac("1.p"), Pac("no.p"),
   Row(<<"X", "o">>), Row(<<"o", "@">>), Row(<<"o">>)}
  \cup {Mon(names) : names \in {<<"1.m">>, <<"2.m">>, <<"2.m", "1.m">>, <<"1.m", "no.m">>, <<"3.m">>}}

\* Lines in any order and number: up to two, or DIM and four more.
AnyLevel == UNION {[1 .. n -> SomeLines] : n \in 0 .. 2}
            \cup {<<Dims>> \o more : more \in [1 .. 4 -> SomeLines]}

GoodLevelFile == <<Comment, Dims, Tempo, Row(<<"o", "X">>), Row(<<"@", "o">>)>>

Disk(level) ==
  [name \in {"0.lvl", "1.lvl", "1.m", "2.m", "3.m", "1.p"} |->
     CASE name = "0.lvl" -> level
       [] name = "1.lvl" -> GoodLevelFile
       [] name = "1.m" -> <<Comment, Passo, Pos(1, 1), Move("A"), Comment, Wait(2)>>
       [] name = "2.m" -> <<Pos(1, 0), Passo, Move("R")>>
       [] name = "3.m" -> <<Passo, Pos(0, 0), Move("A"), Move("W"), Move("D")>>
       [] name = "1.p" -> <<Passo, Pos(1, 0), Move("A")>>]

\* A file that cannot be opened, and a directory with a Makefile in it.
AllDisks == {Disk(level) : level \in AnyLevel \cup {NoFile}}
            \cup {[Makefile |-> <<>>] @@ Disk(GoodLevelFile)}

Extensions == [name \in {"0.lvl", "1.lvl", "1.m", "2.m", "3.m", "no.m", "1.p", "no.p", "Makefile"} |->
                 CASE name \in {"0.lvl", "1.lvl"} -> ".lvl"
                   [] name \in {"1.p", "no.p"} -> ".p"
                   [] name = "Makefile" -> "none"
                   [] OTHER -> ".m"]

SomeLetters == {"X", "o", "@", "A", "D", "R", "T", "W"}
=============================================================================
