---------------------------- MODULE FramesProofs ----------------------------
(***************************************************************************)
(* Theorems about Frames for every board, every set of ghosts and every    *)
(* program of theirs: what the updates of a level say while it goes on.    *)
(***************************************************************************)
EXTENDS Frames, LevelProofs

----------------------------------------------------------------------------
(* The matrix. *)

\* Places of the matrix are cells, and no two of them the same cell.
LEMMA DivMod ==
  ASSUME NEW n \in Nat, NEW w \in Nat \ {0}
  PROVE  /\ n % w \in 0 .. w - 1 /\ n \div w \in Nat
         /\ n = w * (n \div w) + (n % w)
<1>1. n % w \in 0 .. w - 1
  OBVIOUS
<1>2. n \div w \in Int /\ n \div w >= 0
  OBVIOUS
<1>3. n = w * (n \div w) + (n % w)
  OBVIOUS
<1> QED
  BY <1>1, <1>2, <1>3

LEMMA PlacesAreCells ==
  ASSUME NEW n \in Nat, n < Width * Height
  PROVE  CellAt(n) \in Cells
<1> DEFINE q == n \div Width
<1>1. Width \in Nat \ {0} /\ Height \in Nat \ {0}
  BY LevelAssumption
<1>2. n % Width \in 0 .. Width - 1 /\ q \in Nat /\ n = Width * q + (n % Width)
  BY <1>1, DivMod
<1>3. q < Height
  <2>1. SUFFICES ASSUME q >= Height PROVE FALSE
    BY <1>1, <1>2
  <2>2. PICK k \in Nat : q = Height + k
    <3>1. q - Height \in Nat /\ q = Height + (q - Height)
      BY <1>1, <1>2, <2>1
    <3> QED
      BY <3>1
  <2>3. Width * q = Width * Height + Width * k
    BY <1>1, <2>2
  <2>4. Width * k \in Nat /\ Width * Height \in Nat
    BY <1>1, <2>2
  <2>5. n % Width \in Nat
    BY <1>1, <1>2
  <2> HIDE DEF q
  <2> QED
    BY <1>2, <2>3, <2>4, <2>5
<1> QED
  BY <1>1, <1>2, <1>3 DEF CellAt, Cells

LEMMA PlacesDiffer ==
  ASSUME NEW m \in Nat, NEW n \in Nat, CellAt(m) = CellAt(n)
  PROVE  m = n
<1>1. m % Width = n % Width /\ m \div Width = n \div Width
  BY DEF CellAt
<1>2. /\ m = Width * (m \div Width) + (m % Width)
      /\ n = Width * (n \div Width) + (n % Width)
  BY DivMod, LevelAssumption
<1> QED
  BY <1>1, <1>2, Zenon

----------------------------------------------------------------------------
(* The inductive invariant: what the threads of the level keep, the types, and *)
(* the dots there were when the header was taken.                              *)

\* The cells an update shows with a dot.
DotCells == {CellAt(i - 1) : i \in ShownDots}

\* H is what was left of the dots when the points were read.
HeaderHolds ==
  \E H \in SUBSET Dots : /\ dots \subseteq H /\ DotCells \subseteq H
                         /\ shown + Cardinality(H) <= AccPoints + Cardinality(Dots)

FrameType ==
  /\ st \in {"loop", "asleep", "header", "cells", "sent", "over", "hung"}
  /\ shown \in Nat
  /\ frame \in Seq(Contents \cup {"@", ".", " "})
  /\ Len(frame) <= Width * Height
  /\ st \in {"loop", "asleep", "header", "over"} => frame = <<>>

\* Each place of the update shows a wall where there is one, and what a cell can.
ShownChars == Contents \cup {"@", ".", " "}
WallsShown ==
  \A i \in DOMAIN frame : /\ frame[i] \in ShownChars
                          /\ frame[i] = "X" <=> CellAt(i - 1) \in Walls

FInv == IInv /\ PointsConserved /\ FrameType /\ HeaderHolds /\ WallsShown

\* What boardToChar writes for a cell.
LEMMA CharType ==
  ASSUME IInv, NEW c \in Cells
  PROVE  /\ Char(c) \in Contents \cup {"@", ".", " "}
         /\ Char(c) = "X" <=> c \in Walls
         /\ Char(c) = "." => c \in dots
<1>1. content[c] \in Contents /\ (content[c] = "X" <=> c \in Walls)
  BY DEF IInv, TypeOK, BoardType, WallsStand
<1> QED
  BY <1>1 DEF Char, Contents

\* No thread of the level writes what server_thread keeps.
LEMMA ServerApart == Next => UNCHANGED serverVars
BY DEF Next, PacReads, PacRuns, GhostRuns, GameRuns, LevelOver, vars, gameVars,
       PacChecks, PacQuits, PacFindsItselfDead, PacWaits, PacAims, PacCommanded,
       PacEntersPortal, PacMeetsWall, PacMeetsGhost, PacMoves, PacLeavesByPortal,
       LockFirst, LockSecond, HangOnLock, GhostLeaves, GhostWaits, GhostPlays, GhostCharges,
       GhostPauses, GhostStumbles, GhostAims, GhostRushes, GhostScansOn, GhostStopsShort,
       GhostSpotsPac, GhostMeetsObstacle, GhostMoves, GhostChecks, GameStops, GameUnloads,
       handle_shutdown

ServerSteps == ServerRuns \/ ServerWrites \/ ServerHangs

\* A step of module Level leaves server_thread alone, one of server_thread the level.
LEMMA LevelSteps ==
  ASSUME [FramesNext]_vars
  PROVE  /\ [Next]_levelVars
         /\ ~UNCHANGED serverVars => UNCHANGED levelVars /\ ServerSteps
<1>1. ServerSteps => UNCHANGED levelVars
  BY Zenon DEF ServerSteps, ServerRuns, ServerWrites, ServerHangs, ServerLeaves,
               ServerSleeps, ServerTakesHeader, ServerWritesHeader, ServerReadsCell,
               ServerSends, ServerLooksAtActive
<1>2. UNCHANGED vars => UNCHANGED levelVars /\ UNCHANGED serverVars
  BY DEF vars
<1>3. Next => UNCHANGED serverVars
  BY ServerApart
<1> QED
  BY <1>1, <1>2, <1>3, Zenon DEF FramesNext, ServerSteps

LEMMA InitFInv == FramesInit => FInv
<1> SUFFICES ASSUME FramesInit PROVE FInv
  OBVIOUS
<1>1. IInv /\ PointsConserved
  BY InitLevel, PointsInit DEF FramesInit
<1>2. st = "loop" /\ shown \in 0 .. AccPoints /\ frame = <<>> /\ dots = Dots
  BY DEF FramesInit, LevelInit
<1>3. FrameType
  <2>1. Width * Height \in Nat
    BY LevelAssumption
  <2> QED
    BY <1>2, <2>1, LevelAssumption DEF FrameType
<1>4. HeaderHolds
  <2>1. DotCells = {}
    BY <1>2 DEF DotCells, ShownDots
  <2>2. Cardinality(Dots) \in Nat
    BY DotsFinite, FS_CardinalityType
  <2>3. shown + Cardinality(Dots) <= AccPoints + Cardinality(Dots)
    BY <1>2, <2>2, LevelAssumption
  <2> QED
    BY <1>2, <2>1, <2>3 DEF HeaderHolds
<1>5. WallsShown
  <2>1. DOMAIN frame = {}
    BY <1>2
  <2> QED
    BY <2>1, Zenon DEF WallsShown
<1> QED
  BY <1>1, <1>3, <1>4, <1>5 DEF FInv

\* The next cell fits in the matrix.
LEMMA ReadType ==
  ASSUME FInv, ServerReadsCell
  PROVE  /\ NextCell \in Cells
         /\ frame' = Append(frame, Char(NextCell))
         /\ frame' \in Seq(Contents \cup {"@", ".", " "})
         /\ Len(frame) \in Nat /\ Len(frame') = Len(frame) + 1
         /\ Len(frame') <= Width * Height
<1> DEFINE S == Contents \cup {"@", ".", " "}
<1>1. frame \in Seq(S)
  BY DEF FInv, FrameType
<1>2. Char(NextCell) \in S /\ NextCell \in Cells /\ Len(frame) < Width * Height
  <2> HIDE DEF S
  <2>1. Len(frame) \in Nat
    BY <1>1
  <2> USE DEF S
  <2>2. Len(frame) < Width * Height
    BY DEF ServerReadsCell
  <2>3. NextCell \in Cells
    BY <2>1, <2>2, PlacesAreCells DEF NextCell
  <2> QED
    BY <2>2, <2>3, CharType DEF FInv
<1>3. frame' = Append(frame, Char(NextCell))
  BY DEF ServerReadsCell
<1> HIDE DEF S
<1>4. Len(frame) \in Nat
  BY <1>1
<1>5. frame' \in Seq(S) /\ Len(frame') = Len(frame) + 1
  BY <1>1, <1>2, <1>3, AppendProperties
<1>6. Width * Height \in Nat
  BY LevelAssumption
<1>7. Len(frame') <= Width * Height
  BY <1>2, <1>4, <1>5, <1>6
<1> QED
  BY <1>2, <1>3, <1>4, <1>5, <1>7 DEF S

LEMMA FrameTypeStep == FInv /\ [FramesNext]_vars => FrameType'
<1> SUFFICES ASSUME FInv, [FramesNext]_vars PROVE FrameType'
  OBVIOUS
<1> USE DEF FrameType
<1>0. FrameType /\ points \in Nat
  BY DEF FInv, IInv, TypeOK, PacType
<1>1. CASE UNCHANGED serverVars
  BY <1>0, <1>1 DEF serverVars
<1>2. CASE ServerReadsCell
  BY <1>0, <1>2, ReadType DEF ServerReadsCell
<1>3. CASE \/ ServerLeaves \/ ServerSleeps \/ ServerTakesHeader \/ ServerWrites
            \/ ServerLooksAtActive
  <2>1. \/ frame' = <<>> /\ st' \in {"loop", "over"}
        \/ frame' = frame /\ st' \in {"cells", "sent"}
        \/ frame = <<>> /\ frame' = frame /\ st' \in {"asleep", "header"}
    BY <1>0, <1>3
       DEF ServerLeaves, ServerSleeps, ServerTakesHeader, ServerWrites, ServerWritesHeader,
           ServerSends, ServerLooksAtActive, ServerReturns
  <2>2. shown' \in Nat
    BY <1>0, <1>3
       DEF ServerLeaves, ServerSleeps, ServerTakesHeader, ServerWrites, ServerWritesHeader,
           ServerSends, ServerLooksAtActive
  <2>3. Len(<<>>) = 0 /\ Width * Height \in Nat
    BY LevelAssumption
  <2>4. Len(<<>>) <= Width * Height
    BY <2>3
  <2>5. <<>> \in Seq(Contents \cup {"@", ".", " "})
    OBVIOUS
  <2> QED
    BY <1>0, <2>1, <2>2, <2>4, <2>5
<1>4. CASE ServerHangs
  BY <1>0, <1>4 DEF ServerHangs
<1> QED
  BY <1>1, <1>2, <1>3, <1>4, LevelSteps, Zenon DEF ServerSteps, ServerRuns

\* The points of the level and the dots that are left make up a whole.
LEMMA HeaderIsExact ==
  ASSUME IInv, PointsConserved
  PROVE  points + Cardinality(dots) = AccPoints + Cardinality(Dots)
<1>1. dots \subseteq Dots /\ IsFiniteSet(dots) /\ IsFiniteSet(Dots \ dots)
  BY DotsFinite, FS_Subset DEF IInv, TypeOK, BoardType
<1>2. Dots = dots \cup (Dots \ dots) /\ dots \cap (Dots \ dots) = {}
  BY <1>1
<1>3. Cardinality(Dots) = Cardinality(dots) + Cardinality(Dots \ dots) - Cardinality({})
  BY <1>1, <1>2, FS_Union
<1>4. Cardinality({}) = 0
  BY FS_EmptySet
<1>5. Cardinality(dots) \in Nat /\ Cardinality(Dots \ dots) \in Nat
  BY <1>1, FS_CardinalityType
<1> QED
  BY <1>3, <1>4, <1>5, LevelAssumption DEF PointsConserved

\* The dots only become fewer.
LEMMA DotsShrink == [Next]_levelVars => dots' \subseteq dots
BY DotWriters DEF PacMoves

LEMMA HeaderStep == FInv /\ [FramesNext]_vars => HeaderHolds'
<1> SUFFICES ASSUME FInv, [FramesNext]_vars PROVE HeaderHolds'
  OBVIOUS
<1>1. PICK H \in SUBSET Dots : /\ dots \subseteq H /\ DotCells \subseteq H
                               /\ shown + Cardinality(H) <= AccPoints + Cardinality(Dots)
  BY DEF FInv, HeaderHolds
<1>2. dots' \subseteq dots
  BY LevelSteps, DotsShrink
<1>3. frame' = <<>> => DotCells' = {}
  BY DEF DotCells, ShownDots
<1>4. frame' = frame => DotCells' = DotCells
  BY DEF DotCells, ShownDots
<1>5. CASE UNCHANGED shown /\ (frame' = frame \/ frame' = <<>>)
  <2>1. DotCells' \subseteq H
    BY <1>1, <1>3, <1>4, <1>5
  <2> QED
    BY <1>1, <1>2, <1>5, <2>1 DEF HeaderHolds
<1>6. CASE ServerTakesHeader
  <2>1. frame = <<>> /\ (frame' = frame \/ frame' = <<>>) /\ shown' = points /\ dots' = dots
    BY <1>6 DEF ServerTakesHeader, ServerReturns, FInv, FrameType, levelVars, boardVars
  <2>2. DotCells' = {}
    BY <1>3, <2>1
  <2>3. shown' + Cardinality(dots) = AccPoints + Cardinality(Dots)
    BY <2>1, HeaderIsExact DEF FInv
  <2>4. dots \in SUBSET Dots
    BY DEF FInv, IInv, TypeOK, BoardType
  <2>5. Cardinality(Dots) \in Nat
    BY DotsFinite, FS_CardinalityType
  <2>6. shown' + Cardinality(dots) <= AccPoints + Cardinality(Dots)
    BY <2>3, <2>5, LevelAssumption
  <2> QED
    BY <2>1, <2>2, <2>4, <2>6 DEF HeaderHolds
<1>7. CASE ServerReadsCell
  <2>1. shown' = shown
    BY <1>7 DEF ServerReadsCell
  <2> DEFINE S == Contents \cup {"@", ".", " "}
             n == Len(frame)
  <2>2. frame \in Seq(S) /\ Char(NextCell) \in S /\ frame' = Append(frame, Char(NextCell))
    <3>1. Char(NextCell) \in S
      BY <1>7, ReadType, CharType DEF FInv
    <3> QED
      BY <1>7, <3>1, ReadType DEF FInv, FrameType
  <2>3. Char(NextCell) = "." => NextCell \in H
    BY <1>1, <1>7, ReadType, CharType DEF FInv
  <2>4. ASSUME NEW i \in ShownDots' PROVE CellAt(i - 1) \in H
    <3> HIDE DEF S
    <3>1. /\ n \in Nat /\ i \in 1 .. n + 1
          /\ i \in 1 .. n => frame'[i] = frame[i]
          /\ i = n + 1 => frame'[i] = Char(NextCell)
      <4>1. n \in Nat /\ DOMAIN frame' = 1 .. n + 1
        BY <2>2, AppendProperties
      <4>2. i \in DOMAIN frame'
        BY <2>4 DEF ShownDots
      <4> QED
        BY <2>2, <4>1, <4>2, AppendProperties
    <3>2. frame'[i] = "."
      BY <2>4 DEF ShownDots
    <3>3. CASE i \in 1 .. n
      <4>1. i \in DOMAIN frame
        BY <2>2, <3>3
      <4>2. CellAt(i - 1) \in DotCells
        BY <3>1, <3>2, <3>3, <4>1 DEF DotCells, ShownDots
      <4> QED
        BY <1>1, <4>2
    <3>4. CASE i = n + 1
      <4>1. i - 1 = n
        BY <3>1, <3>4
      <4>2. CellAt(i - 1) = NextCell
        BY <4>1 DEF NextCell
      <4> QED
        BY <2>3, <3>1, <3>2, <3>4, <4>2
    <3> QED
      BY <3>1, <3>3, <3>4
  <2>5. DotCells' \subseteq H
    BY <2>4 DEF DotCells, CellAt
  <2> QED
    BY <1>1, <1>2, <2>1, <2>5 DEF HeaderHolds
<1> QED
  <2>1. UNCHANGED serverVars \/ ServerSteps
    BY LevelSteps
  <2>2. \/ UNCHANGED shown /\ (frame' = frame \/ frame' = <<>>)
        \/ ServerTakesHeader \/ ServerReadsCell
    BY <2>1, Zenon
       DEF serverVars, ServerSteps, ServerRuns, ServerWrites, ServerHangs, ServerLeaves,
           ServerSleeps, ServerWritesHeader, ServerSends, ServerLooksAtActive, ServerReturns
  <2> QED
    BY <1>5, <1>6, <1>7, <2>2, Zenon

LEMMA WallsShownStep == FInv /\ [FramesNext]_vars => WallsShown'
<1> SUFFICES ASSUME FInv, [FramesNext]_vars PROVE WallsShown'
  OBVIOUS
<1>0. WallsShown
  BY DEF FInv
<1>1. CASE frame' = frame \/ frame' = <<>>
  <2>1. frame' = <<>> => DOMAIN frame' = {}
    OBVIOUS
  <2>2. CASE frame' = frame
    BY <1>0, <2>2 DEF WallsShown, CellAt
  <2> QED
    BY <1>1, <2>1, <2>2, Zenon DEF WallsShown
<1>2. CASE ServerReadsCell
  <2> DEFINE n == Len(frame)
  <2>1. /\ frame \in Seq(ShownChars) /\ Char(NextCell) \in ShownChars
        /\ frame' = Append(frame, Char(NextCell))
    <3>1. Char(NextCell) \in ShownChars
      BY <1>2, ReadType, CharType DEF FInv, ShownChars
    <3> QED
      BY <1>2, <3>1, ReadType DEF FInv, FrameType, ShownChars
  <2>2. Char(NextCell) = "X" <=> NextCell \in Walls
    BY <1>2, ReadType, CharType DEF FInv
  <2>3. ASSUME NEW i \in DOMAIN frame'
        PROVE  frame'[i] \in ShownChars /\ (frame'[i] = "X" <=> CellAt(i - 1) \in Walls)
    <3>1. /\ n \in Nat /\ i \in 1 .. n + 1 /\ DOMAIN frame = 1 .. n
          /\ i \in 1 .. n => frame'[i] = frame[i]
          /\ i = n + 1 => frame'[i] = Char(NextCell)
      <4>1. n \in Nat /\ DOMAIN frame' = 1 .. n + 1
        BY <2>1, AppendProperties
      <4> QED
        BY <2>1, <2>3, <4>1, AppendProperties
    <3>2. CASE i \in 1 .. n
      <4>1. i \in DOMAIN frame /\ frame'[i] = frame[i]
        BY <3>1, <3>2
      <4>2. frame[i] \in ShownChars /\ (frame[i] = "X" <=> CellAt(i - 1) \in Walls)
        BY <1>0, <4>1 DEF WallsShown
      <4> QED
        BY <4>1, <4>2
    <3>3. CASE i = n + 1
      <4>1. i - 1 = n
        BY <3>1, <3>3
      <4>2. CellAt(i - 1) = NextCell
        BY <4>1 DEF NextCell
      <4> QED
        BY <2>1, <2>2, <3>1, <3>3, <4>2
    <3> QED
      BY <3>1, <3>2, <3>3
  <2> QED
    BY <2>3 DEF WallsShown, CellAt
<1> QED
  <2>1. UNCHANGED serverVars \/ ServerSteps
    BY LevelSteps
  <2>2. frame' = frame \/ frame' = <<>> \/ ServerReadsCell
    BY <2>1, Zenon
       DEF serverVars, ServerSteps, ServerRuns, ServerWrites, ServerHangs, ServerLeaves,
           ServerSleeps, ServerTakesHeader, ServerWritesHeader, ServerSends,
           ServerLooksAtActive, ServerReturns
  <2> QED
    BY <1>1, <1>2, <2>2, Zenon

----------------------------------------------------------------------------
(* The theorems. *)

LEMMA FInvStep == FInv /\ [FramesNext]_vars => FInv'
BY LevelSteps, LevelStepInv, PointsStep, FrameTypeStep, HeaderStep, WallsShownStep, Zenon
   DEF FInv

LEMMA FramesInvariance == FramesSpec => []FInv
BY InitFInv, FInvStep, PTL DEF FramesSpec

\* An update shows fewer dots than there were when its points were read.
LEMMA DotsShownAreFew ==
  ASSUME FInv
  PROVE  shown + Cardinality(ShownDots) <= AccPoints + Cardinality(Dots)
<1>1. PICK H \in SUBSET Dots : /\ dots \subseteq H /\ DotCells \subseteq H
                               /\ shown + Cardinality(H) <= AccPoints + Cardinality(Dots)
  BY DEF FInv, HeaderHolds
<1>2. IsFiniteSet(H)
  BY <1>1, DotsFinite, FS_Subset
<1> DEFINE f == [i \in ShownDots |-> CellAt(i - 1)]
<1>3. f \in [ShownDots -> H]
  BY <1>1 DEF DotCells
<1>4. ASSUME NEW i \in ShownDots, NEW j \in ShownDots, f[i] = f[j] PROVE i = j
  <2> DEFINE S == Contents \cup {"@", ".", " "}
  <2>1. frame \in Seq(S)
    BY DEF FInv, FrameType
  <2> HIDE DEF S
  <2>2. i \in Nat \ {0} /\ j \in Nat \ {0}
    BY <2>1 DEF ShownDots
  <2>3. i - 1 \in Nat /\ j - 1 \in Nat
    BY <2>2
  <2>4. CellAt(i - 1) = CellAt(j - 1)
    BY <1>4
  <2>5. i - 1 = j - 1
    BY <2>3, <2>4, PlacesDiffer
  <2> QED
    BY <2>2, <2>5
<1>5. f \in Injection(ShownDots, H)
  BY <1>3, <1>4 DEF Injection, IsInjective
<1> HIDE DEF f
<1>6. Cardinality(ShownDots) <= Cardinality(H) /\ IsFiniteSet(ShownDots)
  BY <1>2, <1>5, FS_Injection
<1>7. /\ Cardinality(ShownDots) \in Nat /\ Cardinality(H) \in Nat
      /\ Cardinality(Dots) \in Nat /\ shown \in Nat
  BY <1>2, <1>6, DotsFinite, FS_CardinalityType DEF FInv, FrameType
<1> QED
  BY <1>1, <1>6, <1>7, LevelAssumption

\* An update never has more cells than the board, and a wall is where a wall is
\* shown, whatever the threads do while the cells are copied (game.c:216-244).
THEOREM FramesTypeCorrect == FramesSpec => []FramesTypeOK
<1>1. FInv => FramesTypeOK
  <2> SUFFICES ASSUME FInv PROVE FramesTypeOK
    OBVIOUS
  <2>1. /\ st \in {"loop", "asleep", "header", "cells", "sent", "over", "hung"}
        /\ shown \in Nat
    BY DEF FInv, FrameType
  <2>2. Len(frame) <= Width * Height
    BY DEF FInv, FrameType
  <2>3. \A i \in DOMAIN frame : /\ frame[i] \in Contents \cup {"@", ".", " "}
                                /\ frame[i] = "X" <=> CellAt(i - 1) \in Walls
    BY Zenon DEF FInv, WallsShown, ShownChars
  <2> QED
    BY <2>1, <2>2, <2>3 DEF FramesTypeOK
<1> QED
  BY <1>1, FramesInvariance, PTL

\* No update shows a dot whose point it has already counted, however far the
\* pacman runs while the cells are copied one by one (game.c:216-283).
THEOREM NoUpdateCountsTwice == FramesSpec => []NoDotCountedTwice
<1>1. FInv => NoDotCountedTwice
  BY DotsShownAreFew DEF NoDotCountedTwice
<1> QED
  BY <1>1, FramesInvariance, PTL
=============================================================================
