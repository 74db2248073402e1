---------------------------- MODULE LevelProofs ----------------------------
(***************************************************************************)
(* Theorems about Level for every board, every set of ghosts and every     *)
(* program of theirs that satisfies LevelAssumption.                       *)
(***************************************************************************)
EXTENDS Level, SequenceTheorems, FiniteSetTheorems, NaturalsInduction,
        WellFoundedInduction, TLAPS

----------------------------------------------------------------------------
(* The inductive invariant. *)

\* What a thread holds: one lock after the first wrlock, both from the second
\* wrlock to unlockOrder, and while it holds them the target is as it saw it.
LocksHeld ==
  \A t \in Threads :
    /\ pc[t] = "lock2" => lock[First(t)] = t
    /\ pc[t] = "act" => /\ lock[pos[t]] = t /\ lock[target[t]] = t
                        /\ seen[t] = content[target[t]]

\* Conversely, nobody else holds a lock: a thread whose move is over, or that only
\* scans, leaves none behind, and between its two wrlocks it has the first alone.
Holds(t, c) ==
  \/ pc[t] = "lock2" /\ c = First(t)
  \/ pc[t] = "act" /\ c \in {pos[t], target[t]}
  \/ pc[t] = "hung"
OnlyMoversHold == \A c \in Cells, t \in Threads : lock[c] = t => Holds(t, c)

\* A ghost has a direction of charge exactly while it charges; the cell it has
\* come over is not a wall, and neither is the cell it settles on.
ChargeKnown ==
  \A g \in Ghosts :
    /\ pc[g] \in {"check", "loop", "done"} => dir[g] = "none"
    /\ pc[g] = "scan" => /\ dir[g] \in Dirs
                         /\ Behind(target[g], dir[g]) \in Cells \ Walls
    /\ pc[g] \in {"lock1", "lock2", "act"} /\ dir[g] # "none" => target[g] \notin Walls

\* A plain move goes to another cell, with another index.
PlainMove(t) == t \in Ghosts => dir[t] = "none"
PlainMovesMove ==
  \A t \in Threads :
    pc[t] \in {"lock1", "lock2", "act"} /\ PlainMove(t) =>
      Index(target[t]) # Index(pos[t])

\* Without a C in the files no ghost is ever charged.
NobodyCharges == NoCharge => \A g \in Ghosts : ~charged[g] /\ dir[g] = "none"

\* Where the pacman left by the portal nothing looks like a pacman.
Gone == pc[Pac] = "portal" \/ result = "NEXT_LEVEL"
LeftTheBoard ==
  /\ result = "NEXT_LEVEL" => pc[Pac] = "done"
  /\ Gone => content[pos[Pac]] # "P"

IInv ==
  /\ TypeOK /\ LocksHeld /\ OnlyMoversHold /\ ChargeKnown /\ PlainMovesMove
  /\ NobodyCharges /\ LeftTheBoard /\ WallsStand /\ BoardConsistent

----------------------------------------------------------------------------
(* Facts about cells and commands. *)

\* The pacman is no ghost, and both are threads.
LEMMA Cast == /\ Pac \in Threads /\ Pac \notin Ghosts
              /\ \A g \in Ghosts : g \in Threads /\ g # Pac
              /\ NoThread \notin Threads
BY LevelAssumption DEF Threads

\* A ghost's file has a command, and every command a count.
LEMMA FileHasCommands ==
  ASSUME NEW g \in Ghosts
  PROVE  /\ Len(Moves[g]) \in Nat \ {0}
         /\ \A i \in 1 .. Len(Moves[g]) : Moves[g][i].turns \in Nat \ {0}
<1>1. Moves[g] \in Seq([op : Ops, turns : Nat \ {0}]) /\ Moves[g] # <<>>
  BY LevelAssumption
<1>2. Len(Moves[g]) \in Nat \ {0}
  BY <1>1
<1>3. \A j \in 1 .. Len(Moves[g]) : Moves[g][j] \in [op : Ops, turns : Nat \ {0}]
  BY <1>1, ElementOfSeq
<1>4. QED
  BY <1>2, <1>3

\* current_move % n_moves always points at a command of the file.
LEMMA NextInFile ==
  ASSUME NEW g \in Ghosts, NEW i \in Nat, i < Len(Moves[g])
  PROVE  /\ i + 1 \in 1 .. Len(Moves[g])
         /\ (i + 1) % Len(Moves[g]) \in Nat
         /\ (i + 1) % Len(Moves[g]) < Len(Moves[g])
<1>1. \A m \in Nat, n \in Nat \ {0} : m % n \in Nat /\ m % n < n
  OBVIOUS
<1>2. Len(Moves[g]) \in Nat \ {0}
  BY FileHasCommands
<1>3. i + 1 \in Nat /\ i + 1 \in 1 .. Len(Moves[g])
  BY <1>2
<1>4. QED
  BY <1>1, <1>2, <1>3, Zenon

\* Two cells next to each other have different indices.
LEMMA NeighboursDiffer ==
  ASSUME NEW c \in Cells, NEW d \in Dirs, Beside(c, d) \in Cells
  PROVE  Index(Beside(c, d)) # Index(c)
<1>1. Width \in Nat \ {0} /\ c[1] \in Int /\ c[2] \in Int
  BY LevelAssumption DEF Cells
<1>2. Width * (c[2] + 1) = Width * c[2] + Width /\ Width * (c[2] - 1) = Width * c[2] - Width
  BY <1>1
<1>3. QED
  BY <1>1, <1>2 DEF Index, Beside, Offset, Dirs

\* Where a ghost has come from is behind where it goes.
LEMMA BehindBeside ==
  ASSUME NEW c \in Cells, NEW d \in Dirs
  PROVE  Behind(Beside(c, d), d) = c
BY DEF Behind, Beside, Offset, Dirs, Cells

\* The random direction of an R is a direction, and so is that of a letter.
LEMMA DirsOfAreDirs == \A op : DirsOf(op) \subseteq Dirs
BY DEF DirsOf

----------------------------------------------------------------------------
(* Every part of the invariant holds initially. *)

LEMMA InitLevel == LevelInit => IInv
<1> SUFFICES ASSUME LevelInit PROVE IInv
  OBVIOUS
<1>1. TypeOK
  <2>1. Start \in [Threads -> Cells]
    BY LevelAssumption
  <2>2. pc \in [Threads -> Labels]
    BY DEF LevelInit, Labels
  <2>3. BoardType
    BY DEF LevelInit, BoardType, Contents
  <2>4. MoveType
    BY <2>1 DEF LevelInit, MoveType, Contents
  <2>5. GhostType
    <3>1. [s \in Slots |-> Moves[s[1]][s[2]].turns] \in [Slots -> Nat \ {0}]
      BY FileHasCommands DEF Slots
    <3>2. \A g \in Ghosts : [h \in Ghosts |-> 0][g] < Len(Moves[g])
      BY FileHasCommands
    <3>3. QED
      BY <3>1, <3>2 DEF LevelInit, GhostType
  <2>6. PacType /\ GameType
    BY LevelAssumption DEF LevelInit, PacType, GameType
  <2>7. QED
    BY <2>2, <2>3, <2>4, <2>5, <2>6 DEF TypeOK
<1>2. LocksHeld /\ OnlyMoversHold /\ ChargeKnown /\ PlainMovesMove /\ NobodyCharges
  BY Cast DEF LevelInit, LocksHeld, OnlyMoversHold, ChargeKnown, PlainMovesMove, NobodyCharges
<1>3. \A t \in Threads : Start[t] \in Cells \ Walls
  BY LevelAssumption
<1>4. LeftTheBoard
  BY Cast DEF LevelInit, LeftTheBoard, Gone
<1>5. WallsStand
  BY <1>3, Cast, LevelAssumption DEF LevelInit, WallsStand
<1>6. BoardConsistent
  BY <1>3, Cast, LevelAssumption DEF LevelInit, BoardConsistent
<1>7. QED
  BY <1>1, <1>2, <1>4, <1>5, <1>6 DEF IInv

----------------------------------------------------------------------------
(* Every step keeps the types. *)

\* unlockOrder and the end of a move, whatever the cell the move ends at.
LEMMA EndMoveType ==
  ASSUME TypeOK, NEW t \in Threads, NEW c \in Cells, EndMove(t, c)
  PROVE  /\ pos' \in [Threads -> Cells] /\ target' \in [Threads -> Cells]
         /\ seen' \in [Threads -> Contents]
         /\ lock' \in [Cells -> Threads \cup {NoThread}] /\ corrupt' \subseteq Cells
BY DEF TypeOK, EndMove, BoardType, MoveType, Contents

LEMMA BoardTypeStep == IInv /\ [Next]_levelVars => BoardType'
<1> SUFFICES ASSUME IInv, [Next]_levelVars PROVE BoardType'
  OBVIOUS
<1> USE Cast DEF IInv, BoardType
<1>0. TypeOK /\ BoardType /\ MoveType
  BY DEF TypeOK
<1>1. CASE UNCHANGED boardVars
  BY <1>0, <1>1 DEF boardVars
<1>2. ASSUME NEW t \in Threads, LockFirst(t) PROVE BoardType'
  BY <1>0, <1>2 DEF LockFirst, First, HigherFirst, MoveType
<1>3. ASSUME NEW t \in Threads, LockSecond(t) PROVE BoardType'
  BY <1>0, <1>3 DEF LockSecond, Second, MoveType
<1>4. CASE PacEntersPortal
  BY <1>0, <1>4, EndMoveType DEF PacEntersPortal, MoveType, Contents
<1>5. CASE PacMeetsWall
  BY <1>0, <1>5, EndMoveType DEF PacMeetsWall, MoveType
<1>6. CASE PacMeetsGhost
  BY <1>0, <1>6, EndMoveType DEF PacMeetsGhost, MoveType, Contents
<1>7. CASE PacMoves
  BY <1>0, <1>7, EndMoveType DEF PacMoves, MoveType, Contents
<1>8. ASSUME NEW g \in Ghosts, GhostSpotsPac(g) PROVE BoardType'
  BY <1>0, <1>8 DEF GhostSpotsPac, MoveType, Contents
<1>9. ASSUME NEW g \in Ghosts, GhostMeetsObstacle(g) PROVE BoardType'
  BY <1>0, <1>9, EndMoveType DEF GhostMeetsObstacle, MoveType
<1>10. ASSUME NEW g \in Ghosts, GhostMoves(g) PROVE BoardType'
  BY <1>0, <1>10, EndMoveType DEF GhostMoves, MoveType, Contents
<1>11. QED
  BY <1>1, <1>2, <1>3, <1>4, <1>5, <1>6, <1>7, <1>8, <1>9, <1>10
     DEF Next, PacReads, PacRuns, GhostRuns, GameRuns, LevelOver, vars, levelVars,
         PacChecks, PacQuits, PacFindsItselfDead, PacWaits, PacAims, PacLeavesByPortal,
         HangOnLock, GhostLeaves, GhostWaits, GhostPlays, GhostCharges, GhostPauses,
         GhostStumbles, GhostAims, GhostRushes, GhostScansOn, GhostStopsShort,
         GhostChecks, GameStops, GameUnloads, handle_shutdown

\* GoTo and Aim lead to labels; Aim leaves the target on the board.
LEMMA LabelType == \A t, l : pc \in [Threads -> Labels] /\ l \in Labels /\ GoTo(t, l) =>
                               pc' \in [Threads -> Labels]
BY DEF GoTo

LEMMA AimType ==
  ASSUME TypeOK, NEW t \in Threads, NEW d \in Dirs, NEW l \in Labels, Aim(t, d, l)
  PROVE  target' \in [Threads -> Cells] /\ pc' \in [Threads -> Labels]
BY DEF TypeOK, MoveType, Aim, GoTo, Labels

LEMMA PcTypeStep == IInv /\ [Next]_levelVars => pc' \in [Threads -> Labels]
<1> SUFFICES ASSUME IInv, [Next]_levelVars PROVE pc' \in [Threads -> Labels]
  OBVIOUS
<1> USE DEF IInv
<1>0. TypeOK /\ pc \in [Threads -> Labels]
  BY DEF TypeOK
<1>1. CASE \E t \in Threads, l \in Labels : GoTo(t, l)
  BY <1>0, <1>1, LabelType
<1>2. CASE UNCHANGED pc
  BY <1>0, <1>2
<1>3. ASSUME NEW cmd \in Commands, PacAims(cmd) PROVE pc' \in [Threads -> Labels]
  BY <1>0, <1>3, Cast, AimType, LabelType, DirsOfAreDirs DEF PacAims, Labels
<1>4. ASSUME NEW g \in Ghosts, GhostAims(g) PROVE pc' \in [Threads -> Labels]
  BY <1>0, <1>4, Cast, AimType, DirsOfAreDirs DEF GhostAims, Labels
<1>5. ASSUME NEW g \in Ghosts, GhostRushes(g) PROVE pc' \in [Threads -> Labels]
  BY <1>0, <1>5, Cast, AimType, DirsOfAreDirs DEF GhostRushes, Labels
<1>6. QED
  BY <1>1, <1>2, <1>3, <1>4, <1>5, Cast
     DEF Next, PacReads, PacRuns, GhostRuns, GameRuns, LevelOver, vars, levelVars, Labels,
         PacReturns,
         PacChecks, PacQuits, PacFindsItselfDead, PacWaits, PacEntersPortal, PacMeetsWall,
         PacMeetsGhost, PacMoves, PacLeavesByPortal, LockFirst, LockSecond,
         HangOnLock, GhostLeaves, GhostWaits, GhostCharges, GhostPauses,
         GhostStumbles, GhostScansOn, GhostStopsShort, GhostSpotsPac, GhostMeetsObstacle,
         GhostMoves, GhostChecks, GameStops, GameUnloads, handle_shutdown

LEMMA MoveTypeStep == IInv /\ [Next]_levelVars => MoveType'
<1> SUFFICES ASSUME IInv, [Next]_levelVars PROVE MoveType'
  OBVIOUS
<1> USE Cast DEF IInv, MoveType
<1>0. TypeOK /\ MoveType /\ BoardType /\ Passo \in [Threads -> Nat]
  BY LevelAssumption DEF TypeOK
<1>1. CASE UNCHANGED moveVars
  BY <1>0, <1>1 DEF moveVars
<1>2. ASSUME NEW t \in Threads, LockSecond(t) PROVE MoveType'
  BY <1>0, <1>2 DEF LockSecond, BoardType
<1>3. ASSUME NEW cmd \in Commands, PacWaits(cmd) PROVE MoveType'
  BY <1>0, <1>3 DEF PacWaits
<1>4. ASSUME NEW cmd \in Commands, PacAims(cmd) PROVE MoveType'
  <2>1. target' \in [Threads -> Cells]
    BY <1>0, <1>4, AimType, DirsOfAreDirs DEF PacAims, Labels
  <2>2. QED
    BY <1>0, <1>4, <2>1 DEF PacAims
<1>5. CASE PacEntersPortal \/ PacMeetsWall \/ PacMeetsGhost \/ PacMoves
  BY <1>0, <1>5, EndMoveType DEF PacEntersPortal, PacMeetsWall, PacMeetsGhost, PacMoves
<1>6. ASSUME NEW g \in Ghosts, GhostWaits(g) PROVE MoveType'
  BY <1>0, <1>6 DEF GhostWaits
<1>7. ASSUME NEW g \in Ghosts, GhostCharges(g) \/ GhostPauses(g) \/ GhostStumbles(g)
      PROVE  MoveType'
  BY <1>0, <1>7 DEF GhostCharges, GhostPauses, GhostStumbles, GhostPlays
<1>8. ASSUME NEW g \in Ghosts, GhostAims(g) \/ GhostRushes(g) PROVE MoveType'
  <2>1. target' \in [Threads -> Cells]
    BY <1>0, <1>8, AimType, DirsOfAreDirs DEF GhostAims, GhostRushes, Labels
  <2>2. QED
    BY <1>0, <1>8, <2>1 DEF GhostAims, GhostRushes, GhostPlays
<1>9. ASSUME NEW g \in Ghosts, GhostScansOn(g) PROVE MoveType'
  BY <1>0, <1>9 DEF GhostScansOn
<1>10. ASSUME NEW g \in Ghosts, GhostStopsShort(g) PROVE MoveType'
  BY <1>0, <1>10 DEF GhostStopsShort, Scanning, ChargeKnown
<1>11. ASSUME NEW g \in Ghosts, GhostMeetsObstacle(g) \/ GhostMoves(g) PROVE MoveType'
  BY <1>0, <1>11, EndMoveType DEF GhostMeetsObstacle, GhostMoves
<1>12. QED
  BY <1>1, <1>2, <1>3, <1>4, <1>5, <1>6, <1>7, <1>8, <1>9, <1>10, <1>11
     DEF Next, PacReads, PacRuns, GhostRuns, GameRuns, LevelOver, vars, levelVars,
         PacChecks, PacQuits, PacFindsItselfDead, PacLeavesByPortal, LockFirst, HangOnLock,
         GhostLeaves, GhostSpotsPac, GhostChecks, GameStops, GameUnloads, handle_shutdown

LEMMA GhostTypeStep == IInv /\ [Next]_levelVars => GhostType'
<1> SUFFICES ASSUME IInv, [Next]_levelVars PROVE GhostType'
  OBVIOUS
<1> USE DEF IInv, GhostType
<1>0. TypeOK /\ GhostType
  BY DEF TypeOK
<1>1. CASE UNCHANGED ghostVars
  BY <1>0, <1>1 DEF ghostVars
<1>2. ASSUME NEW g \in Ghosts, NextCommand(g)
      PROVE  cur' \in [Ghosts -> Nat] /\ \A h \in Ghosts : cur'[h] < Len(Moves[h])
  BY <1>0, <1>2, NextInFile DEF NextCommand
<1>3. ASSUME NEW g \in Ghosts, GhostCharges(g) PROVE GhostType'
  BY <1>0, <1>2, <1>3 DEF GhostCharges
<1>4. ASSUME NEW g \in Ghosts, GhostPauses(g) PROVE GhostType'
  <2>1. <<g, cur[g] + 1>> \in Slots
    BY <1>0, NextInFile DEF Slots
  <2>2. left' \in [Slots -> Nat \ {0}]
    <3> DEFINE s == <<g, cur[g] + 1>>
    <3>1. \/ left' = [left EXCEPT ![s] = 1]
          \/ left[s] # 1 /\ left' = [left EXCEPT ![s] = left[s] - 1]
      BY <1>4 DEF GhostPauses
    <3>2. s \in Slots /\ left[s] \in Nat \ {0}
      BY <1>0, <2>1
    <3> HIDE DEF s
    <3>3. QED
      BY <1>0, <3>1, <3>2
  <2>3. cur' \in [Ghosts -> Nat] /\ \A h \in Ghosts : cur'[h] < Len(Moves[h])
    BY <1>0, <1>2, <1>4 DEF GhostPauses
  <2>4. QED
    BY <1>0, <1>4, <2>2, <2>3 DEF GhostPauses
<1>5. ASSUME NEW g \in Ghosts, GhostAims(g) PROVE GhostType'
  BY <1>0, <1>2, <1>5 DEF GhostAims
<1>6. ASSUME NEW g \in Ghosts, GhostRushes(g) PROVE GhostType'
  BY <1>0, <1>2, <1>6, DirsOfAreDirs DEF GhostRushes
<1>7. ASSUME NEW g \in Ghosts, GhostMoves(g) PROVE GhostType'
  BY <1>0, <1>7 DEF GhostMoves
<1>8. QED
  BY <1>1, <1>3, <1>4, <1>5, <1>6, <1>7
     DEF Next, PacReads, PacRuns, GhostRuns, GameRuns, LevelOver, vars, levelVars, ghostVars,
         PacChecks, PacQuits, PacFindsItselfDead, PacWaits, PacAims, PacEntersPortal,
         PacMeetsWall, PacMeetsGhost, PacMoves, PacLeavesByPortal, LockFirst, LockSecond,
         HangOnLock, GhostLeaves, GhostWaits, GhostStumbles, GhostScansOn, GhostStopsShort,
         GhostSpotsPac, GhostMeetsObstacle, GhostChecks, GameStops, GameUnloads,
         handle_shutdown

LEMMA PacTypeStep == IInv /\ [Next]_levelVars => PacType'
<1> SUFFICES ASSUME IInv, [Next]_levelVars PROVE PacType'
  OBVIOUS
<1> USE DEF PacType
<1>0. PacType
  BY DEF IInv, TypeOK
<1>1. CASE UNCHANGED pacVars
  BY <1>0, <1>1 DEF pacVars
<1>2. CASE PacChecks
  BY <1>0, <1>2 DEF PacChecks, PacReturns
<1>3. ASSUME NEW cmd \in Commands, PacQuits(cmd) \/ PacFindsItselfDead(cmd) PROVE PacType'
  BY <1>0, <1>3 DEF PacQuits, PacFindsItselfDead, PacReturns
<1>4. CASE PacMeetsGhost \/ PacMoves
  <2>1. points' \in Nat
    <3>1. points' = points \/ points' = points + 1
      BY <1>4 DEF PacMeetsGhost, PacMoves
    <3>2. QED
      BY <1>0, <3>1
  <2>2. alive' \in BOOLEAN /\ won' = won /\ (result' = result \/ result' = "QUIT_GAME")
    BY <1>0, <1>4 DEF PacMeetsGhost, PacMoves, PacReturns
  <2>3. QED
    BY <1>0, <2>1, <2>2
<1>5. CASE PacLeavesByPortal
  BY <1>0, <1>5, LevelAssumption DEF PacLeavesByPortal, PacReturns
<1>6. ASSUME NEW g \in Ghosts, GhostSpotsPac(g) PROVE PacType'
  BY <1>0, <1>6 DEF GhostSpotsPac
<1>7. ASSUME NEW g \in Ghosts, GhostMoves(g) PROVE PacType'
  BY <1>0, <1>7 DEF GhostMoves
<1>8. QED
  BY <1>1, <1>2, <1>3, <1>4, <1>5, <1>6, <1>7
     DEF Next, PacReads, PacRuns, GhostRuns, GameRuns, LevelOver, vars, levelVars, GhostPlays,
         PacWaits, PacAims, PacEntersPortal, PacMeetsWall, LockFirst, LockSecond,
         HangOnLock, GhostLeaves, GhostWaits, GhostCharges, GhostPauses, GhostStumbles,
         GhostAims, GhostRushes, GhostScansOn, GhostStopsShort, GhostMeetsObstacle,
         GhostChecks, GameStops, GameUnloads, handle_shutdown

LEMMA GameTypeStep == IInv /\ [Next]_levelVars => GameType'
<1> SUFFICES ASSUME IInv, [Next]_levelVars PROVE GameType'
  OBVIOUS
<1> USE DEF GameType
<1>0. GameType
  BY DEF IInv, TypeOK
<1>1. CASE UNCHANGED <<active, game, shutdown>>
  BY <1>0, <1>1
<1>2. CASE GameStops \/ GameUnloads \/ handle_shutdown
  BY <1>0, <1>2 DEF GameStops, GameUnloads, handle_shutdown
<1>3. QED
  BY <1>1, <1>2
     DEF Next, PacReads, PacRuns, GhostRuns, GameRuns, LevelOver, vars, levelVars, gameVars,
         GhostPlays, PacChecks, PacQuits, PacFindsItselfDead, PacWaits, PacAims,
         PacEntersPortal, PacMeetsWall, PacMeetsGhost, PacMoves, PacLeavesByPortal, LockFirst,
         LockSecond, HangOnLock, GhostLeaves, GhostWaits, GhostCharges, GhostPauses,
         GhostStumbles, GhostAims, GhostRushes, GhostScansOn, GhostStopsShort, GhostSpotsPac,
         GhostMeetsObstacle, GhostMoves, GhostChecks

LEMMA TypeStep == IInv /\ [Next]_levelVars => TypeOK'
BY PcTypeStep, BoardTypeStep, MoveTypeStep, GhostTypeStep, PacTypeStep, GameTypeStep DEF TypeOK

----------------------------------------------------------------------------
(* Every step keeps the locks and what was read under them. *)

\* Two cells are the two of a move in either order.
LEMMA FirstAndSecond == \A t : {First(t), Second(t)} = {pos[t], target[t]}
BY DEF First, HigherFirst, Second

\* unlockOrder takes nothing from the other threads.
LEMMA EndMoveLocks ==
  ASSUME IInv, NEW t \in Threads, NEW c \in Cells, pc[t] = "act", EndMove(t, c)
  PROVE  \A u \in Threads, d \in Cells : u # t /\ lock[d] = u => lock'[d] = u
BY DEF IInv, TypeOK, LocksHeld, EndMove, BoardType, MoveType

LEMMA LocksStep == IInv /\ [Next]_levelVars => LocksHeld'
<1> SUFFICES ASSUME IInv, [Next]_levelVars PROVE LocksHeld'
  OBVIOUS
<1> USE Cast DEF LocksHeld
<1>0. /\ TypeOK /\ BoardType /\ MoveType /\ pc \in [Threads -> Labels] /\ LocksHeld
      /\ IInv
  BY DEF IInv, TypeOK
<1>1. CASE UNCHANGED <<pc, lock, content, moveVars>>
  BY <1>0, <1>1 DEF moveVars, First, HigherFirst
<1>2. ASSUME NEW t \in Threads, LockFirst(t) PROVE LocksHeld'
  BY <1>0, <1>2 DEF LockFirst, First, HigherFirst, Free, GoTo, moveVars, BoardType, MoveType
<1>3. ASSUME NEW t \in Threads, LockSecond(t) PROVE LocksHeld'
  BY <1>0, <1>3, FirstAndSecond
     DEF LockSecond, First, Second, HigherFirst, Free, GoTo, BoardType, MoveType
\* A thread that touches no cell and does not hold locks afterwards.
<1>4. ASSUME NEW t \in Threads, UNCHANGED <<lock, content, pos, seen>>,
             \A u \in Threads : u # t => pc'[u] = pc[u] /\ target'[u] = target[u],
             pc'[t] \notin {"lock2", "act"}
      PROVE  LocksHeld'
  BY <1>0, <1>4 DEF First, HigherFirst
\* A thread that ends a move, having written none but its two cells.
<1>5. ASSUME NEW t \in Threads, NEW c \in Cells, pc[t] = "act", EndMove(t, c),
             \A u \in Threads : u # t => pc'[u] = pc[u],
             pc'[t] \notin {"lock2", "act"},
             \A d \in Cells : d \notin {pos[t], target[t]} => content'[d] = content[d]
      PROVE  LocksHeld'
  <2>1. ASSUME NEW u \in Threads, u # t
        PROVE  /\ pc'[u] = pc[u] /\ pos'[u] = pos[u] /\ target'[u] = target[u]
               /\ seen'[u] = seen[u]
               /\ \A d \in Cells : lock[d] = u => lock'[d] = u /\ content'[d] = content[d]
    <3>1. lock[pos[t]] = t /\ lock[target[t]] = t
      BY <1>0, <1>5
    <3>2. QED
      BY <1>0, <1>5, <2>1, <3>1, EndMoveLocks DEF EndMove, MoveType
  <2>2. ASSUME NEW u \in Threads, u # t
        PROVE  /\ pos[u] \in Cells /\ target[u] \in Cells /\ First(u) \in Cells
               /\ First(u)' = First(u)
    BY <1>0, <2>1, <2>2 DEF First, HigherFirst, MoveType
  <2>3. QED
    BY <1>0, <1>5, <2>1, <2>2
<1>6. ASSUME NEW g \in Ghosts, GhostSpotsPac(g) PROVE LocksHeld'
  <2>1. \A u \in Threads, d \in Cells : lock[d] = u => content'[d] = content[d]
    BY <1>0, <1>6 DEF GhostSpotsPac, Scanning, Free, MoveType, BoardType
  <2>2. QED
    BY <1>0, <1>6, <2>1 DEF GhostSpotsPac, GoTo, First, HigherFirst, MoveType, moveVars
<1>7. CASE PacChecks \/ PacLeavesByPortal
  BY <1>0, <1>4, <1>7
     DEF PacChecks, PacLeavesByPortal, PacReturns, GoTo, boardVars, moveVars
<1>8. ASSUME NEW cmd \in Commands, PacQuits(cmd) \/ PacFindsItselfDead(cmd) \/ PacWaits(cmd)
      PROVE  LocksHeld'
  BY <1>0, <1>4, <1>8
     DEF PacQuits, PacFindsItselfDead, PacWaits, PacReturns, GoTo, boardVars, moveVars
<1>9. ASSUME NEW cmd \in Commands, PacAims(cmd) PROVE LocksHeld'
  BY <1>0, <1>4, <1>9 DEF PacAims, Aim, GoTo, boardVars, MoveType
<1>10. CASE PacEntersPortal
  BY <1>0, <1>5, <1>10 DEF PacEntersPortal, PacActing, GoTo, MoveType, BoardType
<1>11. CASE PacMeetsWall
  BY <1>0, <1>5, <1>11 DEF PacMeetsWall, PacActing, GoTo, MoveType, BoardType
<1>12. CASE PacMeetsGhost
  BY <1>0, <1>5, <1>12 DEF PacMeetsGhost, PacActing, PacReturns, GoTo, MoveType, BoardType
<1>13. CASE PacMoves
  BY <1>0, <1>5, <1>13 DEF PacMoves, PacActing, GoTo, MoveType, BoardType
<1>14. ASSUME NEW t \in Threads, HangOnLock(t) PROVE LocksHeld'
  BY <1>0, <1>4, <1>14 DEF HangOnLock, GoTo, boardVars, moveVars
<1>15. ASSUME NEW g \in Ghosts, GhostLeaves(g) \/ GhostWaits(g) \/ GhostChecks(g)
       PROVE  LocksHeld'
  BY <1>0, <1>4, <1>15 DEF GhostLeaves, GhostWaits, GhostChecks, GoTo, boardVars, moveVars
<1>16. ASSUME NEW g \in Ghosts, GhostCharges(g) \/ GhostPauses(g) \/ GhostStumbles(g)
       PROVE  LocksHeld'
  BY <1>0, <1>4, <1>16
     DEF GhostCharges, GhostPauses, GhostStumbles, GhostPlays, GoTo, boardVars
<1>17. ASSUME NEW g \in Ghosts, GhostAims(g) \/ GhostRushes(g) PROVE LocksHeld'
  BY <1>0, <1>4, <1>17 DEF GhostAims, GhostRushes, GhostPlays, Aim, GoTo, boardVars, MoveType
<1>18. ASSUME NEW g \in Ghosts, GhostScansOn(g) \/ GhostStopsShort(g) PROVE LocksHeld'
  BY <1>0, <1>4, <1>18
     DEF GhostScansOn, GhostStopsShort, Scanning, GoTo, boardVars, MoveType
<1>19. ASSUME NEW g \in Ghosts, GhostMeetsObstacle(g) PROVE LocksHeld'
  BY <1>0, <1>5, <1>19 DEF GhostMeetsObstacle, GoTo, MoveType, BoardType
<1>20. ASSUME NEW g \in Ghosts, GhostMoves(g) PROVE LocksHeld'
  BY <1>0, <1>5, <1>20 DEF GhostMoves, GoTo, MoveType, BoardType
<1>21. QED
  BY <1>1, <1>2, <1>3, <1>6, <1>7, <1>8, <1>9, <1>10, <1>11, <1>12, <1>13, <1>14, <1>15,
     <1>16, <1>17, <1>18, <1>19, <1>20
     DEF Next, PacReads, PacRuns, GhostRuns, GameRuns, LevelOver, vars, levelVars, boardVars,
         GameStops, GameUnloads, handle_shutdown

LEMMA HoldersStep == IInv /\ [Next]_levelVars => OnlyMoversHold'
<1> SUFFICES ASSUME IInv, [Next]_levelVars PROVE OnlyMoversHold'
  OBVIOUS
<1> USE Cast DEF OnlyMoversHold, Holds
<1>0. /\ TypeOK /\ BoardType /\ MoveType /\ pc \in [Threads -> Labels] /\ OnlyMoversHold
  BY DEF IInv, TypeOK
<1>1. CASE UNCHANGED <<pc, lock, pos, target>>
  BY <1>0, <1>1 DEF First, HigherFirst
<1>2. ASSUME NEW t \in Threads, LockFirst(t) PROVE OnlyMoversHold'
  BY <1>0, <1>2 DEF LockFirst, First, HigherFirst, GoTo, moveVars, BoardType, MoveType
<1>3. ASSUME NEW t \in Threads, LockSecond(t) PROVE OnlyMoversHold'
  BY <1>0, <1>3 DEF LockSecond, First, Second, HigherFirst, GoTo, BoardType, MoveType
\* A thread outside a move holds none, and one that hangs keeps what it has.
<1>4. ASSUME NEW t \in Threads, UNCHANGED <<lock, pos>>,
             \A u \in Threads : u # t => pc'[u] = pc[u] /\ target'[u] = target[u],
             pc[t] \notin {"lock2", "act", "hung"} \/ pc'[t] = "hung"
      PROVE  OnlyMoversHold'
  BY <1>0, <1>4 DEF First, HigherFirst
\* A thread that ends a move has given back both.
<1>5. ASSUME NEW t \in Threads, NEW c \in Cells, pc[t] = "act", EndMove(t, c),
             \A u \in Threads : u # t => pc'[u] = pc[u]
      PROVE  OnlyMoversHold'
  <2> SUFFICES ASSUME NEW d \in Cells, NEW u \in Threads, lock'[d] = u PROVE Holds(u, d)'
    OBVIOUS
  <2>1. lock[d] = u /\ d \notin {pos[t], target[t]}
    BY <1>5 DEF EndMove
  <2>2. u # t
    BY <1>0, <1>5, <2>1
  <2>3. pc'[u] = pc[u] /\ pos'[u] = pos[u] /\ target'[u] = target[u]
    BY <1>0, <1>5, <2>2 DEF EndMove, MoveType
  <2>4. QED
    BY <1>0, <2>1, <2>3 DEF First, HigherFirst
<1>7. CASE PacChecks \/ PacLeavesByPortal
  BY <1>0, <1>4, <1>7
     DEF PacChecks, PacLeavesByPortal, PacReturns, GoTo, boardVars, moveVars
<1>8. ASSUME NEW cmd \in Commands, PacQuits(cmd) \/ PacFindsItselfDead(cmd) \/ PacWaits(cmd)
      PROVE  OnlyMoversHold'
  BY <1>0, <1>4, <1>8
     DEF PacQuits, PacFindsItselfDead, PacWaits, PacCommanded, PacReturns, GoTo, boardVars,
         moveVars
<1>9. ASSUME NEW cmd \in Commands, PacAims(cmd) PROVE OnlyMoversHold'
  BY <1>0, <1>4, <1>9 DEF PacAims, PacCommanded, Aim, GoTo, boardVars, MoveType
<1>10. CASE PacEntersPortal \/ PacMeetsWall \/ PacMeetsGhost \/ PacMoves
  BY <1>0, <1>5, <1>10
     DEF PacEntersPortal, PacMeetsWall, PacMeetsGhost, PacMoves, PacActing, PacReturns, GoTo,
         MoveType
<1>11. ASSUME NEW t \in Threads, HangOnLock(t) PROVE OnlyMoversHold'
  BY <1>0, <1>4, <1>11 DEF HangOnLock, GoTo, boardVars, moveVars
<1>12. ASSUME NEW g \in Ghosts, GhostLeaves(g) \/ GhostWaits(g) \/ GhostChecks(g)
       PROVE  OnlyMoversHold'
  BY <1>0, <1>4, <1>12 DEF GhostLeaves, GhostWaits, GhostChecks, GoTo, boardVars, moveVars
<1>13. ASSUME NEW g \in Ghosts, GhostCharges(g) \/ GhostPauses(g) \/ GhostStumbles(g)
       PROVE  OnlyMoversHold'
  BY <1>0, <1>4, <1>13
     DEF GhostCharges, GhostPauses, GhostStumbles, GhostPlays, GoTo, boardVars
<1>14. ASSUME NEW g \in Ghosts, GhostAims(g) \/ GhostRushes(g) PROVE OnlyMoversHold'
  BY <1>0, <1>4, <1>14
     DEF GhostAims, GhostRushes, GhostPlays, Aim, GoTo, boardVars, MoveType
<1>15. ASSUME NEW g \in Ghosts, GhostScansOn(g) \/ GhostStopsShort(g) \/ GhostSpotsPac(g)
       PROVE  OnlyMoversHold'
  BY <1>0, <1>4, <1>15
     DEF GhostScansOn, GhostStopsShort, GhostSpotsPac, Scanning, GoTo, boardVars, moveVars,
         MoveType
<1>16. ASSUME NEW g \in Ghosts, GhostMeetsObstacle(g) \/ GhostMoves(g) PROVE OnlyMoversHold'
  BY <1>0, <1>5, <1>16 DEF GhostMeetsObstacle, GhostMoves, GoTo, MoveType
<1>17. QED
  BY <1>1, <1>2, <1>3, <1>7, <1>8, <1>9, <1>10, <1>11, <1>12, <1>13, <1>14, <1>15, <1>16
     DEF Next, PacReads, PacRuns, GhostRuns, GameRuns, LevelOver, vars, levelVars, boardVars,
         moveVars,
         GameStops, GameUnloads, handle_shutdown

----------------------------------------------------------------------------
(* Every step keeps what is known of charges and of the moves in progress. *)

\* What the pacman's thread, game_thread and SIGINT leave alone.
LEMMA OthersLeaveGhosts ==
  ASSUME IInv, Next, ~ \E g \in Ghosts : GhostRuns(g) \/ LockFirst(g) \/ LockSecond(g)
                                         \/ HangOnLock(g)
  PROVE  /\ UNCHANGED ghostVars
         /\ \A g \in Ghosts : /\ pc'[g] = pc[g] /\ pos'[g] = pos[g]
                              /\ target'[g] = target[g] /\ seen'[g] = seen[g]
<1> USE Cast DEF IInv, TypeOK, MoveType, vars, levelVars, ghostVars, moveVars
<1>1. CASE PacChecks \/ PacLeavesByPortal
  BY <1>1 DEF PacChecks, PacLeavesByPortal, PacReturns, GoTo
<1>2. ASSUME NEW cmd \in Commands, PacQuits(cmd) \/ PacFindsItselfDead(cmd) \/ PacWaits(cmd)
      PROVE  /\ UNCHANGED ghostVars
             /\ \A g \in Ghosts : /\ pc'[g] = pc[g] /\ pos'[g] = pos[g]
                                  /\ target'[g] = target[g] /\ seen'[g] = seen[g]
  BY <1>2 DEF PacQuits, PacFindsItselfDead, PacWaits, PacReturns, GoTo
<1>3. ASSUME NEW cmd \in Commands, PacAims(cmd)
      PROVE  /\ UNCHANGED ghostVars
             /\ \A g \in Ghosts : /\ pc'[g] = pc[g] /\ pos'[g] = pos[g]
                                  /\ target'[g] = target[g] /\ seen'[g] = seen[g]
  BY <1>3 DEF PacAims, Aim, GoTo
<1>4. CASE PacEntersPortal \/ PacMeetsWall \/ PacMeetsGhost \/ PacMoves
  BY <1>4 DEF PacEntersPortal, PacMeetsWall, PacMeetsGhost, PacMoves, EndMove, PacReturns, GoTo
<1>5. CASE LockFirst(Pac) \/ LockSecond(Pac) \/ HangOnLock(Pac)
  BY <1>5 DEF LockFirst, LockSecond, HangOnLock, GoTo
<1>6. CASE GameStops \/ GameUnloads \/ handle_shutdown \/ LevelOver
  BY <1>6 DEF GameStops, GameUnloads, handle_shutdown, LevelOver
<1>7. QED
  BY <1>1, <1>2, <1>3, <1>4, <1>5, <1>6 DEF Next, PacReads, PacRuns, GameRuns, Threads

\* A thread on its way to the locks.
LEMMA LockSteps ==
  ASSUME TypeOK, NEW t \in Threads, LockFirst(t) \/ LockSecond(t) \/ HangOnLock(t)
  PROVE  /\ UNCHANGED <<pos, target, ghostVars>>
         /\ \A u \in Threads : u # t => pc'[u] = pc[u]
         /\ \/ pc[t] = "lock1" /\ pc'[t] = "lock2"
            \/ pc[t] = "lock2" /\ pc'[t] = "act"
            \/ pc'[t] = "hung"
BY DEF TypeOK, LockFirst, LockSecond, HangOnLock, GoTo, moveVars

LEMMA ChargeStep == IInv /\ [Next]_levelVars => ChargeKnown'
<1> SUFFICES ASSUME IInv, [Next]_levelVars PROVE ChargeKnown'
  OBVIOUS
<1> USE Cast DEF ChargeKnown
<1>0. /\ IInv /\ TypeOK /\ BoardType /\ MoveType /\ GhostType /\ ChargeKnown /\ WallsStand
      /\ LocksHeld /\ pc \in [Threads -> Labels]
  BY DEF IInv, TypeOK
<1>1. CASE UNCHANGED <<pc, target, dir>>
  BY <1>0, <1>1
<1>2. CASE Next /\ ~ \E g \in Ghosts : GhostRuns(g) \/ LockFirst(g) \/ LockSecond(g)
                                       \/ HangOnLock(g)
  BY <1>0, <1>2, OthersLeaveGhosts DEF ghostVars
<1>3. ASSUME NEW g \in Ghosts, LockFirst(g) \/ LockSecond(g) \/ HangOnLock(g)
      PROVE  ChargeKnown'
  BY <1>0, <1>3, LockSteps DEF ghostVars
<1>4. ASSUME NEW g \in Ghosts, GhostLeaves(g) \/ GhostWaits(g) \/ GhostChecks(g)
      PROVE  ChargeKnown'
  BY <1>0, <1>4 DEF GhostLeaves, GhostWaits, GhostChecks, GoTo, moveVars, ghostVars
<1>5. ASSUME NEW g \in Ghosts, GhostCharges(g) \/ GhostPauses(g) \/ GhostStumbles(g)
      PROVE  ChargeKnown'
  BY <1>0, <1>5
     DEF GhostCharges, GhostPauses, GhostStumbles, GhostPlays, GoTo, ghostVars
<1>6. ASSUME NEW g \in Ghosts, GhostAims(g) PROVE ChargeKnown'
  BY <1>0, <1>6 DEF GhostAims, GhostPlays, Aim, GoTo, MoveType
<1>7. ASSUME NEW g \in Ghosts, GhostRushes(g) PROVE ChargeKnown'
  <2>1. PICK d \in DirsOf(Command(g).op) :
          /\ Aim(g, d, "scan")
          /\ dir' = [dir EXCEPT ![g] = IF Beside(pos[g], d) \in Cells THEN d ELSE "none"]
    BY <1>7 DEF GhostRushes
  <2>2. d \in Dirs /\ Behind(Beside(pos[g], d), d) = pos[g] /\ pos[g] \in Cells \ Walls
    BY <1>0, DirsOfAreDirs, BehindBeside DEF MoveType, WallsStand
  <2>3. pc[g] = "loop"
    BY <1>7 DEF GhostRushes, GhostPlays
  <2>4. QED
    BY <1>0, <2>1, <2>2, <2>3 DEF Aim, GoTo, MoveType, GhostType, Dirs
<1>8. ASSUME NEW g \in Ghosts, GhostScansOn(g) PROVE ChargeKnown'
  <2>1. target[g] \in Cells \ Walls /\ dir[g] \in Dirs
    BY <1>0, <1>8 DEF GhostScansOn, Scanning, WallsStand, MoveType
  <2>2. Behind(Beside(target[g], dir[g]), dir[g]) = target[g]
    BY <2>1, BehindBeside
  <2>3. QED
    BY <1>0, <1>8, <2>1, <2>2 DEF GhostScansOn, Scanning, GoTo, MoveType, ghostVars
<1>9. ASSUME NEW g \in Ghosts, GhostStopsShort(g) PROVE ChargeKnown'
  BY <1>0, <1>9 DEF GhostStopsShort, Scanning, GoTo, MoveType, ghostVars
<1>10. ASSUME NEW g \in Ghosts, GhostSpotsPac(g) PROVE ChargeKnown'
  <2>1. target[g] \in Cells \ Walls
    BY <1>0, <1>10 DEF GhostSpotsPac, WallsStand, MoveType
  <2>2. QED
    BY <1>0, <1>10, <2>1 DEF GhostSpotsPac, Scanning, GoTo, moveVars, ghostVars
<1>11. ASSUME NEW g \in Ghosts, GhostMeetsObstacle(g) PROVE ChargeKnown'
  BY <1>0, <1>11 DEF GhostMeetsObstacle, EndMove, GoTo, MoveType, ghostVars
<1>12. ASSUME NEW g \in Ghosts, GhostMoves(g) PROVE ChargeKnown'
  BY <1>0, <1>12 DEF GhostMoves, EndMove, GoTo, MoveType, GhostType
<1>13. QED
  BY <1>1, <1>2, <1>3, <1>4, <1>5, <1>6, <1>7, <1>8, <1>9, <1>10, <1>11, <1>12
     DEF GhostRuns, vars, levelVars, moveVars, ghostVars

LEMMA NobodyChargesStep == IInv /\ [Next]_levelVars => NobodyCharges'
<1> SUFFICES ASSUME IInv, [Next]_levelVars PROVE NobodyCharges'
  OBVIOUS
<1> USE Cast DEF NobodyCharges
<1>0. IInv /\ TypeOK /\ GhostType /\ NobodyCharges
  BY DEF IInv, TypeOK
<1>1. CASE UNCHANGED <<charged, dir>>
  BY <1>0, <1>1
<1>2. ASSUME NEW g \in Ghosts, GhostCharges(g) PROVE ~NoCharge
  <2>1. cur[g] + 1 \in 1 .. Len(Moves[g])
    BY <1>0, NextInFile DEF GhostType
  <2>2. QED
    BY <1>2, <2>1 DEF GhostCharges, Command, NoCharge
<1>3. ASSUME NEW g \in Ghosts, GhostRushes(g) PROVE ~NoCharge
  BY <1>0, <1>3 DEF GhostRushes
<1>4. ASSUME NEW g \in Ghosts, GhostMoves(g) PROVE NobodyCharges'
  BY <1>0, <1>4 DEF GhostMoves, GhostType
<1>5. QED
  BY <1>1, <1>2, <1>3, <1>4
     DEF NoCharge, Next, PacReads, PacRuns, GhostRuns, GameRuns, LevelOver, vars, levelVars,
         ghostVars,
         PacChecks, PacQuits, PacFindsItselfDead, PacWaits, PacAims, PacEntersPortal,
         PacMeetsWall, PacMeetsGhost, PacMoves, PacLeavesByPortal, LockFirst, LockSecond,
         HangOnLock, GhostLeaves, GhostWaits, GhostPauses, GhostStumbles,
         GhostAims, GhostScansOn, GhostStopsShort, GhostSpotsPac,
         GhostMeetsObstacle, GhostChecks, GameStops, GameUnloads, handle_shutdown

LEMMA PlainMovesStep == IInv /\ [Next]_levelVars => PlainMovesMove'
<1> SUFFICES ASSUME IInv, [Next]_levelVars PROVE PlainMovesMove'
  OBVIOUS
<1> USE Cast DEF PlainMovesMove, PlainMove
<1>0. /\ IInv /\ TypeOK /\ MoveType /\ GhostType /\ PlainMovesMove /\ ChargeKnown
      /\ pc \in [Threads -> Labels]
  BY DEF IInv, TypeOK
<1>1. CASE UNCHANGED <<pc, moveVars, ghostVars>>
  BY <1>0, <1>1 DEF moveVars, ghostVars, Index
\* A thread that moves no other, and is on no plain move afterwards.
<1>2. ASSUME NEW t \in Threads,
             \A u \in Threads : u # t => /\ pc'[u] = pc[u] /\ pos'[u] = pos[u]
                                         /\ target'[u] = target[u]
                                         /\ u \in Ghosts => dir'[u] = dir[u],
             pc'[t] \in {"lock1", "lock2", "act"} => ~PlainMove(t)'
      PROVE  PlainMovesMove'
  BY <1>0, <1>2 DEF Index
<1>3. ASSUME NEW t \in Threads, LockFirst(t) \/ LockSecond(t) \/ HangOnLock(t)
      PROVE  PlainMovesMove'
  BY <1>0, <1>3, LockSteps DEF ghostVars, Index
<1>4. CASE PacChecks \/ PacLeavesByPortal
  BY <1>0, <1>2, <1>4
     DEF PacChecks, PacLeavesByPortal, PacReturns, GoTo, moveVars, ghostVars
<1>5. ASSUME NEW cmd \in Commands, PacQuits(cmd) \/ PacFindsItselfDead(cmd) \/ PacWaits(cmd)
      PROVE  PlainMovesMove'
  BY <1>0, <1>2, <1>5
     DEF PacQuits, PacFindsItselfDead, PacWaits, PacReturns, GoTo, moveVars, ghostVars
<1>6. CASE PacEntersPortal \/ PacMeetsWall \/ PacMeetsGhost \/ PacMoves
  BY <1>0, <1>2, <1>6
     DEF PacEntersPortal, PacMeetsWall, PacMeetsGhost, PacMoves, EndMove, PacReturns, GoTo,
         MoveType, ghostVars
\* A thread that aims.
<1>7. ASSUME NEW t \in Threads, NEW d \in Dirs, NEW l \in Labels, Aim(t, d, l),
             UNCHANGED pos, \A u \in Ghosts : u # t => dir'[u] = dir[u],
             l = "lock1" \/ l = "scan"
      PROVE  PlainMovesMove'
  <2>1. pc'[t] = "lock1" => Index(target'[t]) # Index(pos[t])
    BY <1>0, <1>7, NeighboursDiffer DEF Aim, GoTo, MoveType
  <2>2. \A u \in Threads : u # t => pc'[u] = pc[u] /\ target'[u] = target[u]
    BY <1>0, <1>7 DEF Aim, GoTo, MoveType
  <2>3. pc'[t] \in {"lock1", "scan", "check"}
    BY <1>0, <1>7 DEF Aim, GoTo
  <2>4. QED
    BY <1>0, <1>7, <2>1, <2>2, <2>3 DEF Index
<1>8. ASSUME NEW cmd \in Commands, PacAims(cmd) PROVE PlainMovesMove'
  <2>1. CASE DirsOf(cmd) = {} /\ GoTo(Pac, "check") /\ UNCHANGED target
    BY <1>0, <1>2, <1>8, <2>1 DEF PacAims, GoTo, ghostVars
  <2>2. CASE \E d \in DirsOf(cmd) : Aim(Pac, d, "lock1")
    BY <1>7, <1>8, <2>2, DirsOfAreDirs DEF PacAims, ghostVars, Labels
  <2>3. QED
    BY <1>8, <2>1, <2>2 DEF PacAims
<1>9. ASSUME NEW g \in Ghosts, GhostAims(g) PROVE PlainMovesMove'
  BY <1>7, <1>9, DirsOfAreDirs DEF GhostAims, GhostPlays, Labels
<1>10. ASSUME NEW g \in Ghosts, GhostRushes(g) PROVE PlainMovesMove'
  BY <1>0, <1>7, <1>10, DirsOfAreDirs DEF GhostRushes, GhostPlays, GhostType, Labels
<1>11. ASSUME NEW g \in Ghosts, GhostLeaves(g) \/ GhostWaits(g) \/ GhostChecks(g)
       PROVE  PlainMovesMove'
  BY <1>0, <1>2, <1>11 DEF GhostLeaves, GhostWaits, GhostChecks, GoTo, moveVars, ghostVars
<1>12. ASSUME NEW g \in Ghosts, GhostCharges(g) \/ GhostPauses(g) \/ GhostStumbles(g)
       PROVE  PlainMovesMove'
  BY <1>0, <1>2, <1>12
     DEF GhostCharges, GhostPauses, GhostStumbles, GhostPlays, GoTo, ghostVars
<1>13. ASSUME NEW g \in Ghosts, GhostScansOn(g) \/ GhostStopsShort(g) \/ GhostSpotsPac(g)
       PROVE  PlainMovesMove'
  <2>1. dir[g] # "none" /\ UNCHANGED dir
    BY <1>0, <1>13
       DEF GhostScansOn, GhostStopsShort, GhostSpotsPac, Scanning, ChargeKnown, Dirs, ghostVars
  <2>2. QED
    BY <1>0, <1>2, <1>13, <2>1
       DEF GhostScansOn, GhostStopsShort, GhostSpotsPac, GoTo, MoveType, moveVars
<1>14. ASSUME NEW g \in Ghosts, GhostMeetsObstacle(g) \/ GhostMoves(g) PROVE PlainMovesMove'
  <2>1. pc'[g] = "check" /\ \A u \in Threads : u # g => pc'[u] = pc[u]
    BY <1>0, <1>14 DEF GhostMeetsObstacle, GhostMoves, GoTo
  <2>2. \E c : EndMove(g, c)
    BY <1>14 DEF GhostMeetsObstacle, GhostMoves
  <2>3. \A u \in Threads : u # g => pos'[u] = pos[u] /\ target'[u] = target[u]
    BY <1>0, <2>2 DEF EndMove, MoveType
  <2>4. \A u \in Ghosts : u # g => dir'[u] = dir[u]
    BY <1>0, <1>14 DEF GhostMeetsObstacle, GhostMoves, GhostType, ghostVars
  <2>5. QED
    BY <1>2, <2>1, <2>3, <2>4
<1>15. QED
  BY <1>1, <1>3, <1>4, <1>5, <1>6, <1>8, <1>9, <1>10, <1>11, <1>12, <1>13, <1>14
     DEF Next, PacReads, PacRuns, GhostRuns, GameRuns, LevelOver, vars, levelVars,
         GameStops, GameUnloads, handle_shutdown

----------------------------------------------------------------------------
(* Every step keeps the walls and the agreement of matrix and positions. *)

\* The steps that write a cell or move somebody.
LEMMA Writers ==
  ASSUME Next, ~UNCHANGED <<content, pos>>
  PROVE  \/ PacEntersPortal \/ PacMeetsWall \/ PacMeetsGhost \/ PacMoves
         \/ \E g \in Ghosts : GhostSpotsPac(g) \/ GhostMeetsObstacle(g) \/ GhostMoves(g)
BY DEF Next, PacReads, PacRuns, GhostRuns, GameRuns, LevelOver, vars, levelVars, boardVars,
       moveVars,
       PacChecks, PacQuits, PacFindsItselfDead, PacWaits, PacAims,
       PacLeavesByPortal, LockFirst, LockSecond, GhostPlays,
       HangOnLock, GhostLeaves, GhostWaits, GhostCharges, GhostPauses, GhostStumbles,
       GhostAims, GhostRushes, GhostScansOn, GhostStopsShort,
       GhostChecks, GameStops, GameUnloads, handle_shutdown

LEMMA WallsStep == IInv /\ [Next]_levelVars => WallsStand'
<1> SUFFICES ASSUME IInv, [Next]_levelVars PROVE WallsStand'
  OBVIOUS
<1> USE Cast DEF WallsStand
<1>0. /\ IInv /\ TypeOK /\ BoardType /\ MoveType /\ GhostType /\ WallsStand
      /\ LocksHeld /\ ChargeKnown
  BY DEF IInv, TypeOK
<1>1. CASE UNCHANGED <<content, pos>>
  BY <1>0, <1>1
<1>2. CASE PacEntersPortal
  <2>1. target[Pac] \notin Walls
    BY <1>2, LevelAssumption DEF PacEntersPortal
  <2>2. QED
    BY <1>0, <1>2, <2>1 DEF PacEntersPortal, EndMove, MoveType, BoardType
<1>3. CASE PacMeetsWall \/ PacMeetsGhost
  BY <1>0, <1>3 DEF PacMeetsWall, PacMeetsGhost, EndMove, MoveType, BoardType
<1>4. CASE PacMoves
  <2>1. target[Pac] \notin Walls
    BY <1>0, <1>4 DEF PacMoves, PacActing, LocksHeld, MoveType
  <2>2. QED
    BY <1>0, <1>4, <2>1 DEF PacMoves, EndMove, MoveType, BoardType
<1>5. ASSUME NEW g \in Ghosts, GhostSpotsPac(g) PROVE WallsStand'
  BY <1>0, <1>5 DEF GhostSpotsPac, moveVars, MoveType, BoardType
<1>6. ASSUME NEW g \in Ghosts, GhostMeetsObstacle(g) PROVE WallsStand'
  BY <1>0, <1>6 DEF GhostMeetsObstacle, EndMove, MoveType
<1>7. ASSUME NEW g \in Ghosts, GhostMoves(g) PROVE WallsStand'
  <2>1. target[g] \notin Walls
    BY <1>0, <1>7 DEF GhostMoves, LocksHeld, ChargeKnown, MoveType
  <2>2. QED
    BY <1>0, <1>7, <2>1 DEF GhostMoves, EndMove, MoveType, BoardType
<1>8. QED
  BY <1>1, <1>2, <1>3, <1>4, <1>5, <1>6, <1>7, Writers DEF vars, levelVars, boardVars, moveVars

\* Nothing brings the pacman back to life.
LEMMA DeadForGood == IInv /\ [Next]_levelVars => (alive' => alive)
<1> SUFFICES ASSUME IInv, [Next]_levelVars PROVE alive' => alive
  OBVIOUS
<1>1. PacType
  BY DEF IInv, TypeOK
<1>2. QED
  BY <1>1
   DEF PacType, Next, PacReads, PacRuns, GhostRuns, GameRuns, LevelOver, vars, levelVars, pacVars,
       PacChecks, PacQuits, PacFindsItselfDead, PacWaits, PacAims, PacEntersPortal,
       PacMeetsWall, PacMeetsGhost, PacMoves, PacLeavesByPortal, LockFirst, LockSecond,
       HangOnLock, GhostLeaves, GhostWaits, GhostPlays, GhostCharges, GhostPauses,
       GhostStumbles, GhostAims, GhostRushes, GhostScansOn, GhostStopsShort, GhostSpotsPac,
       GhostMeetsObstacle, GhostMoves, GhostChecks, GameStops, GameUnloads, handle_shutdown

\* The pacman does not come back from the portal, and its thread not from its end.
LEMMA GoneForGood ==
  ASSUME IInv, [Next]_levelVars, pc[Pac] \in {"portal", "done"}
  PROVE  pc'[Pac] \in {"portal", "done"}
<1> USE Cast
<1>0. pc \in [Threads -> Labels]
  BY DEF IInv, TypeOK
<1>1. CASE UNCHANGED pc
  BY <1>1
<1>2. CASE \E g \in Ghosts : \E l : GoTo(g, l)
  BY <1>0, <1>2 DEF GoTo
<1>3. ASSUME NEW g \in Ghosts, GhostAims(g) \/ GhostRushes(g)
      PROVE  pc'[Pac] = pc[Pac]
  BY <1>0, <1>3 DEF GhostAims, GhostRushes, Aim, GoTo
<1>4. ASSUME NEW t \in Threads, LockFirst(t) \/ LockSecond(t) \/ HangOnLock(t), t = Pac
      PROVE  FALSE
  BY <1>4 DEF LockFirst, LockSecond, HangOnLock, WantsLock
<1>5. CASE PacLeavesByPortal
  BY <1>0, <1>5 DEF PacLeavesByPortal, PacReturns, GoTo
<1>6. QED
  BY <1>1, <1>2, <1>3, <1>4, <1>5
     DEF Next, PacReads, PacRuns, GhostRuns, GameRuns, LevelOver, vars, levelVars, Threads,
         PacChecks, PacQuits, PacFindsItselfDead, PacWaits, PacAims, PacEntersPortal,
         PacMeetsWall, PacMeetsGhost, PacMoves, LockFirst, LockSecond, PacCommanded,
         PacActing, HangOnLock, GhostLeaves, GhostWaits, GhostCharges, GhostPauses,
         GhostStumbles, GhostScansOn, GhostStopsShort, GhostSpotsPac, GhostMeetsObstacle,
         GhostMoves, GhostChecks, GameStops, GameUnloads, handle_shutdown

\* The pacman never plays on after it has been killed or has left.
LEMMA OutOfPlayForGood == IInv /\ [Next]_levelVars => (InPlay' => InPlay)
BY DeadForGood, GoneForGood DEF InPlay

LEMMA BoardStep == IInv /\ [Next]_levelVars => BoardConsistent'
<1> SUFFICES ASSUME IInv, [Next]_levelVars, NoCharge, InPlay' PROVE BoardConsistent'
  BY DEF BoardConsistent, NoCharge
<1> USE Cast DEF BoardConsistent
<1>0. /\ IInv /\ TypeOK /\ BoardType /\ MoveType /\ GhostType /\ PacType /\ LocksHeld
      /\ ChargeKnown /\ NobodyCharges /\ PlainMovesMove /\ InPlay
      /\ \A c \in Cells : content[c] = "P" <=> c = pos[Pac]
      /\ \A c \in Cells : content[c] = "M" <=> \E g \in Ghosts : pos[g] = c
      /\ \A g, h \in Ghosts : g # h => pos[g] # pos[h]
      /\ pc \in [Threads -> Labels]
  BY OutOfPlayForGood DEF IInv, TypeOK
<1>1. CASE UNCHANGED <<content, pos>>
  BY <1>0, <1>1 DEF NoCharge
<1>2. CASE PacEntersPortal \/ PacMeetsGhost
  BY <1>0, <1>2 DEF PacEntersPortal, PacMeetsGhost, GoTo, InPlay
<1>3. CASE PacMeetsWall
  BY <1>0, <1>3 DEF PacMeetsWall, EndMove, MoveType
<1>4. CASE PacMoves
  <2>1. content[target[Pac]] \notin {"X", "M"} /\ target[Pac] # pos[Pac]
    BY <1>0, <1>4 DEF PacMoves, PacActing, LocksHeld, PlainMovesMove, PlainMove
  <2>2. pos' = [pos EXCEPT ![Pac] = target[Pac]]
        /\ content' = [content EXCEPT ![pos[Pac]] = "o", ![target[Pac]] = "P"]
    BY <1>4 DEF PacMoves, EndMove
  <2>3. QED
    BY <1>0, <2>1, <2>2 DEF MoveType, BoardType
<1>5. ASSUME NEW g \in Ghosts, GhostSpotsPac(g) PROVE FALSE
  BY <1>0, <1>5 DEF GhostSpotsPac, Scanning, NobodyCharges, ChargeKnown, Dirs
<1>6. ASSUME NEW g \in Ghosts, GhostMeetsObstacle(g) PROVE BoardConsistent'
  BY <1>0, <1>6 DEF GhostMeetsObstacle, EndMove, MoveType
<1>7. ASSUME NEW g \in Ghosts, GhostMoves(g) PROVE BoardConsistent'
  <2>1. dir[g] = "none" /\ seen[g] = content[target[g]] /\ target[g] # pos[g]
    BY <1>0, <1>7 DEF GhostMoves, LocksHeld, PlainMovesMove, PlainMove, NobodyCharges
  <2>2. content[target[g]] \notin {"X", "M", "P"}
    BY <1>0, <1>7, <2>1 DEF GhostMoves, PacAt, InPlay, MoveType
  <2>3. pos' = [pos EXCEPT ![g] = target[g]]
        /\ content' = [content EXCEPT ![pos[g]] = "o", ![target[g]] = "M"]
    BY <1>7 DEF GhostMoves, EndMove
  <2>4. QED
    BY <1>0, <2>1, <2>2, <2>3 DEF MoveType, BoardType
<1>8. QED
  BY <1>1, <1>2, <1>3, <1>4, <1>5, <1>6, <1>7, Writers DEF vars, levelVars, boardVars, moveVars

LEMMA LeftTheBoardStep == IInv /\ [Next]_levelVars => LeftTheBoard'
<1> SUFFICES ASSUME IInv, [Next]_levelVars PROVE LeftTheBoard'
  OBVIOUS
<1> USE Cast DEF LeftTheBoard, Gone
<1>0. /\ IInv /\ TypeOK /\ BoardType /\ MoveType /\ PacType /\ PlainMovesMove /\ LeftTheBoard
      /\ pc \in [Threads -> Labels]
  BY DEF IInv, TypeOK
\* A step that does not take the pacman away.
<1>1. ASSUME UNCHANGED <<content, pos, result>>, pc'[Pac] = pc[Pac] PROVE LeftTheBoard'
  BY <1>0, <1>1
\* A step of the pacman within a level, or back to game_thread.
<1>2. ASSUME ~Gone, pc'[Pac] # "portal", result' = result \/ result' = "QUIT_GAME"
      PROVE  LeftTheBoard'
  BY <1>0, <1>2
<1>3. CASE PacChecks
  BY <1>0, <1>2, <1>3 DEF PacChecks, PacReturns, GoTo
<1>4. ASSUME NEW cmd \in Commands, PacQuits(cmd) \/ PacFindsItselfDead(cmd) \/ PacWaits(cmd)
      PROVE  LeftTheBoard'
  BY <1>0, <1>2, <1>4
     DEF PacQuits, PacFindsItselfDead, PacWaits, PacCommanded, PacReturns, GoTo, pacVars
<1>5. ASSUME NEW cmd \in Commands, PacAims(cmd) PROVE LeftTheBoard'
  BY <1>0, <1>2, <1>5 DEF PacAims, PacCommanded, Aim, GoTo, pacVars
<1>6. CASE PacEntersPortal
  <2>1. target[Pac] # pos[Pac] /\ result # "NEXT_LEVEL"
    BY <1>0, <1>6 DEF PacEntersPortal, PacActing, PlainMovesMove, PlainMove
  <2>2. QED
    BY <1>0, <1>6, <2>1
       DEF PacEntersPortal, EndMove, GoTo, BoardType, MoveType, pacVars
<1>7. CASE PacMeetsWall \/ PacMeetsGhost \/ PacMoves
  BY <1>0, <1>2, <1>7
     DEF PacMeetsWall, PacMeetsGhost, PacMoves, PacActing, PacReturns, GoTo, pacVars
<1>8. CASE PacLeavesByPortal
  BY <1>0, <1>8 DEF PacLeavesByPortal, PacReturns, GoTo, boardVars, moveVars
<1>9. ASSUME NEW t \in Threads, LockFirst(t) \/ LockSecond(t) \/ HangOnLock(t)
      PROVE  LeftTheBoard'
  <2>1. UNCHANGED <<content, pos, result>>
    BY <1>9 DEF LockFirst, LockSecond, HangOnLock, boardVars, moveVars, pacVars
  <2>2. CASE t # Pac
    BY <1>0, <1>1, <1>9, <2>1, <2>2, LockSteps
  <2>3. CASE t = Pac
    BY <1>0, <1>2, <1>9, <2>1, <2>3
       DEF LockFirst, LockSecond, HangOnLock, WantsLock, GoTo
  <2>4. QED
    BY <2>2, <2>3
\* A ghost writes M over what it comes to and o over what it leaves.
<1>10. ASSUME NEW g \in Ghosts, GhostMoves(g) \/ GhostSpotsPac(g) \/ GhostMeetsObstacle(g)
       PROVE  LeftTheBoard'
  <2>1. pc'[Pac] = pc[Pac] /\ pos'[Pac] = pos[Pac] /\ result' = result
    BY <1>0, <1>10
       DEF GhostMoves, GhostSpotsPac, GhostMeetsObstacle, EndMove, GoTo, MoveType, moveVars,
           pacVars
  <2>2. \A c \in Cells : content'[c] = "P" => content[c] = "P"
    BY <1>0, <1>10 DEF GhostMoves, GhostSpotsPac, GhostMeetsObstacle, BoardType, MoveType
  <2>3. QED
    BY <1>0, <2>1, <2>2 DEF MoveType
<1>11. ASSUME NEW g \in Ghosts, GhostRuns(g), UNCHANGED <<content, pos>> PROVE LeftTheBoard'
  <2>1. CASE LockFirst(g) \/ LockSecond(g)
    BY <1>9, <2>1
  <2>2. CASE GhostMoves(g) \/ GhostSpotsPac(g) \/ GhostMeetsObstacle(g)
    BY <1>10, <2>2
  <2>3. CASE GhostAims(g) \/ GhostRushes(g)
    BY <1>0, <1>1, <1>11, <2>3 DEF GhostAims, GhostRushes, GhostPlays, Aim, GoTo, pacVars
  <2>4. CASE \/ GhostLeaves(g) \/ GhostWaits(g) \/ GhostCharges(g) \/ GhostPauses(g)
             \/ GhostStumbles(g) \/ GhostScansOn(g) \/ GhostStopsShort(g) \/ GhostChecks(g)
    BY <1>0, <1>1, <1>11, <2>4
       DEF GhostLeaves, GhostWaits, GhostCharges, GhostPauses, GhostStumbles, GhostPlays,
           GhostScansOn, GhostStopsShort, GhostChecks, GoTo, pacVars
  <2>5. QED
    BY <1>11, <2>1, <2>2, <2>3, <2>4 DEF GhostRuns
<1>12. CASE UNCHANGED levelVars \/ GameStops \/ GameUnloads \/ handle_shutdown
  BY <1>1, <1>12
     DEF vars, levelVars, boardVars, moveVars, pacVars, GameStops, GameUnloads, handle_shutdown
<1>13. QED
  BY <1>3, <1>4, <1>5, <1>6, <1>7, <1>8, <1>9, <1>10, <1>11, <1>12, Writers
     DEF vars, Next, PacReads, PacRuns, GameRuns, LevelOver

----------------------------------------------------------------------------
(* The theorems. *)

LEMMA LevelStepInv == IInv /\ [Next]_levelVars => IInv'
BY TypeStep, LocksStep, HoldersStep, ChargeStep, PlainMovesStep, NobodyChargesStep,
   LeftTheBoardStep, WallsStep, BoardStep DEF IInv

LEMMA StepInv == IInv /\ [Next]_vars => IInv'
BY LevelStepInv DEF vars

LEMMA InitInv == Init => IInv
BY InitLevel DEF Init

LEMMA Invariance == Spec => []IInv
BY InitInv, StepInv, PTL DEF Spec

\* Every variable keeps its type: in particular nobody leaves the board, and
\* current_move % n_moves always points at a command of the file.
THEOREM TypeCorrect == Spec => []TypeOK
<1>1. IInv => TypeOK
  BY DEF IInv
<1>2. QED
  BY <1>1, Invariance, PTL

\* The two cell locks are enough: a look at the target is never stale when the
\* move is made, even beside charged ghosts.
THEOREM LooksStayFresh == Spec => []FreshLook
<1>1. IInv => FreshLook
  BY DEF IInv, LocksHeld, FreshLook
<1>2. QED
  BY <1>1, Invariance, PTL

\* Walls stay where the level file put them and nobody stands on one.
THEOREM WallsAlwaysStand == Spec => []WallsStand
<1>1. IInv => WallsStand
  BY DEF IInv
<1>2. QED
  BY <1>1, Invariance, PTL

\* Without charges the matrix and the positions agree as long as the pacman plays.
THEOREM BoardAlwaysConsistent == Spec => []BoardConsistent
<1>1. IInv => BoardConsistent
  BY DEF IInv
<1>2. QED
  BY <1>1, Invariance, PTL

----------------------------------------------------------------------------
(* Nobody waits in a circle. *)

\* Rows do not overlap: a cell of a lower row comes first in the matrix.
LEMMA RowsInOrder ==
  ASSUME NEW c \in Cells, NEW d \in Cells, c[2] < d[2]
  PROVE  Index(c) < Index(d)
<1> DEFINE a == Width * c[2]
           b == Width * d[2]
<1>1. /\ Width \in Nat \ {0} /\ c[1] \in 0 .. Width - 1 /\ d[1] \in 0 .. Width - 1
      /\ c[2] \in Nat /\ d[2] \in Nat
  BY LevelAssumption DEF Cells
<1>2. PICK k \in Nat : d[2] = c[2] + 1 + k
  <2>1. d[2] - c[2] - 1 \in Nat /\ d[2] = c[2] + 1 + (d[2] - c[2] - 1)
    BY <1>1
  <2>2. QED
    BY <2>1
<1>3. b = a + Width + Width * k
  BY <1>1, <1>2
<1>4. a \in Nat /\ b \in Nat /\ Width * k \in Nat
  BY <1>1, <1>2
<1>5. Index(c) = a + c[1] /\ Index(d) = b + d[1]
  BY <1>1 DEF Index
<1> DEFINE m == Width * k
<1>6. m \in Nat /\ b = a + Width + m
  BY <1>3, <1>4
<1> HIDE DEF a, b, m
<1>7. QED
  BY <1>1, <1>4, <1>5, <1>6

LEMMA IndexType == \A c \in Cells : Index(c) \in Nat
<1> SUFFICES ASSUME NEW c \in Cells PROVE Index(c) \in Nat
  OBVIOUS
<1>1. c[1] \in Nat /\ c[2] \in Nat /\ Width \in Nat
  BY LevelAssumption DEF Cells
<1>2. c[2] * Width \in Nat
  BY <1>1
<1>3. QED
  BY <1>1, <1>2 DEF Index

\* get_board_index gives every cell a place of its own.
LEMMA IndexInjective ==
  ASSUME NEW c \in Cells, NEW d \in Cells, Index(c) = Index(d)
  PROVE  c = d
<1>1. c[2] \in Int /\ d[2] \in Int /\ Index(c) \in Int /\ Index(d) \in Int
  BY LevelAssumption DEF Cells, Index
<1>2. c[2] = d[2]
  BY <1>1, RowsInOrder
<1>3. \A a, x, y \in Int : a + x = a + y => x = y
  OBVIOUS
<1>4. c[2] * Width \in Int /\ c[1] \in Int /\ d[1] \in Int
  BY <1>1, LevelAssumption DEF Cells
<1>5. c[2] * Width + c[1] = c[2] * Width + d[1]
  BY <1>2 DEF Index
<1>6. c[1] = d[1]
  BY <1>3, <1>4, <1>5, Zenon
<1>7. QED
  BY <1>2, <1>6 DEF Cells

LEMMA LeastNumber ==
  ASSUME NEW T \in SUBSET Nat, T # {}
  PROVE  \E x \in T : \A y \in T : x <= y
<1>1. PICK x \in T : \A y \in T : ~(<<y, x>> \in OpToRel(<, Nat))
  BY NatLessThanWellFounded, WFMin
<1>2. \A y \in T : ~(y < x)
  BY <1>1 DEF OpToRel
<1> QED
  BY <1>2

\* A thread that is waited for and waits itself is between its two locks: it holds
\* the awaited one and wants one of a lower index.
LEMMA WaitsDownwards ==
  ASSUME IInv, NEW t \in Threads, NEW u \in Threads, NEW v \in Threads,
         WaitsFor(t, u), WaitsFor(u, v)
  PROVE  /\ pc[u] = "lock2" /\ WantsLock(t, First(u))
         /\ Index(Second(u)) < Index(First(u))
<1>0. TypeOK /\ BoardType /\ MoveType /\ OnlyMoversHold /\ LocksHeld
  BY DEF IInv, TypeOK
<1>1. PICK c \in Cells : WantsLock(t, c) /\ lock[c] = u
  BY DEF WaitsFor
<1>2. PICK d \in Cells : WantsLock(u, d) /\ lock[d] = v /\ v # u
  BY DEF WaitsFor
<1>3. pc[u] = "lock2" /\ c = First(u) /\ d = Second(u)
  BY <1>0, <1>1, <1>2 DEF OnlyMoversHold, Holds, WantsLock
<1>4. First(u) \in Cells /\ Second(u) \in Cells /\ First(u) # Second(u)
  BY <1>1, <1>2, <1>3
<1>5. Index(First(u)) # Index(Second(u))
  BY <1>4, IndexInjective
<1>6. Index(target[u]) \in Nat /\ Index(pos[u]) \in Nat
  BY <1>0, IndexType DEF MoveType
<1>7. Index(Second(u)) < Index(First(u))
  BY <1>5, <1>6 DEF First, Second, HigherFirst
<1>8. QED
  BY <1>1, <1>3, <1>7

LEMMA NoCircle == IInv => NobodyWaitsInACircle
<1> SUFFICES ASSUME IInv, NEW S \in SUBSET Threads, S # {},
                    \A t \in S : \E u \in S : WaitsFor(t, u)
             PROVE  FALSE
  BY DEF NobodyWaitsInACircle
<1> DEFINE Awaited == {u \in S : \E t \in S : WaitsFor(t, u)}
           Wanted == {Index(Second(u)) : u \in Awaited}
<1>1. Awaited # {} /\ \A u \in Awaited : \E v \in Awaited : WaitsFor(u, v)
  OBVIOUS
<1>2. Wanted \in SUBSET Nat /\ Wanted # {}
  <2>1. \A u \in Threads : Index(Second(u)) \in Nat
    BY IndexType DEF IInv, TypeOK, MoveType, Second
  <2>2. QED
    BY <1>1, <2>1
<1>3. PICK u \in Awaited : \A w \in Awaited : Index(Second(u)) <= Index(Second(w))
  <2>1. PICK x \in Wanted : \A y \in Wanted : x <= y
    BY <1>2, LeastNumber
  <2>2. QED
    BY <2>1
<1>4. PICK v \in Awaited : WaitsFor(u, v)
  BY <1>1, <1>3
<1>5. PICK t \in S : WaitsFor(t, u)
  BY <1>3
<1>6. PICK w \in Awaited : WaitsFor(v, w)
  BY <1>1, <1>4
<1>7. pc[u] = "lock2" /\ pc[v] = "lock2" /\ WantsLock(u, First(v))
      /\ Index(Second(v)) < Index(First(v))
  BY <1>3, <1>4, <1>5, <1>6, WaitsDownwards
<1>8. First(v) = Second(u)
  BY <1>7 DEF WantsLock
<1>9. Index(Second(v)) \in Nat /\ Index(Second(u)) \in Nat
  BY <1>2, <1>3, <1>4
<1>10. QED
  BY <1>3, <1>4, <1>7, <1>8, <1>9

\* However many ghosts there are, and whether they charge or not, no group of
\* threads ever waits for each other's cell locks in a circle.
THEOREM NoCircleOfWaiters == Spec => []NobodyWaitsInACircle
BY NoCircle, Invariance, PTL

\* A pacman that is dead outside a move stays where it is, with what it has.
Dead == ~alive /\ pc[Pac] \notin Moving
Rest == pc'[Pac] \notin Moving /\ UNCHANGED <<pos[Pac], points, dots, won>>

LEMMA DeadRest == IInv /\ Next /\ Dead => Rest
<1> SUFFICES ASSUME IInv, Next, Dead PROVE Rest
  OBVIOUS
<1> USE Cast DEF Moving, Dead, Rest
<1>0. /\ TypeOK /\ MoveType /\ pc \in [Threads -> Labels]
  BY DEF IInv, TypeOK
<1>1. CASE PacChecks
  BY <1>0, <1>1 DEF PacChecks, PacReturns, GoTo, boardVars, moveVars
<1>2. ASSUME NEW cmd \in Commands, PacQuits(cmd) \/ PacFindsItselfDead(cmd) PROVE Rest
  BY <1>0, <1>2 DEF PacQuits, PacFindsItselfDead, PacReturns, GoTo, boardVars, moveVars
<1>3. ASSUME NEW t \in Threads, LockFirst(t) \/ LockSecond(t) \/ HangOnLock(t) PROVE Rest
  BY <1>0, <1>3 DEF LockFirst, LockSecond, HangOnLock, GoTo, boardVars, moveVars, pacVars
<1>4. ASSUME NEW g \in Ghosts, GhostMeetsObstacle(g) \/ GhostMoves(g) PROVE Rest
  <2>1. \E c : EndMove(g, c)
    BY <1>4 DEF GhostMeetsObstacle, GhostMoves
  <2>2. pos'[Pac] = pos[Pac]
    BY <1>0, <2>1 DEF EndMove, MoveType
  <2>3. pc'[Pac] = pc[Pac] /\ UNCHANGED <<points, dots, won>>
    BY <1>0, <1>4 DEF GhostMeetsObstacle, GhostMoves, GoTo, pacVars
  <2>4. QED
    BY <2>2, <2>3
<1>5. ASSUME NEW g \in Ghosts, GhostAims(g) \/ GhostRushes(g) PROVE Rest
  BY <1>0, <1>5 DEF GhostAims, GhostRushes, GhostPlays, Aim, GoTo, boardVars, pacVars
<1>6. ASSUME NEW g \in Ghosts, \/ GhostLeaves(g) \/ GhostWaits(g) \/ GhostCharges(g)
                               \/ GhostPauses(g) \/ GhostStumbles(g) \/ GhostChecks(g)
      PROVE  Rest
  BY <1>0, <1>6
     DEF GhostLeaves, GhostWaits, GhostCharges, GhostPauses, GhostStumbles, GhostChecks,
         GhostPlays, GoTo, boardVars, moveVars, pacVars
<1>7. ASSUME NEW g \in Ghosts, GhostScansOn(g) \/ GhostStopsShort(g) \/ GhostSpotsPac(g)
      PROVE  Rest
  BY <1>0, <1>7
     DEF GhostScansOn, GhostStopsShort, GhostSpotsPac, GoTo, boardVars, moveVars, pacVars
<1>8. CASE GameRuns \/ handle_shutdown \/ LevelOver
  BY <1>0, <1>8
     DEF GameRuns, GameStops, GameUnloads, handle_shutdown, LevelOver, vars, levelVars, boardVars,
         moveVars, pacVars
<1>9. QED
  BY <1>1, <1>2, <1>3, <1>4, <1>5, <1>6, <1>7, <1>8
     DEF Next, PacReads, PacRuns, GhostRuns, PacWaits, PacAims, PacEntersPortal,
         PacMeetsWall, PacMeetsGhost, PacMoves, PacActing, PacLeavesByPortal

\* A kill is overtaken by at most the move the pacman is in the middle of.
THEOREM DeathStaysFinal == Spec => DeathIsFinal
<1>1. IInv /\ [Next]_vars => [Dead => Rest]_vars
  BY DeadRest
<1>2. QED
  BY <1>1, Invariance, PTL DEF Spec, DeathIsFinal, Dead, Rest

\* What is through the portal stays alive.
LEMMA GoneIsSafe ==
  ASSUME IInv, Next, Gone
  PROVE  alive' = alive
<1> USE Cast DEF Gone
<1>0. /\ TypeOK /\ MoveType /\ PacType /\ LocksHeld /\ LeftTheBoard /\ ChargeKnown
  BY DEF IInv, TypeOK
<1>1. content[pos[Pac]] # "P" /\ pc[Pac] \in {"portal", "done"}
  BY <1>0 DEF LeftTheBoard
<1>2. ASSUME NEW g \in Ghosts, GhostSpotsPac(g) PROVE alive' = alive
  BY <1>1, <1>2 DEF GhostSpotsPac, PacAt
<1>3. ASSUME NEW g \in Ghosts, GhostMoves(g) PROVE alive' = alive
  BY <1>0, <1>1, <1>3 DEF GhostMoves, PacAt, LocksHeld, PacType
<1>4. QED
  BY <1>1, <1>2, <1>3
     DEF Next, PacReads, PacRuns, GhostRuns, GameRuns, LevelOver, vars, levelVars, pacVars,
         PacChecks, PacQuits, PacFindsItselfDead, PacWaits, PacAims, PacEntersPortal,
         PacMeetsWall, PacMeetsGhost, PacMoves, PacActing, PacCommanded,
         PacLeavesByPortal, LockFirst, LockSecond,
         HangOnLock, GhostLeaves, GhostWaits, GhostPlays, GhostCharges, GhostPauses,
         GhostStumbles, GhostAims, GhostRushes, GhostScansOn, GhostStopsShort,
         GhostMeetsObstacle, GhostChecks, GameStops, GameUnloads, handle_shutdown

\* Once the pacman is through the portal nothing can kill it.
THEOREM PortalStaysSafe == Spec => PortalIsSafe
<1>1. IInv /\ [Next]_vars => [Gone => alive' = alive]_vars
  BY GoneIsSafe
<1>2. QED
  BY <1>1, Invariance, PTL DEF Spec, PortalIsSafe, Gone

LEMMA DotsFinite == IsFiniteSet(Dots)
<1>1. IsFiniteSet(0 .. Width - 1) /\ IsFiniteSet(0 .. Height - 1)
  BY LevelAssumption, FS_Interval
<1>2. IsFiniteSet(Cells)
  BY <1>1, FS_Product DEF Cells
<1>3. QED
  BY <1>2, FS_Subset, LevelAssumption

LEMMA PointsInit == LevelInit => PointsConserved
<1>1. Dots \ Dots = {} /\ Cardinality({}) = 0
  BY FS_EmptySet
<1>2. LevelInit => dots = Dots /\ points = AccPoints
  BY DEF LevelInit
<1>3. AccPoints = AccPoints + 0
  BY LevelAssumption
<1>4. QED
  BY <1>1, <1>2, <1>3 DEF PointsConserved

\* Only a move of the pacman changes the dots or the points.
LEMMA DotWriters ==
  ASSUME [Next]_levelVars
  PROVE  UNCHANGED <<dots, points>> \/ PacMoves
BY DEF Next, PacReads, PacRuns, GhostRuns, GameRuns, LevelOver, vars, levelVars, boardVars, pacVars,
       PacChecks, PacQuits, PacFindsItselfDead, PacWaits, PacAims, PacEntersPortal,
       PacMeetsWall, PacMeetsGhost, PacLeavesByPortal, LockFirst, LockSecond,
       HangOnLock, GhostLeaves, GhostWaits, GhostPlays, GhostCharges, GhostPauses,
       GhostStumbles, GhostAims, GhostRushes, GhostScansOn, GhostStopsShort,
       GhostSpotsPac, GhostMeetsObstacle, GhostMoves, GhostChecks, GameStops,
       GameUnloads, handle_shutdown

LEMMA PointsStep == IInv /\ PointsConserved /\ [Next]_levelVars => PointsConserved'
<1> SUFFICES ASSUME IInv, PointsConserved, [Next]_levelVars PROVE PointsConserved'
  OBVIOUS
<1> USE DEF PointsConserved
<1>0. dots \subseteq Dots /\ points \in Nat
  BY DEF IInv, TypeOK, BoardType, PacType
<1>1. CASE UNCHANGED <<dots, points>>
  BY <1>1
<1>2. CASE PacMoves /\ target[Pac] \in dots
  <2>1. points' = points + 1 /\ dots' = dots \ {target[Pac]}
    BY <1>2 DEF PacMoves
  <2>2. Dots \ dots' = (Dots \ dots) \cup {target[Pac]} /\ target[Pac] \notin Dots \ dots
    BY <1>0, <1>2, <2>1
  <2>3. IsFiniteSet(Dots \ dots)
    BY DotsFinite, FS_Subset
  <2>4. Cardinality(Dots \ dots') = Cardinality(Dots \ dots) + 1
    BY <2>2, <2>3, FS_AddElement
  <2>5. Cardinality(Dots \ dots) \in Nat
    BY <2>3, FS_CardinalityType
  <2>6. QED
    BY <2>1, <2>4, <2>5, LevelAssumption
<1>3. CASE PacMoves /\ target[Pac] \notin dots
  BY <1>1, <1>3 DEF PacMoves
<1>4. QED
  BY <1>1, <1>2, <1>3, DotWriters

\* A dot is collected once, whoever is killed or moves on meanwhile.
THEOREM PointsAlwaysConserved == Spec => []PointsConserved
<1>1. Init => PointsConserved
  BY PointsInit DEF Init
<1>2. IInv /\ PointsConserved /\ [Next]_vars => PointsConserved'
  BY PointsStep DEF vars
<1>3. QED
  BY <1>1, <1>2, Invariance, PTL DEF Spec
=============================================================================
