---------------------------- MODULE ChaseProofs ----------------------------
(***************************************************************************)
(* Without charges a level implements Chase, for every board, every set of *)
(* ghosts and every program of theirs that satisfies LevelAssumption.      *)
(***************************************************************************)
EXTENDS LevelProofs

----------------------------------------------------------------------------
(* What the refinement needs beside the invariant of LevelProofs. *)

\* A move in progress goes to a cell next to the one it started from.
OnTheMove == {"lock1", "lock2", "act"}
NearTargets ==
  \A t \in Threads : pc[t] \in OnTheMove => target[t] \in Near[pos[t]]

\* The pacman's thread ends alive only when it has left by the portal.
EndsDeadOrGone == pc[Pac] = "done" /\ alive => Gone

CInv == IInv /\ NearTargets /\ EndsDeadOrGone

\* Aim chooses a cell next to the thread's own.
LEMMA AimsNear ==
  ASSUME TypeOK, NEW t \in Threads, NEW d \in Dirs, NEW l \in Labels, Aim(t, d, l),
         pc'[t] = l, l # "check"
  PROVE  target'[t] \in Near[pos[t]]
<1>1. pos[t] \in Cells /\ target \in [Threads -> Cells] /\ pc \in [Threads -> Labels]
  BY DEF TypeOK, MoveType
<1>2. Beside(pos[t], d) \in Cells /\ target'[t] = Beside(pos[t], d)
  BY <1>1 DEF Aim, GoTo
<1>3. QED
  BY <1>1, <1>2 DEF Near

LEMMA NearInit == Init => NearTargets /\ EndsDeadOrGone
BY Cast DEF Init, LevelInit, NearTargets, OnTheMove, EndsDeadOrGone

LEMMA NearStep ==
  ASSUME NoCharge, CInv, [Next]_vars
  PROVE  NearTargets'
<1> USE Cast DEF NearTargets, OnTheMove
<1>0. /\ IInv /\ TypeOK /\ MoveType /\ GhostType /\ NearTargets
      /\ pc \in [Threads -> Labels]
      /\ \A g \in Ghosts : ~charged[g] /\ dir[g] = "none"
      /\ \A g \in Ghosts : pc[g] # "scan"
  BY DEF CInv, IInv, TypeOK, NobodyCharges, ChargeKnown, Dirs
<1>1. CASE UNCHANGED <<pc, pos, target>>
  BY <1>0, <1>1
\* A thread that moves no other, and is on no move afterwards.
<1>2. ASSUME NEW t \in Threads,
             \A u \in Threads : u # t => /\ pc'[u] = pc[u] /\ pos'[u] = pos[u]
                                         /\ target'[u] = target[u],
             pc'[t] \notin OnTheMove
      PROVE  NearTargets'
  BY <1>0, <1>2
<1>3. ASSUME NEW t \in Threads, LockFirst(t) \/ LockSecond(t) \/ HangOnLock(t)
      PROVE  NearTargets'
  BY <1>0, <1>3, LockSteps
<1>4. CASE PacChecks \/ PacLeavesByPortal
  BY <1>0, <1>2, <1>4 DEF PacChecks, PacLeavesByPortal, PacReturns, GoTo, moveVars
<1>5. ASSUME NEW cmd \in Commands, PacQuits(cmd) \/ PacFindsItselfDead(cmd) \/ PacWaits(cmd)
      PROVE  NearTargets'
  BY <1>0, <1>2, <1>5
     DEF PacQuits, PacFindsItselfDead, PacWaits, PacReturns, GoTo, moveVars
<1>6. CASE PacEntersPortal \/ PacMeetsWall \/ PacMeetsGhost \/ PacMoves
  BY <1>0, <1>2, <1>6
     DEF PacEntersPortal, PacMeetsWall, PacMeetsGhost, PacMoves, EndMove, PacReturns, GoTo,
         MoveType
\* A thread that aims.
<1>7. ASSUME NEW t \in Threads, NEW d \in Dirs, Aim(t, d, "lock1"), UNCHANGED pos
      PROVE  NearTargets'
  <2>1. pc'[t] = "lock1" => target'[t] \in Near[pos[t]]
    BY <1>0, <1>7, AimsNear DEF Labels
  <2>2. \A u \in Threads : u # t => pc'[u] = pc[u] /\ target'[u] = target[u]
    BY <1>0, <1>7 DEF Aim, GoTo, MoveType
  <2>3. pc'[t] \in {"lock1", "check"}
    BY <1>0, <1>7 DEF Aim, GoTo
  <2>4. QED
    BY <1>0, <1>7, <2>1, <2>2, <2>3
<1>8. ASSUME NEW cmd \in Commands, PacAims(cmd) PROVE NearTargets'
  <2>1. CASE DirsOf(cmd) = {} /\ GoTo(Pac, "check") /\ UNCHANGED target
    BY <1>0, <1>2, <1>8, <2>1 DEF PacAims, GoTo
  <2>2. CASE \E d \in DirsOf(cmd) : Aim(Pac, d, "lock1")
    BY <1>7, <1>8, <2>2, DirsOfAreDirs DEF PacAims
  <2>3. QED
    BY <1>8, <2>1, <2>2 DEF PacAims
<1>9. ASSUME NEW g \in Ghosts, GhostAims(g) PROVE NearTargets'
  BY <1>7, <1>9, DirsOfAreDirs DEF GhostAims, GhostPlays
<1>10. ASSUME NEW g \in Ghosts, GhostLeaves(g) \/ GhostWaits(g) \/ GhostChecks(g)
       PROVE  NearTargets'
  BY <1>0, <1>2, <1>10 DEF GhostLeaves, GhostWaits, GhostChecks, GoTo, moveVars
<1>11. ASSUME NEW g \in Ghosts, GhostCharges(g) \/ GhostPauses(g) \/ GhostStumbles(g)
       PROVE  NearTargets'
  BY <1>0, <1>2, <1>11 DEF GhostCharges, GhostPauses, GhostStumbles, GhostPlays, GoTo
<1>12. ASSUME NEW g \in Ghosts, GhostMeetsObstacle(g) \/ GhostMoves(g) PROVE NearTargets'
  <2>1. pc'[g] = "check" /\ \A u \in Threads : u # g => pc'[u] = pc[u]
    BY <1>0, <1>12 DEF GhostMeetsObstacle, GhostMoves, GoTo
  <2>2. \E c : EndMove(g, c)
    BY <1>12 DEF GhostMeetsObstacle, GhostMoves
  <2>3. \A u \in Threads : u # g => pos'[u] = pos[u] /\ target'[u] = target[u]
    BY <1>0, <2>2 DEF EndMove, MoveType
  <2>4. QED
    BY <1>2, <2>1, <2>3
<1>13. QED
  BY <1>0, <1>1, <1>3, <1>4, <1>5, <1>6, <1>8, <1>9, <1>10, <1>11, <1>12
     DEF Next, PacReads, PacRuns, GhostRuns, GameRuns, LevelOver, vars, levelVars, moveVars,
         GhostRushes, GhostScansOn, GhostStopsShort, GhostSpotsPac, Scanning,
         GameStops, GameUnloads, handle_shutdown

----------------------------------------------------------------------------
(* How the pacman fares. *)

LEMMA EndsStep == IInv /\ EndsDeadOrGone /\ [Next]_vars => EndsDeadOrGone'
<1> SUFFICES ASSUME IInv, EndsDeadOrGone, [Next]_vars, pc'[Pac] = "done", alive'
             PROVE  result' = "NEXT_LEVEL"
  BY DEF EndsDeadOrGone, Gone
<1> USE Cast DEF EndsDeadOrGone, Gone
<1>0. /\ TypeOK /\ PacType /\ pc \in [Threads -> Labels] /\ alive
  BY DeadForGood DEF IInv, TypeOK, vars
<1>1. CASE pc[Pac] = "done" /\ UNCHANGED result
  BY <1>0, <1>1
<1>2. CASE PacChecks \/ PacLeavesByPortal
  BY <1>0, <1>2 DEF PacChecks, PacLeavesByPortal, PacReturns, GoTo
<1>3. ASSUME PacReads PROVE FALSE
  <2>1. ASSUME NEW c \in Commands, PacAims(c) PROVE FALSE
    BY <1>0, <2>1 DEF PacAims, Aim, GoTo
  <2>2. QED
    BY <1>0, <1>3, <2>1
       DEF PacReads, PacQuits, PacFindsItselfDead, PacWaits, PacCommanded, GoTo
<1>4. CASE PacEntersPortal \/ PacMeetsWall \/ PacMeetsGhost \/ PacMoves
  BY <1>0, <1>4 DEF PacEntersPortal, PacMeetsWall, PacMeetsGhost, PacMoves, GoTo
<1>5. ASSUME NEW t \in Threads, LockFirst(t) \/ LockSecond(t) \/ HangOnLock(t)
      PROVE  pc[Pac] = "done" /\ UNCHANGED result
  BY <1>0, <1>5 DEF LockFirst, LockSecond, HangOnLock, GoTo, pacVars
<1>6. ASSUME NEW g \in Ghosts, GhostRuns(g) PROVE pc[Pac] = "done" /\ UNCHANGED result
  <2>1. CASE GhostAims(g) \/ GhostRushes(g)
    BY <1>0, <2>1 DEF GhostAims, GhostRushes, GhostPlays, Aim, GoTo, pacVars
  <2>2. CASE \/ GhostLeaves(g) \/ GhostWaits(g) \/ GhostCharges(g) \/ GhostPauses(g)
             \/ GhostStumbles(g) \/ GhostScansOn(g) \/ GhostStopsShort(g) \/ GhostChecks(g)
    BY <1>0, <2>2
       DEF GhostLeaves, GhostWaits, GhostCharges, GhostPauses, GhostStumbles, GhostPlays,
           GhostScansOn, GhostStopsShort, GhostChecks, GoTo, pacVars
  <2>3. CASE GhostSpotsPac(g) \/ GhostMeetsObstacle(g) \/ GhostMoves(g)
    BY <1>0, <2>3 DEF GhostSpotsPac, GhostMeetsObstacle, GhostMoves, GoTo, pacVars
  <2>4. QED
    BY <1>5, <1>6, <2>1, <2>2, <2>3 DEF GhostRuns
<1>7. CASE GameRuns \/ handle_shutdown \/ UNCHANGED vars
  BY <1>0, <1>1, <1>7
     DEF GameRuns, GameStops, GameUnloads, handle_shutdown, vars, levelVars, pacVars
<1>8. QED
  BY <1>0, <1>1, <1>2, <1>3, <1>4, <1>5, <1>6, <1>7
     DEF Next, PacRuns, PacReads, LevelOver

LEMMA CInvariance == ASSUME NoCharge PROVE Spec => []CInv
<1>1. Init => CInv
  BY InitInv, NearInit DEF CInv
<1>2. CInv /\ [Next]_vars => CInv'
  BY StepInv, NearStep, EndsStep DEF CInv
<1>3. QED
  BY <1>1, <1>2, PTL DEF Spec

\* Once it plays no more its fate is settled, but for the end of a last move.
LEMMA FateSettled ==
  ASSUME CInv, Next, ~InPlay
  PROVE  /\ ~InPlay' /\ Fate # "playing"
         /\ Fate' = Fate \/ (Fate = "dying" /\ Fate' = "lost")
<1> USE DEF Fate
<1>0. IInv /\ PacType /\ EndsDeadOrGone /\ ~InPlay'
  BY OutOfPlayForGood DEF CInv, IInv, TypeOK
<1>1. CASE alive
  <2>1. Gone
    BY <1>0, <1>1 DEF InPlay, EndsDeadOrGone, Gone
  <2>2. alive'
    BY <1>0, <1>1, <2>1, GoneIsSafe
  <2>3. QED
    BY <1>0, <1>1, <2>2
<1>2. CASE ~alive
  <2>1. ~alive'
    BY <1>0, <1>2, DeadForGood DEF PacType
  <2>2. ASSUME pc[Pac] \notin OnTheMove PROVE pc'[Pac] \notin OnTheMove
    <3>1. CASE pc[Pac] = "portal"
      BY <1>0, <3>1, GoneForGood DEF OnTheMove
    <3>2. CASE pc[Pac] # "portal"
      BY <1>0, <1>2, <2>2, <3>2, DeadRest DEF OnTheMove, Moving, Dead, Rest
    <3>3. QED
      BY <3>1, <3>2
  <2>3. QED
    BY <1>0, <1>2, <2>1, <2>2 DEF OnTheMove
<1>3. QED
  BY <1>1, <1>2

----------------------------------------------------------------------------
(* Every step is a step of Chase or leaves what Chase sees. *)

Seen == <<pos, dots, points, Fate>>

\* What is known when a move is made: it goes to a cell next to the old one, and
\* what was read there still stands.
LEMMA MoveIsKnown ==
  ASSUME NoCharge, CInv, NEW t \in Threads, pc[t] = "act"
  PROVE  /\ target[t] \in Near[pos[t]] /\ target[t] \in Cells /\ target[t] # pos[t]
         /\ seen[t] = content[target[t]]
         /\ target[t] \in Walls <=> seen[t] = "X"
BY Cast
   DEF CInv, IInv, TypeOK, MoveType, LocksHeld, NearTargets, OnTheMove, PlainMovesMove,
       PlainMove, NobodyCharges, WallsStand

\* While the pacman plays, whoever is on a cell is to be seen there.
LEMMA FreeIsFree ==
  ASSUME NoCharge, CInv, InPlay, NEW c \in Cells
  PROVE  /\ content[c] # "M" /\ c # pos[Pac] => Rules!Nobody(c)
         /\ content[c] = "P" <=> c = pos[Pac]
BY DEF CInv, IInv, BoardConsistent, Rules!Nobody

LEMMA SimInit == Init => Rules!Init
BY Cast DEF Init, LevelInit, Fate, InPlay, Rules!Init

\* A step that moves nobody and takes no dot: the pacman may escape or be lost by it.
LEMMA SimQuiet ==
  ASSUME NoCharge, CInv, Next, UNCHANGED <<pos, dots, points>>
  PROVE  UNCHANGED Seen \/ Rules!Next
<1> USE Cast DEF Seen
<1>0. /\ IInv /\ TypeOK /\ MoveType /\ PacType /\ pc \in [Threads -> Labels]
      /\ \A g \in Ghosts : pc[g] # "scan"
  BY DEF CInv, IInv, TypeOK, ChargeKnown, NobodyCharges, Dirs
<1>1. CASE ~InPlay
  <2>1. UNCHANGED Seen \/ Rules!PacLastMove
    BY <1>1, FateSettled DEF Rules!PacLastMove
  <2>2. QED
    BY <2>1 DEF Rules!Next
<1>2. CASE InPlay /\ PacEntersPortal
  <2>1. target[Pac] \in Near[pos[Pac]] /\ target[Pac] \in Portals
    BY <1>2, MoveIsKnown DEF PacEntersPortal, PacActing
  <2>2. Fate = "playing" /\ Fate' = "escaped"
    BY <1>0, <1>2 DEF PacEntersPortal, GoTo, Fate, InPlay, pacVars
  <2>3. target[Pac] \notin Walls
    BY <2>1, LevelAssumption
  <2>4. Rules!PacEscapes
    BY <2>1, <2>2, <2>3 DEF Rules!PacEscapes, Rules!Playing, Rules!Open
  <2>5. QED
    BY <2>4 DEF Rules!Next
<1>3. CASE InPlay /\ ~PacEntersPortal
  <2>1. InPlay' \/ (~alive' /\ pc'[Pac] = "done")
    <3>1. CASE PacReads
      BY <1>0, <1>3, <3>1
         DEF PacReads, PacQuits, PacFindsItselfDead, PacWaits, PacAims, Aim, PacReturns,
             GoTo, InPlay, pacVars
    <3>2. CASE PacRuns
      BY <1>0, <1>3, <3>2
         DEF PacRuns, PacChecks, LockFirst, LockSecond, PacMeetsWall, PacMeetsGhost,
             PacMoves, PacLeavesByPortal, PacReturns, GoTo, InPlay, pacVars
    <3>3. ASSUME NEW t \in Threads, HangOnLock(t) PROVE InPlay'
      BY <1>0, <1>3, <3>3 DEF HangOnLock, GoTo, InPlay, pacVars
    <3>4. ASSUME NEW g \in Ghosts, GhostRuns(g) PROVE InPlay'
      <4>1. pc'[Pac] = pc[Pac]
        BY <1>0, <3>4
           DEF GhostRuns, GhostLeaves, GhostWaits, GhostCharges, GhostPauses, GhostStumbles,
               GhostAims, GhostRushes, GhostScansOn, GhostStopsShort, GhostSpotsPac,
               LockFirst, LockSecond, GhostMeetsObstacle, GhostMoves, GhostChecks, Aim, GoTo
      <4>2. ~GhostMoves(g)
        BY <1>0, MoveIsKnown DEF GhostMoves, EndMove, MoveType
      <4>3. alive' = alive
        BY <1>0, <3>4, <4>2
           DEF GhostRuns, GhostLeaves, GhostWaits, GhostCharges, GhostPauses, GhostStumbles,
               GhostPlays, GhostAims, GhostRushes, GhostScansOn, GhostStopsShort,
               GhostSpotsPac, Scanning, LockFirst, LockSecond, GhostMeetsObstacle,
               GhostChecks, pacVars
      <4>4. QED
        BY <1>3, <4>1, <4>3 DEF InPlay
    <3>5. CASE GameRuns \/ handle_shutdown \/ LevelOver
      BY <1>3, <3>5
         DEF GameRuns, GameStops, GameUnloads, handle_shutdown, LevelOver, vars, levelVars, InPlay,
             pacVars
    <3>6. QED
      BY <3>1, <3>2, <3>3, <3>4, <3>5 DEF Next
  <2>2. UNCHANGED Seen \/ Rules!PacIsLost
    BY <1>3, <2>1 DEF Fate, InPlay, Rules!PacIsLost, Rules!Playing
  <2>3. QED
    BY <2>2 DEF Rules!Next
<1>4. QED
  BY <1>1, <1>2, <1>3

\* The pacman comes to its target: a move, or its last.
LEMMA SimPacMoves ==
  ASSUME NoCharge, CInv, PacMoves
  PROVE  Rules!Next
<1> USE Cast
<1>0. /\ TypeOK /\ PacType /\ pc \in [Threads -> Labels] /\ pc[Pac] = "act"
      /\ Next
  BY DEF CInv, IInv, TypeOK, PacMoves, PacActing, Next, PacRuns
<1>1. /\ target[Pac] \in Near[pos[Pac]] /\ target[Pac] \in Cells /\ target[Pac] # pos[Pac]
      /\ target[Pac] \notin Walls /\ target[Pac] \notin Portals
      /\ content[target[Pac]] # "M"
  BY <1>0, MoveIsKnown DEF PacMoves
<1>2. Rules!PacComes(target[Pac])
  <2>1. points' = points + (IF target[Pac] \in dots THEN 1 ELSE 0)
    BY <1>0 DEF PacMoves, PacType
  <2>2. dots' = dots \ {target[Pac]} /\ pos' = [pos EXCEPT ![Pac] = target[Pac]]
    BY DEF PacMoves, EndMove
  <2>3. QED
    BY <1>1, <2>1, <2>2 DEF Rules!PacComes, Rules!Open, Rules!Goes
<1>3. pc'[Pac] = "check" /\ alive' = alive
  BY <1>0 DEF PacMoves, GoTo
<1>4. CASE InPlay
  <2>1. Rules!Nobody(target[Pac])
    BY <1>1, <1>4, FreeIsFree
  <2>2. Fate = "playing" /\ Fate' = "playing"
    BY <1>3, <1>4 DEF Fate, InPlay
  <2>3. Rules!PacMoves(target[Pac])
    BY <1>2, <2>1, <2>2 DEF Rules!PacMoves, Rules!Playing
  <2>4. QED
    BY <1>1, <2>3 DEF Rules!Next
<1>5. CASE ~InPlay
  <2>1. Fate = "dying" /\ Fate' = "lost"
    BY <1>0, <1>3, <1>5 DEF Fate, InPlay
  <2>2. Rules!PacLastMove
    BY <1>1, <1>2, <2>1 DEF Rules!PacLastMove
  <2>3. QED
    BY <2>2 DEF Rules!Next
<1>6. QED
  BY <1>4, <1>5

\* A ghost comes to its target: a free cell, or the pacman's.
LEMMA SimGhostMoves ==
  ASSUME NoCharge, CInv, NEW g \in Ghosts, GhostMoves(g)
  PROVE  Rules!Next
<1> USE Cast
<1>0. /\ IInv /\ TypeOK /\ PacType /\ MoveType /\ pc \in [Threads -> Labels]
      /\ pc[g] = "act" /\ dir[g] = "none" /\ Next
  BY DEF CInv, IInv, TypeOK, NobodyCharges, GhostMoves, Next, GhostRuns
<1>1. /\ target[g] \in Near[pos[g]] /\ target[g] \in Cells /\ target[g] # pos[g]
      /\ target[g] \notin Walls
      /\ content[target[g]] # "M" /\ seen[g] = content[target[g]]
  BY <1>0, MoveIsKnown DEF GhostMoves
<1>2. /\ target[g] \in Rules!Open(g) /\ Rules!Goes(g, target[g])
      /\ UNCHANGED <<dots, points>> /\ pc'[Pac] = pc[Pac]
  BY <1>0, <1>1 DEF GhostMoves, EndMove, GoTo, Rules!Open, Rules!Goes
<1>3. CASE ~InPlay
  <2>1. Fate # "playing" /\ (alive \/ alive' = alive)
    BY <1>0, <1>3, FateSettled DEF GhostMoves, PacType
  <2>2. alive' = alive
    BY <1>0, <1>3, <2>1, GoneIsSafe DEF CInv, EndsDeadOrGone, Gone, InPlay
  <2>3. Fate' = Fate
    BY <1>2, <1>3, <2>2 DEF Fate, InPlay
  <2>4. Rules!GhostRoams(g, target[g])
    BY <1>2, <2>1, <2>3 DEF Rules!GhostRoams, Rules!Playing
  <2>5. QED
    BY <1>1, <2>4 DEF Rules!Next
<1>4. CASE InPlay /\ target[g] = pos[Pac]
  <2>1. ~alive'
    BY <1>0, <1>1, <1>4, FreeIsFree DEF GhostMoves, PacAt, InPlay
  <2>2. Fate = "playing" /\ Fate' \in {"dying", "lost"}
    BY <1>4, <2>1 DEF Fate, InPlay
  <2>3. Rules!GhostCatches(g)
    BY <1>2, <1>4, <2>2 DEF Rules!GhostCatches, Rules!Playing
  <2>4. QED
    BY <2>3 DEF Rules!Next
<1>5. CASE InPlay /\ target[g] # pos[Pac]
  <2>1. Rules!Nobody(target[g])
    BY <1>1, <1>5, FreeIsFree
  <2>2. Fate = "playing" /\ Fate' = "playing"
    BY <1>0, <1>2, <1>5 DEF GhostMoves, PacAt, Fate, InPlay
  <2>3. Rules!GhostMoves(g, target[g])
    BY <1>2, <2>1, <2>2 DEF Rules!GhostMoves, Rules!Playing
  <2>4. QED
    BY <1>1, <2>3 DEF Rules!Next
<1>6. QED
  BY <1>3, <1>4, <1>5

LEMMA SimStep ==
  ASSUME NoCharge, CInv, [Next]_vars
  PROVE  UNCHANGED Seen \/ Rules!Next
<1> USE Cast
<1>0. MoveType
  BY DEF CInv, IInv, TypeOK
<1>1. CASE UNCHANGED vars
  BY <1>1 DEF vars, levelVars, boardVars, moveVars, pacVars, Seen, Fate, InPlay
<1>2. CASE PacMoves
  BY <1>2, SimPacMoves
<1>3. ASSUME NEW g \in Ghosts, GhostMoves(g) PROVE Rules!Next
  BY <1>3, SimGhostMoves
<1>4. CASE Next /\ ~PacMoves /\ ~ \E g \in Ghosts : GhostMoves(g)
  <2>1. UNCHANGED <<dots, points>>
    BY <1>4, DotWriters
  <2>2. UNCHANGED pos
    <3>1. CASE \E t \in Threads : EndMove(t, pos[t])
      BY <1>0, <3>1 DEF EndMove, MoveType
    <3>2. CASE \E g \in Ghosts : GhostSpotsPac(g)
      BY <3>2 DEF GhostSpotsPac, moveVars
    <3>3. QED
      BY <1>4, <3>1, <3>2, Writers
         DEF PacEntersPortal, PacMeetsWall, PacMeetsGhost, GhostMeetsObstacle
  <2>3. QED
    BY <1>4, <2>1, <2>2, SimQuiet
<1>5. QED
  BY <1>1, <1>2, <1>3, <1>4

----------------------------------------------------------------------------
(* The theorem. *)

\* Whatever the threads do to each other, a level without charges is a game of
\* Chase: each of its steps is one of Chase's or leaves what Chase sees alone.
THEOREM LevelPlaysByTheRules ==
  ASSUME NoCharge
  PROVE  Spec => PlaysByTheRules
<1>1. CInv /\ [Next]_vars => [Rules!Next]_<<pos, dots, points, Fate>>
  BY SimStep DEF Seen
<1>2. QED
  BY <1>1, SimInit, CInvariance, PTL DEF Spec, PlaysByTheRules, Rules!Spec
=============================================================================
