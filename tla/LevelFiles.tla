----------------------------- MODULE LevelFiles -----------------------------
(***************************************************************************)
(* How the server gets its levels (Server/src/parse.c) and each game its   *)
(* copy of one (level_copy and load_level of Server/src/board.c).          *)
(*                                                                         *)
(* handle_files reads the directory in whatever order readdir gives it and *)
(* parses every .lvl file, line by line, with the monster and pacman files *)
(* it names.  A line is a record that says what it is; what is in memory   *)
(* that malloc returned and nobody wrote is Undefined.                     *)
(***************************************************************************)
EXTENDS Integers, Sequences, FiniteSets, Functions

CONSTANTS
  Disks,      \* what the directory may hold: functions from names to lines
  Extension,  \* what follows the first dot of a file name, "none" without a dot
  Letters,    \* the characters of a matrix and the commands
  MaxMoves,   \* MAX_MOVES, the commands an actor has room for
  MaxGhosts,  \* MAX_GHOSTS, the monsters a level has room for the names of
  NoFile,     \* the content of a file that cannot be opened
  Undefined

Numbers == Int \cup {Undefined}

Names == DOMAIN Extension

\* Monsters and pacmen are not in files that are read as levels.
ActorNames == {name \in Names : Extension[name] # ".lvl"}

LevelLines ==
  [is : {"DIM"}, w : Nat, h : Nat] \cup [is : {"TEMPO"}, n : Int] \cup [is : {"#"}]
  \cup [is : {"PAC"}, file : ActorNames] \cup [is : {"MON"}, files : Seq(ActorNames)]
  \cup [is : {"row"}, cells : Seq(Letters)]
ActorLines ==
  [is : {"PASSO"}, n : Int] \cup [is : {"POS"}, first : Int, second : Int] \cup [is : {"#"}]
  \cup [is : {"move"}, op : Letters, n : Numbers]

Cells == [content : Letters \cup {"o", "P", "M"}, has_dot : BOOLEAN, has_portal : BOOLEAN]
Moves == [op : Letters, left : Numbers, turns : {1}]
Actors == [file : Names \cup {""}, x : Numbers, y : Numbers, passo : Numbers,
           won : {FALSE, Undefined}, moves : Seq(Moves)]
Levels == [name : Names \cup {""}, w : Nat, h : Nat, tempo : Int, filled : Nat,
           cells : Seq(Cells \cup {Undefined}), pacmans : Seq(Actors), ghosts : Seq(Actors)]

ASSUME FilesAssumption ==
  /\ MaxMoves \in Nat \ {0} /\ MaxGhosts \in Nat \ {0}
  /\ Undefined \notin Int \cup BOOLEAN \cup Cells \cup Levels
  /\ IsFiniteSet(Names)
  /\ \A d \in Disks :
       /\ DOMAIN d \subseteq Names
       /\ \A name \in DOMAIN d :
            \/ d[name] = NoFile
            \/ d[name] \in Seq(IF Extension[name] = ".lvl" THEN LevelLines ELSE ActorLines)

VARIABLES
  disk,    \* the files
  unread,  \* what readdir has yet to return: .lvl entries and names without a dot,
           \* the others are passed over
  levels,  \* levels[0 .. numLevels - 1]
  pc,      \* "dir", "lines" or "actor" while loading, then "loaded", "failed";
           \* "undefined" after a read or write outside what was allocated
  lvl,     \* the level being parsed
  at,      \* the line of its file, i of parseLvl
  tok,     \* the name in a MON line that strtok_r has come to
  actor,   \* the monster or pacman being parsed
  line,    \* the line of its file, i of parseMonster or parsePacman
  board    \* the copy a game_thread plays, Undefined before the first

parsed == <<lvl, at, tok, actor, line>>
vars == <<disk, unread, levels, pc, parsed, board>>

\* A file name without an entry cannot be opened either.
Text(name) == IF name \in DOMAIN disk THEN disk[name] ELSE NoFile

NewLevel(name) == [name |-> name, w |-> 0, h |-> 0, tempo |-> 0, filled |-> 0,
                   cells |-> <<>>, pacmans |-> <<>>, ghosts |-> <<>>]
NoLevel == NewLevel("")

\* malloc: whatever the file does not say stays Undefined, and so does a
\* pacman's won.
NewActor(file) == [file |-> file, x |-> Undefined, y |-> Undefined, passo |-> Undefined,
                   won |-> Undefined, moves |-> <<>>]
NoActor == NewActor("")

Init ==
  /\ disk \in Disks
  /\ unread = {name \in DOMAIN disk : Extension[name] \in {".lvl", "none"}}
  /\ levels = <<>>
  /\ pc = "dir"
  /\ lvl = NoLevel /\ at = 1 /\ tok = 1 /\ actor = NoActor /\ line = 1
  /\ board = Undefined

----------------------------------------------------------------------------
(* handle_files. *)

ParsesNothing == lvl' = NoLevel /\ at' = 1 /\ tok' = 1 /\ actor' = NoActor /\ line' = 1

\* unload_allLevels, then exit
GiveUp == pc' = "failed" /\ levels' = <<>> /\ ParsesNothing

Breaks == pc' = "undefined" /\ UNCHANGED <<levels, parsed>>

\* strchr finds no dot, and strcmp reads from NULL.
Stumbles(name) ==
  /\ pc = "dir" /\ Extension[name] = "none"
  /\ Breaks
  /\ UNCHANGED <<disk, unread, board>>

\* parseLvl opens the file
OpensLevel(name) ==
  /\ pc = "dir" /\ Extension[name] = ".lvl"
  /\ unread' = unread \ {name}
  /\ \/ Text(name) = NoFile /\ GiveUp
     \/ /\ Text(name) # NoFile
        /\ lvl' = NewLevel(name)
        /\ pc' = "lines"
        /\ UNCHANGED <<levels, at, tok, actor, line>>
  /\ UNCHANGED <<disk, board>>

\* A realloc fails: the array has no NULL at its end yet, and unload_allLevels
\* runs past it unless there is no array.
OutOfMemory ==
  /\ pc = "dir"
  /\ \/ levels = <<>> /\ GiveUp
     \/ levels # <<>> /\ Breaks
  /\ UNCHANGED <<disk, unread, board>>

EndsDirectory ==
  /\ pc = "dir" /\ unread = {}
  /\ pc' = "loaded"
  /\ UNCHANGED <<disk, unread, levels, parsed, board>>

----------------------------------------------------------------------------
(* parseLvl, one line after the other. *)

Line == Text(lvl.name)[at]
Reads(kind) == pc = "lines" /\ at \in DOMAIN Text(lvl.name) /\ Line.is = kind
NextLine == at' = at + 1 /\ UNCHANGED <<pc, levels, tok, actor, line>>

ReadsDim ==
  /\ Reads("DIM")
  /\ lvl' = [lvl EXCEPT !.w = Line.w, !.h = Line.h,
                        !.cells = [i \in 1 .. Line.w * Line.h |-> Undefined]]
  /\ NextLine
  /\ UNCHANGED <<disk, unread, board>>

ReadsTempo ==
  /\ Reads("TEMPO")
  /\ lvl' = [lvl EXCEPT !.tempo = Line.n]
  /\ NextLine
  /\ UNCHANGED <<disk, unread, board>>

SkipsComment ==
  /\ Reads("#")
  /\ NextLine
  /\ UNCHANGED <<disk, unread, lvl, board>>

CellOf(char) == [content |-> IF char = "@" THEN "o" ELSE char,
                 has_dot |-> char = "o", has_portal |-> char = "@"]

\* Mutant of ReadsRow: matrix_index starts again with every row.
ReadsRowAtTop ==
  /\ Reads("row")
  /\ lvl' = [lvl EXCEPT !.cells = [i \in DOMAIN @ |->
                IF i \in DOMAIN Line.cells THEN CellOf(Line.cells[i]) ELSE @[i]]]
  /\ NextLine
  /\ UNCHANGED <<disk, unread, board>>

\* The next width cells are those of the row, which is read beyond its end if it
\* is too short.
Filled(level, row) ==
  LET Char(k) == IF k \in DOMAIN row THEN CellOf(row[k]) ELSE Undefined
  IN [i \in DOMAIN level.cells |->
        IF i \in level.filled + 1 .. level.filled + level.w
        THEN Char(i - level.filled) ELSE level.cells[i]]

\* A row too many, or one before DIM's, is written outside the matrix.
ReadsRow ==
  /\ Reads("row")
  /\ \/ lvl.filled + lvl.w > Len(lvl.cells) /\ Breaks
     \/ /\ lvl.filled + lvl.w <= Len(lvl.cells)
        /\ lvl' = [lvl EXCEPT !.filled = lvl.filled + lvl.w, !.cells = Filled(lvl, Line.cells)]
        /\ NextLine
  /\ UNCHANGED <<disk, unread, board>>

----------------------------------------------------------------------------
(* Monsters and pacmen: parseMonster and parsePacman. *)

OpensActor(name) ==
  \/ Text(name) = NoFile /\ GiveUp
  \/ /\ Text(name) # NoFile
     /\ actor' = NewActor(name)
     /\ pc' = "actor"
     /\ UNCHANGED <<levels, lvl, at, tok, line>>

ReadsPac ==
  /\ Reads("PAC")
  /\ OpensActor(Line.file)
  /\ UNCHANGED <<disk, unread, board>>

\* Mutant of ReadsMon: a monster whose file is missing is left out.
ReadsMonLeniently ==
  /\ Reads("MON") /\ tok \in DOMAIN Line.files
  /\ IF Text(Line.files[tok]) = NoFile
     THEN tok' = tok + 1 /\ UNCHANGED <<levels, pc, lvl, at, actor, line>>
     ELSE OpensActor(Line.files[tok])
  /\ UNCHANGED <<disk, unread, board>>

\* strtok_r: the monsters named in the line, one by one
ReadsMon ==
  /\ Reads("MON") /\ tok \in DOMAIN Line.files
  /\ OpensActor(Line.files[tok])
  /\ UNCHANGED <<disk, unread, board>>

EndsMon ==
  /\ Reads("MON") /\ tok \notin DOMAIN Line.files
  /\ tok' = 1 /\ at' = at + 1
  /\ UNCHANGED <<disk, unread, levels, pc, lvl, actor, line, board>>

\* One line of a .m or .p file.  The first number of a POS goes to pos_x and the
\* second to pos_y; the number after a command goes to turns_left; turns is 1.
ReadActorLine(a, l) ==
  CASE l.is = "PASSO" -> [a EXCEPT !.passo = l.n]
    [] l.is = "POS"   -> [a EXCEPT !.x = l.first, !.y = l.second]
    [] l.is = "#"     -> a
    [] l.is = "move"  ->
         [a EXCEPT !.moves = Append(@, [op |-> l.op, left |-> l.n, turns |-> 1])]

\* A command too many is written past the end of its array.
ReadsActorLine ==
  /\ pc = "actor" /\ line \in DOMAIN Text(actor.file)
  /\ LET l == Text(actor.file)[line]
         Full == l.is = "move" /\ Len(actor.moves) = MaxMoves
     IN \/ Full /\ Breaks
        \/ /\ ~Full
           /\ actor' = ReadActorLine(actor, l)
           /\ line' = line + 1
           /\ UNCHANGED <<pc, levels, lvl, at, tok>>
  /\ UNCHANGED <<disk, unread, board>>

AddsPacman ==
  /\ Line.is = "PAC"
  /\ lvl' = [lvl EXCEPT !.pacmans = Append(@, actor)]
  /\ at' = at + 1 /\ UNCHANGED tok

AddsGhost ==
  /\ Line.is = "MON"
  /\ lvl' = [lvl EXCEPT !.ghosts = Append(@, actor)]
  /\ tok' = tok + 1 /\ UNCHANGED at

\* The actor joins the level.  The name of a monster too many is written past the
\* end of ghosts_files.
EndsActor ==
  /\ pc = "actor" /\ line \notin DOMAIN Text(actor.file)
  /\ LET Full == Line.is = "MON" /\ Len(lvl.ghosts) = MaxGhosts
     IN \/ Full /\ Breaks
        \/ /\ ~Full
           /\ AddsPacman \/ AddsGhost
           /\ pc' = "lines"
           /\ actor' = NoActor /\ line' = 1
           /\ UNCHANGED levels
  /\ UNCHANGED <<disk, unread, board>>

----------------------------------------------------------------------------
(* The end of parseLvl. *)

IsFree(cell) == cell # Undefined /\ cell.content = "o" /\ cell.has_dot
FreeSpots(cells) == {i \in DOMAIN cells : IsFree(cells[i])}

\* Mutant of FirstFreeSpot: one past the last cell if there is none.
FirstFreeSpotOrEnd(cells) ==
  IF FreeSpots(cells) = {} THEN Len(cells) + 1
  ELSE CHOOSE i \in FreeSpots(cells) : \A j \in FreeSpots(cells) : i <= j

\* findFirstFreeSpot: the first cell with a dot, the first of all if none has
FirstFreeSpot(cells) ==
  IF FreeSpots(cells) = {} THEN 1
  ELSE CHOOSE i \in FreeSpots(cells) : \A j \in FreeSpots(cells) : i <= j

Draw(cells, i, char) ==
  [j \in DOMAIN cells |-> IF j = i /\ cells[j] # Undefined
                          THEN [cells[j] EXCEPT !.content = char] ELSE cells[j]]

UserAt(x, y) ==
  [file |-> "", x |-> x, y |-> y, passo |-> 0, won |-> FALSE, moves |-> <<>>]

\* Mutant of UserPacman: row and column are mixed up.
UserPacmanAskew(level) ==
  LET spot == FirstFreeSpot(level.cells)
  IN [level EXCEPT !.pacmans = <<UserAt((spot - 1) \div level.w, (spot - 1) % level.w)>>,
                   !.cells = Draw(@, spot, "P")]

\* userPacman: a pacman for the client, drawn at once
UserPacman(level) ==
  LET spot == FirstFreeSpot(level.cells)
  IN [level EXCEPT !.pacmans = <<UserAt((spot - 1) % level.w, (spot - 1) \div level.w)>>,
                   !.cells = Draw(@, spot, "P")]

\* userPacman divides by the width, which is 0 without DIM.
FinishesLevel ==
  /\ pc = "lines" /\ at \notin DOMAIN Text(lvl.name)
  /\ \/ lvl.pacmans = <<>> /\ lvl.cells = <<>> /\ Breaks
     \/ /\ lvl.pacmans # <<>> \/ lvl.cells # <<>>
        /\ levels' = Append(levels, IF lvl.pacmans = <<>> THEN UserPacman(lvl) ELSE lvl)
        /\ pc' = "dir"
        /\ ParsesNothing
  /\ UNCHANGED <<disk, unread, board>>

----------------------------------------------------------------------------
(* A game's copy of a level. *)

Index(level, a) == a.y * level.w + a.x + 1

\* load_level: the pacman, then the ghosts, over whatever is there
LoadLevel(level) ==
  LET Shows(i) ==
        IF \E g \in DOMAIN level.ghosts : Index(level, level.ghosts[g]) = i THEN "M"
        ELSE IF Index(level, level.pacmans[1]) = i THEN "P" ELSE level.cells[i].content
  IN [level EXCEPT
        !.cells = [i \in DOMAIN @ |-> [level.cells[i] EXCEPT !.content = Shows(i)]]]

\* What is drawn is in the matrix, and every cell of that has been filled.
Loadable(level) ==
  /\ \A a \in Range(level.ghosts) \cup {level.pacmans[1]} :
       a.x # Undefined /\ a.y # Undefined /\ Index(level, a) \in DOMAIN level.cells
  /\ Undefined \notin Range(level.cells)

\* level_copy and load_level of a game that comes to level i
GameLoads(i) ==
  /\ pc = "loaded" /\ i \in DOMAIN levels
  /\ \/ Loadable(levels[i]) /\ board' = LoadLevel(levels[i]) /\ UNCHANGED <<pc, levels, parsed>>
     \/ ~Loadable(levels[i]) /\ Breaks /\ UNCHANGED board
  /\ UNCHANGED <<disk, unread>>

Stopped == pc \in {"loaded", "failed", "undefined"} /\ UNCHANGED vars

ParsesLine ==
  \/ ReadsDim \/ ReadsTempo \/ SkipsComment \/ ReadsRow
  \/ ReadsPac \/ ReadsMon \/ EndsMon
ParsesActor == ReadsActorLine \/ EndsActor

Next ==
  \/ \E name \in unread : Stumbles(name) \/ OpensLevel(name)
  \/ OutOfMemory \/ EndsDirectory
  \/ ParsesLine \/ ParsesActor \/ FinishesLevel
  \/ \E i \in DOMAIN levels : GameLoads(i)
  \/ Stopped

Spec == Init /\ [][Next]_vars

----------------------------------------------------------------------------
(* What the files are meant to be, from the comments in levels/1.lvl and   *)
(* levels/1.m.                                                             *)

\* The lines of a kind, and how many of them come before line i.
LinesOf(name, kind) == {i \in DOMAIN Text(name) : Text(name)[i].is = kind}
Before(name, kind, i) == Cardinality({j \in LinesOf(name, kind) : j < i})
TheLine(name, kind) == Text(name)[CHOOSE i \in LinesOf(name, kind) : TRUE]
Once(name, kind) == \E i \in DOMAIN Text(name) : LinesOf(name, kind) = {i}

LevelNames == {name \in DOMAIN disk : Extension[name] = ".lvl"}

\* PASSO and POS once, a command at least and not more than there is room for, a
\* T with a number.
GoodActor(name) ==
  /\ Text(name) # NoFile
  /\ Once(name, "PASSO") /\ Once(name, "POS")
  /\ Cardinality(LinesOf(name, "move")) \in 1 .. MaxMoves
  /\ \A i \in LinesOf(name, "move") : Text(name)[i].op = "T" => Text(name)[i].n \in Nat \ {0}
StartOf(name) == TheLine(name, "POS")

\* The monsters a level names, line and word, and their order.
Mentions(name) ==
  UNION {{<<i, k>> : k \in DOMAIN Text(name)[i].files} : i \in LinesOf(name, "MON")}
MonsterAt(name, m) == Text(name)[m[1]].files[m[2]]
EarlierThan(m) == {q \in Nat \X Nat : q[1] < m[1] \/ (q[1] = m[1] /\ q[2] < m[2])}
Mentioned(name, m) == Cardinality({q \in Mentions(name) : q \in EarlierThan(m)})

\* The matrix: the characters of its rows, and the cell each of them is for.
Dim(name) == TheLine(name, "DIM")
Chars(name) ==
  UNION {{<<i, k>> : k \in DOMAIN Text(name)[i].cells} : i \in LinesOf(name, "row")}
CharAt(name, c) == Text(name)[c[1]].cells[c[2]]
CellFor(name, c) == Before(name, "row", c[1]) * Dim(name).w + c[2]
CellOfStart(name, m) ==
  LET start == StartOf(MonsterAt(name, m)) IN start.second * Dim(name).w + start.first + 1

\* DIM once and before the matrix, which has the size it says and at least one
\* dot; no monster in an impossible position, where the position is the one the
\* parser takes from POS (see PosAsDocumented).
GoodLevel(name) ==
  /\ Text(name) # NoFile
  /\ Once(name, "DIM") /\ LinesOf(name, "PAC") = {}
  /\ \A i \in LinesOf(name, "DIM"), j \in LinesOf(name, "row") : i < j
  /\ Cardinality(LinesOf(name, "row")) = Dim(name).h
  /\ \A i \in LinesOf(name, "row") : Len(Text(name)[i].cells) = Dim(name).w
  /\ \A c \in Chars(name) : CharAt(name, c) \in {"X", "o", "@"}
  /\ \E c \in Chars(name) : CharAt(name, c) = "o"
  /\ \A m \in Mentions(name) :
       /\ GoodActor(MonsterAt(name, m))
       /\ StartOf(MonsterAt(name, m)).first \in 0 .. Dim(name).w - 1
       /\ StartOf(MonsterAt(name, m)).second \in 0 .. Dim(name).h - 1
       /\ \A c \in Chars(name) :
            CellFor(name, c) = CellOfStart(name, m) => CharAt(name, c) # "X"
  /\ \A m, q \in Mentions(name) : CellOfStart(name, m) = CellOfStart(name, q) => m = q

\* No monster of the level starts on the first dot.
FirstDotIsFree(name) ==
  \A c \in Chars(name), m \in Mentions(name) :
    CharAt(name, c) = "o" /\ CellFor(name, c) = CellOfStart(name, m) =>
      \E d \in Chars(name) : CharAt(name, d) = "o" /\ CellFor(name, d) < CellFor(name, c)

----------------------------------------------------------------------------
(* What must then hold. *)

\* The variables have their types, and a pacman made for the client stands on a
\* cell of its level, whatever the files hold.
TypeOK ==
  /\ unread \subseteq DOMAIN disk
  /\ levels \in Seq(Levels) /\ lvl \in Levels /\ actor \in Actors
  /\ pc \in {"dir", "lines", "actor", "loaded", "failed", "undefined"}
  /\ at \in Nat \ {0} /\ tok \in Nat \ {0} /\ line \in Nat \ {0}
  /\ board \in Levels \cup {Undefined}
  /\ \A i \in DOMAIN levels : \A p \in Range(levels[i].pacmans) :
       p.won = FALSE => Index(levels[i], p) \in DOMAIN levels[i].cells

\* As slow as the file says, and all its commands in their order.
ActorAsWritten(a) ==
  GoodActor(a.file) =>
    /\ a.passo = TheLine(a.file, "PASSO").n
    /\ Len(a.moves) = Cardinality(LinesOf(a.file, "move"))
    /\ \A i \in LinesOf(a.file, "move") :
         LET m == a.moves[Before(a.file, "move", i) + 1]
         IN m.op = Text(a.file)[i].op /\ m.left = Text(a.file)[i].n

\* The matrix as drawn but for the pacman, the monsters in their order, and the
\* TEMPO, if there is one.
AsWritten(level) ==
  LET name == level.name
  IN /\ level.w = Dim(name).w /\ level.h = Dim(name).h
     /\ Once(name, "TEMPO") => level.tempo = TheLine(name, "TEMPO").n
     /\ Len(level.cells) = level.w * level.h
     /\ \A c \in Chars(name) :
          LET cell == level.cells[CellFor(name, c)]
          IN /\ cell.has_dot = (CharAt(name, c) = "o")
             /\ cell.has_portal = (CharAt(name, c) = "@")
             /\ (cell.content = "X") = (CharAt(name, c) = "X")
     /\ Len(level.ghosts) = Cardinality(Mentions(name))
     /\ \A m \in Mentions(name) :
          LET ghost == level.ghosts[Mentioned(name, m) + 1]
          IN ghost.file = MonsterAt(name, m) /\ ActorAsWritten(ghost)

\* A well-formed level has in memory what its files say, whatever comments and
\* other lines stand in between (parse.c:97-116, 210-291); where its monsters are
\* is the subject of PosAsDocumented and Playable.
LoadedAsWritten ==
  \A i \in DOMAIN levels : GoodLevel(levels[i].name) => AsWritten(levels[i])

\* All or nothing: the games start only when every level file of the directory
\* has been loaded, each once, with every file it names; a failure leaves no
\* level behind (parse.c:341-397, board.c:472-481).
AllOrNothing ==
  /\ pc = "loaded" =>
       /\ Len(levels) = Cardinality(LevelNames)
       /\ {levels[i].name : i \in DOMAIN levels} = LevelNames
       /\ \A name \in LevelNames :
            /\ Text(name) # NoFile
            /\ \A m \in Mentions(name) : Text(MonsterAt(name, m)) # NoFile
            /\ \A i \in LinesOf(name, "PAC") : Text(Text(name)[i].file) # NoFile
  /\ pc = "failed" => levels = <<>>

\* One P, under the pacman, an M under each ghost, nobody on a wall or on another,
\* a pacman that has not won, and a command for every ghost, with at least one
\* play to wait at a T.
CanStart(b) ==
  LET pac == Index(b, b.pacmans[1])
      ghosts == {Index(b, g) : g \in Range(b.ghosts)}
      Showing(char) == {i \in DOMAIN b.cells : b.cells[i].content = char}
  IN /\ Showing("P") = {pac} /\ Showing("M") = ghosts
     /\ \A g, h \in DOMAIN b.ghosts :
          Index(b, b.ghosts[g]) = Index(b, b.ghosts[h]) => g = h
     /\ \A c \in Chars(b.name) :
          CellFor(b.name, c) \in ghosts \cup {pac} => CharAt(b.name, c) # "X"
     /\ b.pacmans[1].won = FALSE
     /\ \A g \in DOMAIN b.ghosts :
          LET moves == b.ghosts[g].moves
          IN moves # <<>> /\ \A k \in DOMAIN moves : moves[k].op = "T" => moves[k].left > 0

\* What a game gets of a well-formed level is what it needs to start
\* (board.c:432-448, 547-577, parse.c:292-313).
Playable ==
  board # Undefined /\ GoodLevel(board.name) /\ FirstDotIsFree(board.name) =>
    CanStart(board)

\* levels/1.m:5, "POS: comando de colocacao inicial do monstro (linha e coluna)":
\* the first number of a monster's POS is its row and the second its column.
PosAsDocumented ==
  \A i \in DOMAIN levels : GoodLevel(levels[i].name) =>
    \A a \in Range(levels[i].ghosts) :
      a.y = StartOf(a.file).first /\ a.x = StartOf(a.file).second
=============================================================================
