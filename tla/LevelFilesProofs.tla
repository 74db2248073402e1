-------------------------- MODULE LevelFilesProofs --------------------------
(***************************************************************************)
(* Theorems about LevelFiles for every directory: whatever the files hold, *)
(* in whatever order readdir returns them, what the parser has of a level  *)
(* is what the lines it has read say, and a game starts from a board that  *)
(* can be played.                                                          *)
(***************************************************************************)
EXTENDS LevelFiles, FiniteSetTheorems, SequenceTheorems, WellFoundedInduction, TLAPS

----------------------------------------------------------------------------
(* The lines of a file. *)

LEMMA LevelText ==
  ASSUME disk \in Disks, NEW name \in LevelNames, Text(name) # NoFile
  PROVE  Text(name) \in Seq(LevelLines)
<1>1. name \in DOMAIN disk /\ Extension[name] = ".lvl"
  BY DEF LevelNames
<1>2. Text(name) = disk[name]
  BY <1>1 DEF Text
<1> QED
  BY <1>1, <1>2, FilesAssumption, Zenon

LEMMA ActorText ==
  ASSUME disk \in Disks, NEW name \in ActorNames, Text(name) # NoFile
  PROVE  Text(name) \in Seq(ActorLines)
<1>1. name \in DOMAIN disk /\ Text(name) = disk[name]
  BY DEF Text
<1>2. Extension[name] # ".lvl"
  BY DEF ActorNames
<1> QED
  BY <1>1, <1>2, FilesAssumption, Zenon

LEMMA LevelNamesFinite ==
  ASSUME disk \in Disks
  PROVE  IsFiniteSet(LevelNames)
<1>1. LevelNames \in SUBSET Names
  BY FilesAssumption, Zenon DEF LevelNames
<1> QED
  BY <1>1, FilesAssumption, FS_Subset, Zenon

\* A text: the lines of a file that could be opened, of whatever sort.
IsText(name) == \E S : Text(name) \in Seq(S)

LEMMA Lines ==
  ASSUME NEW name, IsText(name), NEW kind
  PROVE  /\ DOMAIN Text(name) = 1 .. Len(Text(name)) /\ Len(Text(name)) \in Nat
         /\ IsFiniteSet(LinesOf(name, kind))
         /\ LinesOf(name, kind) \subseteq Nat \ {0}
<1>1. PICK S : Text(name) \in Seq(S)
  BY DEF IsText
<1>2. DOMAIN Text(name) = 1 .. Len(Text(name)) /\ Len(Text(name)) \in Nat
  BY <1>1, LenProperties
<1>3. IsFiniteSet(1 .. Len(Text(name)))
  BY <1>2, FS_Interval
<1>4. LinesOf(name, kind) \in SUBSET (1 .. Len(Text(name)))
  BY <1>2 DEF LinesOf
<1>5. IsFiniteSet(LinesOf(name, kind))
  BY <1>3, <1>4, FS_Subset
<1> QED
  BY <1>2, <1>4, <1>5

\* The lines of a kind that come before line i.
Earlier(name, kind, i) == {j \in LinesOf(name, kind) : j < i}

LEMMA EarlierFinite ==
  ASSUME NEW name, IsText(name), NEW kind, NEW i
  PROVE  /\ IsFiniteSet(Earlier(name, kind, i))
         /\ Before(name, kind, i) = Cardinality(Earlier(name, kind, i))
         /\ Before(name, kind, i) \in Nat
<1>1. Earlier(name, kind, i) \in SUBSET LinesOf(name, kind)
  BY DEF Earlier
<1>2. IsFiniteSet(Earlier(name, kind, i))
  BY <1>1, Lines, FS_Subset
<1> QED
  BY <1>2, FS_CardinalityType, Zenon DEF Before, Earlier

\* One line further there is one more of its kind.
LEMMA BeforeNext ==
  ASSUME NEW name, IsText(name), NEW kind, NEW i \in Nat
  PROVE  Before(name, kind, i + 1) =
           IF i \in LinesOf(name, kind) THEN Before(name, kind, i) + 1
                                        ELSE Before(name, kind, i)
<1>1. LinesOf(name, kind) \subseteq Nat
  BY Lines
<1>2. CASE i \in LinesOf(name, kind)
  <2>1. Earlier(name, kind, i + 1) = Earlier(name, kind, i) \cup {i}
    BY <1>1, <1>2 DEF Earlier
  <2>2. i \notin Earlier(name, kind, i)
    BY DEF Earlier
  <2> QED
    BY <1>2, <2>1, <2>2, EarlierFinite, FS_AddElement
<1>3. CASE i \notin LinesOf(name, kind)
  <2>1. Earlier(name, kind, i + 1) = Earlier(name, kind, i)
    BY <1>1, <1>3 DEF Earlier
  <2> QED
    BY <1>3, <2>1, EarlierFinite
<1> QED
  BY <1>2, <1>3

LEMMA BeforeFirst ==
  ASSUME NEW name, IsText(name), NEW kind
  PROVE  Before(name, kind, 1) = 0
<1>1. Earlier(name, kind, 1) = {}
  BY Lines DEF Earlier
<1> QED
  BY <1>1, EarlierFinite, FS_EmptySet

\* At the end of the file there are all of them.
LEMMA BeforeEnd ==
  ASSUME NEW name, IsText(name), NEW kind
  PROVE  Before(name, kind, Len(Text(name)) + 1) = Cardinality(LinesOf(name, kind))
<1>1. Earlier(name, kind, Len(Text(name)) + 1) = LinesOf(name, kind)
  BY Lines DEF Earlier, LinesOf
<1> QED
  BY <1>1, EarlierFinite

\* A line has fewer of its kind before it than any later one.
LEMMA BeforeGrows ==
  ASSUME NEW name, IsText(name), NEW kind, NEW i \in LinesOf(name, kind), NEW j \in Nat,
         i < j
  PROVE  Before(name, kind, i) + 1 <= Before(name, kind, j)
<1>1. i \in Nat /\ LinesOf(name, kind) \subseteq Nat
  BY Lines
<1>2. Earlier(name, kind, i + 1) \in SUBSET Earlier(name, kind, j)
  BY <1>1 DEF Earlier
<1>3. Before(name, kind, i + 1) <= Before(name, kind, j)
  BY <1>2, EarlierFinite, FS_Subset
<1> QED
  BY <1>1, <1>3, BeforeNext

----------------------------------------------------------------------------
(* A monster or pacman. *)

MoveOf(l) == [op |-> l.op, left |-> l.n, turns |-> 1]

\* Actor a is what the lines before line n of its file say: a command for each
\* "move" line, in their order, and what the POS and PASSO lines say, if they are
\* the only ones.
ActorRead(a, n) ==
  /\ a \in Actors /\ a.won = Undefined
  /\ a.file \in ActorNames /\ Text(a.file) # NoFile
  /\ Len(a.moves) = Before(a.file, "move", n)
  /\ \A i \in LinesOf(a.file, "move") :
       i < n => a.moves[Before(a.file, "move", i) + 1] = MoveOf(Text(a.file)[i])
  /\ \A k \in DOMAIN a.moves : \E i \in LinesOf(a.file, "move") :
       i < n /\ k = Before(a.file, "move", i) + 1
  /\ \A i \in LinesOf(a.file, "POS") :
       i < n /\ LinesOf(a.file, "POS") = {i} =>
         a.x = Text(a.file)[i].first /\ a.y = Text(a.file)[i].second
  /\ \A i \in LinesOf(a.file, "PASSO") :
       i < n /\ LinesOf(a.file, "PASSO") = {i} => a.passo = Text(a.file)[i].n

ActorDone(a) == ActorRead(a, Len(Text(a.file)) + 1)

LEMMA ActorLineType ==
  ASSUME disk \in Disks, NEW name \in ActorNames, Text(name) # NoFile,
         NEW i \in DOMAIN Text(name)
  PROVE  /\ Text(name)[i] \in ActorLines
         /\ i \in 1 .. Len(Text(name))
         /\ i \in LinesOf(name, Text(name)[i].is)
<1>1. Text(name) \in Seq(ActorLines)
  BY ActorText
<1>2. i \in 1 .. Len(Text(name)) /\ Text(name)[i] \in ActorLines
  BY <1>1, LenProperties, ElementOfSeq
<1> QED
  BY <1>2 DEF LinesOf

LEMMA ActorTexts ==
  ASSUME disk \in Disks, NEW name \in ActorNames, Text(name) # NoFile
  PROVE  IsText(name)
BY ActorText DEF IsText

\* malloc's actor is what no line says.
LEMMA ActorStarts ==
  ASSUME disk \in Disks, NEW name \in ActorNames, Text(name) # NoFile
  PROVE  ActorRead(NewActor(name), 1)
<1> DEFINE a == NewActor(name)
<1>1. a.file = name /\ a.moves = <<>> /\ a.won = Undefined
  BY DEF NewActor
<1>2. a \in Actors
  <2>1. <<>> \in Seq(Moves)
    BY EmptySeq
  <2>2. name \in Names
    BY DEF ActorNames
  <2> QED
    BY <2>1, <2>2 DEF NewActor, Actors, Numbers
<1>3. Len(a.moves) = 0 /\ DOMAIN a.moves = {}
  BY <1>1
<1>4. IsText(name)
  BY ActorTexts
<1>5. Before(name, "move", 1) = 0
  BY <1>4, BeforeFirst
<1>6. \A kind : \A i \in LinesOf(name, kind) : ~(i < 1)
  BY <1>4, Lines
<1> QED
  BY <1>1, <1>2, <1>3, <1>5, <1>6 DEF ActorRead

\* One line more.
LEMMA ActorReadsOn ==
  ASSUME disk \in Disks, NEW a, NEW n \in DOMAIN Text(a.file), ActorRead(a, n)
  PROVE  ActorRead(ReadActorLine(a, Text(a.file)[n]), n + 1)
<1> DEFINE name == a.file
           l == Text(name)[n]
           b == ReadActorLine(a, l)
<1> SUFFICES ActorRead(b, n + 1)
  OBVIOUS
<1>1. /\ a \in Actors /\ a.won = Undefined /\ name \in ActorNames /\ Text(name) # NoFile
      /\ Len(a.moves) = Before(name, "move", n)
  BY DEF ActorRead
<1>2. IsText(name) /\ l \in ActorLines /\ n \in Nat /\ n \in LinesOf(name, l.is)
  <2>1. n \in 1 .. Len(Text(name))
    BY <1>1, ActorLineType
  <2>2. Len(Text(name)) \in Nat
    BY <1>1, ActorTexts, Lines
  <2> QED
    BY <1>1, <2>1, <2>2, ActorTexts, ActorLineType
<1>3. \A kind : LinesOf(name, kind) \subseteq Nat
  BY <1>2, Lines
<1>4. \A kind : n \in LinesOf(name, kind) <=> l.is = kind
  BY <1>2 DEF LinesOf
<1>5. \A kind : Before(name, kind, n + 1) =
                  IF l.is = kind THEN Before(name, kind, n) + 1 ELSE Before(name, kind, n)
  BY <1>2, <1>4, BeforeNext
<1>6. \A kind : \A i \in LinesOf(name, kind) : i < n + 1 <=> (i < n \/ i = n)
  BY <1>2, <1>3
<1>7. /\ \A i \in LinesOf(name, "move") :
           i < n => a.moves[Before(name, "move", i) + 1] = MoveOf(Text(name)[i])
      /\ \A k \in DOMAIN a.moves : \E i \in LinesOf(name, "move") :
           i < n /\ k = Before(name, "move", i) + 1
      /\ \A i \in LinesOf(name, "POS") :
           i < n /\ LinesOf(name, "POS") = {i} =>
             a.x = Text(name)[i].first /\ a.y = Text(name)[i].second
      /\ \A i \in LinesOf(name, "PASSO") :
           i < n /\ LinesOf(name, "PASSO") = {i} => a.passo = Text(name)[i].n
  BY DEF ActorRead
<1>8. CASE l.is = "PASSO"
  <2>1. l.n \in Int
    BY <1>2, <1>8 DEF ActorLines
  <2>2. b = [a EXCEPT !.passo = l.n]
    BY <1>8 DEF ReadActorLine
  <2>3. /\ b \in Actors /\ b.won = a.won /\ b.file = a.file /\ b.moves = a.moves
        /\ b.x = a.x /\ b.y = a.y /\ b.passo = l.n
    BY <1>1, <2>1, <2>2 DEF Actors, Numbers
  <2>4. /\ ~(n \in LinesOf(name, "move")) /\ ~(n \in LinesOf(name, "POS"))
        /\ n \in LinesOf(name, "PASSO")
    BY <1>4, <1>8
  <2>5. Before(name, "move", n + 1) = Before(name, "move", n)
    BY <1>5, <1>8
  <2>6. \A i \in LinesOf(name, "PASSO") : LinesOf(name, "PASSO") = {i} =>
          b.passo = Text(name)[i].n
    BY <2>3, <2>4
  <2> HIDE DEF b, l
  <2> QED
    BY <1>1, <1>6, <1>7, <2>3, <2>4, <2>5, <2>6 DEF ActorRead
<1>9. CASE l.is = "#"
  <2>2. b = a
    BY <1>9 DEF ReadActorLine
  <2> HIDE DEF b, l
  <2>4. /\ ~(n \in LinesOf(name, "move")) /\ ~(n \in LinesOf(name, "POS"))
        /\ ~(n \in LinesOf(name, "PASSO"))
    BY <1>4, <1>9
  <2>5. Before(name, "move", n + 1) = Before(name, "move", n)
    BY <1>5, <1>9
  <2> QED
    BY <1>1, <1>6, <1>7, <2>2, <2>4, <2>5 DEF ActorRead
<1>10. CASE l.is = "POS"
  <2>1. l.first \in Int /\ l.second \in Int
    BY <1>2, <1>10 DEF ActorLines
  <2>2. b = [a EXCEPT !.x = l.first, !.y = l.second]
    BY <1>10 DEF ReadActorLine
  <2>3. /\ b \in Actors /\ b.won = a.won /\ b.file = a.file /\ b.moves = a.moves
        /\ b.x = l.first /\ b.y = l.second /\ b.passo = a.passo
    BY <1>1, <2>1, <2>2 DEF Actors, Numbers
  <2>4. /\ ~(n \in LinesOf(name, "move")) /\ n \in LinesOf(name, "POS")
        /\ ~(n \in LinesOf(name, "PASSO"))
    BY <1>4, <1>10
  <2>5. Before(name, "move", n + 1) = Before(name, "move", n)
    BY <1>5, <1>10
  <2>6. \A i \in LinesOf(name, "POS") : LinesOf(name, "POS") = {i} =>
          b.x = Text(name)[i].first /\ b.y = Text(name)[i].second
    BY <2>3, <2>4
  <2> HIDE DEF b, l
  <2> QED
    BY <1>1, <1>6, <1>7, <2>3, <2>4, <2>5, <2>6 DEF ActorRead
<1>11. CASE l.is = "move"
  <2>1. MoveOf(l) \in Moves
    BY <1>2, <1>11 DEF ActorLines, MoveOf, Moves
  <2>2. b = [a EXCEPT !.moves = Append(a.moves, MoveOf(l))]
    BY <1>11 DEF ReadActorLine, MoveOf
  <2>3. a.moves \in Seq(Moves)
    BY <1>1 DEF Actors
  <2> DEFINE s == Append(a.moves, MoveOf(l))
  <2>4. /\ s \in Seq(Moves) /\ Len(s) = Len(a.moves) + 1
        /\ DOMAIN a.moves = 1 .. Len(a.moves) /\ Len(a.moves) \in Nat
        /\ DOMAIN s = 1 .. Len(a.moves) + 1
        /\ \A k \in 1 .. Len(a.moves) : s[k] = a.moves[k]
        /\ s[Len(a.moves) + 1] = MoveOf(l)
    BY <2>1, <2>3
  <2>5. /\ b \in Actors /\ b.won = a.won /\ b.file = a.file /\ b.moves = s
        /\ b.x = a.x /\ b.y = a.y /\ b.passo = a.passo
    BY <1>1, <2>2, <2>4 DEF Actors
  <2>6. Before(name, "move", n + 1) = Before(name, "move", n) + 1
    BY <1>5, <1>11
  <2> HIDE DEF b, s
  <2>7. Len(b.moves) = Before(name, "move", n + 1)
    BY <1>1, <2>4, <2>5, <2>6
  <2>8. ASSUME NEW i \in LinesOf(name, "move"), i < n + 1
        PROVE  b.moves[Before(name, "move", i) + 1] = MoveOf(Text(name)[i])
    <3>1. CASE i = n
      BY <1>1, <2>4, <2>5, <3>1
    <3>2. CASE i < n
      <4>1. Before(name, "move", i) + 1 <= Len(a.moves) /\ Before(name, "move", i) \in Nat
        BY <1>1, <1>2, <3>2, BeforeGrows, EarlierFinite
      <4>2. Before(name, "move", i) + 1 \in 1 .. Len(a.moves)
        BY <2>4, <4>1
      <4> QED
        BY <1>7, <2>4, <2>5, <3>2, <4>2
    <3> QED
      BY <1>6, <2>8, <3>1, <3>2
  <2>9. \A k \in DOMAIN b.moves : \E i \in LinesOf(name, "move") :
          i < n + 1 /\ k = Before(name, "move", i) + 1
    <3> SUFFICES ASSUME NEW k \in DOMAIN b.moves
                 PROVE  \E i \in LinesOf(name, "move") :
                          i < n + 1 /\ k = Before(name, "move", i) + 1
      OBVIOUS
    <3>1. CASE k \in DOMAIN a.moves
      BY <1>6, <1>7, <3>1
    <3>2. CASE k = Len(a.moves) + 1
      <4>1. n \in LinesOf(name, "move")
        BY <1>4, <1>11
      <4>2. n < n + 1
        BY <1>2
      <4> QED
        BY <1>1, <3>2, <4>1, <4>2
    <3> QED
      BY <2>4, <2>5, <3>1, <3>2
  <2>10. ~(n \in LinesOf(name, "POS")) /\ ~(n \in LinesOf(name, "PASSO"))
    BY <1>4, <1>11
  <2> HIDE DEF l
  <2> QED
    BY <1>1, <1>6, <1>7, <2>5, <2>7, <2>8, <2>9, <2>10 DEF ActorRead
<1> QED
  BY <1>2, <1>8, <1>9, <1>10, <1>11 DEF ActorLines

----------------------------------------------------------------------------
(* The monsters and pacmen of a level. *)

LEMMA LevelLineType ==
  ASSUME disk \in Disks, NEW name \in LevelNames, Text(name) # NoFile,
         NEW i \in DOMAIN Text(name)
  PROVE  /\ IsText(name) /\ Len(Text(name)) \in Nat
         /\ Text(name)[i] \in LevelLines
         /\ i \in 1 .. Len(Text(name)) /\ i \in Nat \ {0}
         /\ i \in LinesOf(name, Text(name)[i].is)
<1>1. Text(name) \in Seq(LevelLines)
  BY LevelText
<1>2. /\ Len(Text(name)) \in Nat
      /\ i \in 1 .. Len(Text(name)) /\ Text(name)[i] \in LevelLines
  BY <1>1, LenProperties, ElementOfSeq
<1> QED
  BY <1>1, <1>2 DEF LinesOf, IsText

LEMMA LevelTexts ==
  ASSUME disk \in Disks, NEW name \in LevelNames, Text(name) # NoFile
  PROVE  IsText(name)
BY LevelText DEF IsText

\* A mention is a word of a MON line.
LEMMA MentionType ==
  ASSUME disk \in Disks, NEW name \in LevelNames, Text(name) # NoFile,
         NEW m \in Mentions(name)
  PROVE  /\ m = <<m[1], m[2]>> /\ m[1] \in Nat \ {0} /\ m[2] \in Nat \ {0}
         /\ m[1] \in DOMAIN Text(name) /\ Text(name)[m[1]].is = "MON"
         /\ m[2] \in 1 .. Len(Text(name)[m[1]].files)
         /\ MonsterAt(name, m) \in ActorNames
<1>1. PICK i \in LinesOf(name, "MON") : m \in {<<i, k>> : k \in DOMAIN Text(name)[i].files}
  BY DEF Mentions
<1>2. PICK k \in DOMAIN Text(name)[i].files : m = <<i, k>>
  BY <1>1
<1>3. i \in DOMAIN Text(name) /\ Text(name)[i].is = "MON"
  BY DEF LinesOf
<1>4. Text(name)[i] \in LevelLines /\ i \in Nat \ {0}
  BY <1>3, LevelLineType
<1>5. Text(name)[i].files \in Seq(ActorNames)
  BY <1>3, <1>4 DEF LevelLines
<1>6. /\ k \in 1 .. Len(Text(name)[i].files) /\ k \in Nat \ {0}
      /\ Text(name)[i].files[k] \in ActorNames
  BY <1>2, <1>5, LenProperties, ElementOfSeq
<1> QED
  BY <1>2, <1>3, <1>4, <1>6 DEF MonsterAt

LEMMA WordsAreMentions ==
  ASSUME disk \in Disks, NEW name \in LevelNames, Text(name) # NoFile,
         NEW i \in DOMAIN Text(name), Text(name)[i].is = "MON",
         NEW k \in DOMAIN Text(name)[i].files
  PROVE  <<i, k>> \in Mentions(name)
BY DEF Mentions, LinesOf

\* The mentions before word t of line a.
ReadBy(name, a, t) == {q \in Mentions(name) : q \in EarlierThan(<<a, t>>)}

LEMMA ReadByDef ==
  ASSUME disk \in Disks, NEW name \in LevelNames, Text(name) # NoFile, NEW a, NEW t
  PROVE  /\ ReadBy(name, a, t) \subseteq Mentions(name)
         /\ \A q \in Mentions(name) :
              q \in ReadBy(name, a, t) <=> q[1] < a \/ (q[1] = a /\ q[2] < t)
<1>1. \A q \in Mentions(name) : q \in Nat \X Nat
  BY MentionType
<1> QED
  BY <1>1 DEF ReadBy, EarlierThan

LEMMA MentionedDef ==
  ASSUME disk \in Disks, NEW name \in LevelNames, Text(name) # NoFile,
         NEW m \in Mentions(name)
  PROVE  Mentioned(name, m) = Cardinality(ReadBy(name, m[1], m[2]))
<1>1. m = <<m[1], m[2]>>
  BY MentionType
<1> QED
  BY <1>1, Zenon DEF Mentioned, ReadBy

\* A monster has fewer monsters before it than any that comes after it.
LEMMA MentionedGrows ==
  ASSUME disk \in Disks, NEW name \in LevelNames, Text(name) # NoFile,
         NEW a \in Nat, NEW t \in Nat, IsFiniteSet(ReadBy(name, a, t)),
         NEW m \in ReadBy(name, a, t)
  PROVE  /\ Mentioned(name, m) \in Nat
         /\ Mentioned(name, m) + 1 <= Cardinality(ReadBy(name, a, t))
<1> DEFINE R == ReadBy(name, m[1], m[2])
<1>1. /\ m \in Mentions(name) /\ m[1] \in Nat /\ m[2] \in Nat
      /\ m[1] < a \/ (m[1] = a /\ m[2] < t)
  BY ReadByDef, MentionType
<1>2. \A q \in Mentions(name) : q[1] \in Nat /\ q[2] \in Nat
  BY MentionType
<1>3. m \notin R
  BY <1>1, ReadByDef
<1>4. R \in SUBSET ReadBy(name, a, t)
  BY <1>1, <1>2, ReadByDef
<1>5. IsFiniteSet(R)
  BY <1>4, FS_Subset
<1>6. IsFiniteSet(R \cup {m}) /\ Cardinality(R \cup {m}) = Cardinality(R) + 1
  BY <1>3, <1>5, FS_AddElement
<1>7. R \cup {m} \in SUBSET ReadBy(name, a, t)
  BY <1>4
<1>8. Cardinality(R \cup {m}) <= Cardinality(ReadBy(name, a, t))
  BY <1>7, FS_Subset
<1>9. Mentioned(name, m) = Cardinality(R)
  BY <1>1, MentionedDef
<1>10. Cardinality(R) \in Nat
  BY <1>5, FS_CardinalityType
<1> QED
  BY <1>6, <1>8, <1>9, <1>10

\* The ghosts are the monsters mentioned before word t of line a, in the order
\* of their mentions, each read to the end of its file.
MonstersRead(name, ghosts, a, t) ==
  /\ IsFiniteSet(ReadBy(name, a, t))
  /\ Len(ghosts) = Cardinality(ReadBy(name, a, t))
  /\ \A m \in ReadBy(name, a, t) :
       /\ Text(MonsterAt(name, m)) # NoFile
       /\ ghosts[Mentioned(name, m) + 1].file = MonsterAt(name, m)
  /\ \A g \in DOMAIN ghosts :
       /\ ActorDone(ghosts[g])
       /\ \E m \in ReadBy(name, a, t) : g = Mentioned(name, m) + 1

LEMMA NoMonstersYet ==
  ASSUME disk \in Disks, NEW name \in LevelNames, Text(name) # NoFile
  PROVE  MonstersRead(name, <<>>, 1, 1)
<1>1. \A q \in Mentions(name) : ~(q[1] < 1) /\ ~(q[1] = 1 /\ q[2] < 1)
  BY MentionType
<1>2. ReadBy(name, 1, 1) = {}
  BY <1>1, ReadByDef
<1> QED
  <2>1. Len(<<>>) = 0 /\ DOMAIN <<>> = {}
    OBVIOUS
  <2> QED
    BY <1>2, <2>1, FS_EmptySet DEF MonstersRead

\* The next monster joins the level.
LEMMA MonsterJoins ==
  ASSUME disk \in Disks, NEW name \in LevelNames, Text(name) # NoFile,
         NEW a \in Nat, NEW t \in Nat, <<a, t>> \in Mentions(name),
         NEW ghosts \in Seq(Actors), MonstersRead(name, ghosts, a, t),
         NEW b \in Actors, ActorDone(b), b.file = MonsterAt(name, <<a, t>>)
  PROVE  MonstersRead(name, Append(ghosts, b), a, t + 1)
<1> DEFINE m == <<a, t>>
           R == ReadBy(name, a, t)
           N == ReadBy(name, a, t + 1)
           s == Append(ghosts, b)
<1>1. \A q \in Mentions(name) : q = <<q[1], q[2]>> /\ q[1] \in Nat /\ q[2] \in Nat
  BY MentionType
<1>2. N = R \cup {m}
  <2>1. \A q \in Mentions(name) : q[1] = a /\ q[2] = t => q = m
    BY <1>1
  <2>2. \A q \in Mentions(name) : q \in N <=> q \in R \/ q = m
    BY <1>1, <2>1, ReadByDef
  <2>3. N \subseteq Mentions(name) /\ R \subseteq Mentions(name)
    BY ReadByDef
  <2> QED
    BY <2>2, <2>3
<1>3. m \notin R
  <2>1. m[1] = a /\ m[2] = t
    OBVIOUS
  <2>2. ~(t < t) /\ ~(a < a)
    OBVIOUS
  <2> QED
    BY <2>1, <2>2, ReadByDef
<1>4. /\ IsFiniteSet(R) /\ Len(ghosts) = Cardinality(R)
      /\ \A q \in R : /\ Text(MonsterAt(name, q)) # NoFile
                      /\ ghosts[Mentioned(name, q) + 1].file = MonsterAt(name, q)
      /\ \A g \in DOMAIN ghosts : /\ ActorDone(ghosts[g])
                                  /\ \E q \in R : g = Mentioned(name, q) + 1
  BY Zenon DEF MonstersRead
<1>5. IsFiniteSet(N) /\ Cardinality(N) = Len(ghosts) + 1
  BY <1>2, <1>3, <1>4, FS_AddElement
<1>6. /\ DOMAIN ghosts = 1 .. Len(ghosts) /\ Len(ghosts) \in Nat
      /\ DOMAIN s = 1 .. Len(ghosts) + 1 /\ Len(s) = Len(ghosts) + 1
      /\ \A k \in 1 .. Len(ghosts) : s[k] = ghosts[k]
      /\ s[Len(ghosts) + 1] = b
  OBVIOUS
<1>7. Mentioned(name, m) = Len(ghosts)
  <2>1. m[1] = a /\ m[2] = t
    OBVIOUS
  <2> QED
    BY <1>4, <2>1, MentionedDef
<1>8. \A q \in R : Mentioned(name, q) + 1 \in 1 .. Len(ghosts)
  BY <1>4, MentionedGrows
<1>9. Text(b.file) # NoFile
  BY DEF ActorDone, ActorRead
<1> HIDE DEF R, N, s, m
<1>10. \A q \in N : /\ Text(MonsterAt(name, q)) # NoFile
                    /\ s[Mentioned(name, q) + 1].file = MonsterAt(name, q)
  BY <1>2, <1>4, <1>6, <1>7, <1>8, <1>9 DEF m
<1>11. \A g \in DOMAIN s : ActorDone(s[g]) /\ \E q \in N : g = Mentioned(name, q) + 1
  <2> SUFFICES ASSUME NEW g \in DOMAIN s
               PROVE  ActorDone(s[g]) /\ \E q \in N : g = Mentioned(name, q) + 1
    OBVIOUS
  <2>1. CASE g \in DOMAIN ghosts
    BY <1>2, <1>4, <1>6, <2>1
  <2>2. CASE g = Len(ghosts) + 1
    BY <1>2, <1>6, <1>7, <2>2
  <2> QED
    BY <1>6, <2>1, <2>2
<1> QED
  BY <1>5, <1>6, <1>10, <1>11 DEF MonstersRead, N, s

\* Nothing is mentioned between the last word of a line and the next line.
LEMMA MonstersNextLine ==
  ASSUME disk \in Disks, NEW name \in LevelNames, Text(name) # NoFile,
         NEW a \in DOMAIN Text(name), NEW t \in Nat,
         IF Text(name)[a].is = "MON" THEN t = Len(Text(name)[a].files) + 1 ELSE t = 1,
         NEW ghosts, MonstersRead(name, ghosts, a, t)
  PROVE  MonstersRead(name, ghosts, a + 1, 1)
<1>1. \A q \in Mentions(name) :
        /\ q[1] \in Nat /\ q[2] \in Nat \ {0}
        /\ q[1] = a => Text(name)[a].is = "MON" /\ q[2] \in 1 .. Len(Text(name)[a].files)
  BY MentionType
<1>2. a \in Nat
  BY LevelLineType
<1>3. Text(name)[a].is = "MON" => Len(Text(name)[a].files) \in Nat
  BY LevelLineType DEF LevelLines
<1>4. ASSUME NEW q \in Mentions(name)
      PROVE  q \in ReadBy(name, a + 1, 1) <=> q \in ReadBy(name, a, t)
  <2>1. q \in ReadBy(name, a + 1, 1) <=> q[1] < a \/ q[1] = a
    BY <1>1, <1>2, ReadByDef
  <2>2. q[1] = a => q[2] < t
    BY <1>1, <1>3
  <2> QED
    BY <2>1, <2>2, ReadByDef
<1>5. ReadBy(name, a + 1, 1) = ReadBy(name, a, t)
  BY <1>4, ReadByDef
<1> QED
  BY <1>5, Zenon DEF MonstersRead

LEMMA MonstersAtEnd ==
  ASSUME disk \in Disks, NEW name \in LevelNames, Text(name) # NoFile,
         NEW t
  PROVE  ReadBy(name, Len(Text(name)) + 1, t) = Mentions(name)
<1>1. DOMAIN Text(name) = 1 .. Len(Text(name)) /\ Len(Text(name)) \in Nat
  BY LevelTexts, Lines
<1>2. \A q \in Mentions(name) : q[1] < Len(Text(name)) + 1
  BY <1>1, MentionType
<1>3. \A q \in Mentions(name) : q \in ReadBy(name, Len(Text(name)) + 1, t)
  BY <1>2, ReadByDef
<1> QED
  BY <1>3 DEF ReadBy

\* The pacmen: what the PAC lines before line a name could be opened; no file
\* says whether it has won.
PacmenRead(name, pacmans, a) ==
  /\ \A i \in LinesOf(name, "PAC") : i < a => Text(Text(name)[i].file) # NoFile
  /\ pacmans # <<>> => LinesOf(name, "PAC") # {}
  /\ \A p \in DOMAIN pacmans : pacmans[p].won = Undefined

LEMMA PacmenNextLine ==
  ASSUME disk \in Disks, NEW name \in LevelNames, Text(name) # NoFile,
         NEW a \in DOMAIN Text(name), NEW pacmans, PacmenRead(name, pacmans, a),
         Text(name)[a].is = "PAC" => Text(Text(name)[a].file) # NoFile
  PROVE  PacmenRead(name, pacmans, a + 1)
<1>1. a \in Nat /\ LinesOf(name, "PAC") \subseteq Nat
  BY LevelLineType, Lines
<1>2. \A i \in LinesOf(name, "PAC") :
        i < a + 1 => Text(Text(name)[i].file) # NoFile
  BY <1>1 DEF PacmenRead, LinesOf
<1> QED
  BY <1>2 DEF PacmenRead

LEMMA PacmanJoins ==
  ASSUME disk \in Disks, NEW name \in LevelNames, Text(name) # NoFile,
         NEW a \in DOMAIN Text(name), Text(name)[a].is = "PAC",
         NEW pacmans \in Seq(Actors), PacmenRead(name, pacmans, a),
         NEW b \in Actors, b.won = Undefined, Text(Text(name)[a].file) # NoFile
  PROVE  PacmenRead(name, Append(pacmans, b), a + 1)
<1>1. PacmenRead(name, pacmans, a + 1)
  BY PacmenNextLine
<1>2. a \in LinesOf(name, "PAC")
  BY DEF LinesOf
<1>3. \A p \in DOMAIN Append(pacmans, b) : Append(pacmans, b)[p].won = Undefined
  BY DEF PacmenRead
<1> QED
  BY <1>1, <1>2, <1>3 DEF PacmenRead

----------------------------------------------------------------------------
(* The matrix of a well-formed level. *)

LEMMA OneRowMore ==
  ASSUME NEW b \in Nat, NEW w \in Nat
  PROVE  b * w \in Nat /\ (b + 1) * w = b * w + w
OBVIOUS

LEMMA RowsFit ==
  ASSUME NEW b \in Nat, NEW c \in Nat, NEW w \in Nat, b + 1 <= c
  PROVE  b * w \in Nat /\ b * w + w <= c * w
<1>1. PICK k \in Nat : c = b + 1 + k
  <2>1. c - (b + 1) \in Nat /\ c = b + 1 + (c - (b + 1))
    OBVIOUS
  <2> QED
    BY <2>1
<1>2. c * w = b * w + w + k * w
  BY <1>1
<1>3. k * w \in Nat /\ b * w \in Nat
  OBVIOUS
<1> QED
  BY <1>2, <1>3

LEMMA GoodDim ==
  ASSUME disk \in Disks, NEW name \in LevelNames, GoodLevel(name)
  PROVE  \E d \in DOMAIN Text(name) :
           /\ LinesOf(name, "DIM") = {d} /\ d \in Nat
           /\ Text(name)[d] = Dim(name)
           /\ Dim(name).w \in Nat /\ Dim(name).h \in Nat
           /\ \A j \in LinesOf(name, "row") : d < j
<1>1. Text(name) # NoFile
  BY DEF GoodLevel
<1>2. PICK d \in DOMAIN Text(name) : LinesOf(name, "DIM") = {d}
  BY DEF GoodLevel, Once
<1>3. Text(name)[d].is = "DIM"
  BY <1>2 DEF LinesOf
<1>4. Text(name)[d] \in LevelLines /\ d \in Nat
  BY <1>1, LevelLineType
<1>5. Text(name)[d].w \in Nat /\ Text(name)[d].h \in Nat
  BY <1>3, <1>4 DEF LevelLines
<1>6. Dim(name) = Text(name)[d]
  BY <1>2 DEF Dim, TheLine
<1>7. \A j \in LinesOf(name, "row") : d < j
  BY <1>2 DEF GoodLevel
<1> QED
  BY <1>2, <1>4, <1>5, <1>6, <1>7

LEMMA GoodRow ==
  ASSUME disk \in Disks, NEW name \in LevelNames, GoodLevel(name),
         NEW i \in LinesOf(name, "row")
  PROVE  /\ i \in Nat /\ Text(name)[i].cells \in Seq(Letters)
         /\ DOMAIN Text(name)[i].cells = 1 .. Dim(name).w
         /\ Before(name, "row", i) \in Nat
         /\ Before(name, "row", i) + 1 <= Dim(name).h
<1>1. Text(name) # NoFile /\ i \in DOMAIN Text(name) /\ Text(name)[i].is = "row"
  BY DEF GoodLevel, LinesOf
<1>2. Text(name)[i] \in LevelLines /\ i \in 1 .. Len(Text(name)) /\ Len(Text(name)) \in Nat
  BY <1>1, LevelLineType
<1>3. Text(name)[i].cells \in Seq(Letters)
  BY <1>1, <1>2 DEF LevelLines
<1>4. Len(Text(name)[i].cells) = Dim(name).w
  BY DEF GoodLevel
<1>5. IsText(name)
  BY <1>1, LevelTexts
<1>6. Before(name, "row", i) + 1 <= Before(name, "row", Len(Text(name)) + 1)
  BY <1>2, <1>5, BeforeGrows
<1>7. Before(name, "row", Len(Text(name)) + 1) = Dim(name).h
  BY <1>5, BeforeEnd DEF GoodLevel
<1>8. Before(name, "row", i) \in Nat
  BY <1>5, EarlierFinite
<1> QED
  BY <1>2, <1>3, <1>4, <1>6, <1>7, <1>8

LEMMA CharType ==
  ASSUME disk \in Disks, NEW name \in LevelNames, GoodLevel(name),
         NEW c \in Chars(name)
  PROVE  /\ c = <<c[1], c[2]>> /\ c[1] \in LinesOf(name, "row") /\ c[1] \in Nat
         /\ c[2] \in 1 .. Dim(name).w
         /\ CharAt(name, c) \in {"X", "o", "@"}
<1>1. PICK i \in LinesOf(name, "row") : c \in {<<i, k>> : k \in DOMAIN Text(name)[i].cells}
  BY DEF Chars
<1>2. PICK k \in DOMAIN Text(name)[i].cells : c = <<i, k>>
  BY <1>1
<1>3. i \in Nat /\ k \in 1 .. Dim(name).w
  BY GoodRow
<1>4. CharAt(name, c) \in {"X", "o", "@"}
  BY DEF GoodLevel
<1> QED
  BY <1>2, <1>3, <1>4

LEMMA CharsOfRow ==
  ASSUME disk \in Disks, NEW name \in LevelNames, GoodLevel(name),
         NEW i \in LinesOf(name, "row"), NEW k \in 1 .. Dim(name).w
  PROVE  /\ <<i, k>> \in Chars(name)
         /\ CharAt(name, <<i, k>>) = Text(name)[i].cells[k]
         /\ CellFor(name, <<i, k>>) = Before(name, "row", i) * Dim(name).w + k
<1>1. k \in DOMAIN Text(name)[i].cells
  BY GoodRow
<1>2. <<i, k>> \in {<<i, j>> : j \in DOMAIN Text(name)[i].cells}
  BY <1>1
<1>3. <<i, k>> \in Chars(name)
  BY <1>2, Zenon DEF Chars
<1>4. <<i, k>>[1] = i /\ <<i, k>>[2] = k
  OBVIOUS
<1> QED
  BY <1>3, <1>4, Zenon DEF CharAt, CellFor

\* The cells of a line of the matrix come after those of the lines before it.
LEMMA CellForBound ==
  ASSUME disk \in Disks, NEW name \in LevelNames, GoodLevel(name),
         NEW c \in Chars(name), NEW a \in Nat, c[1] < a
  PROVE  CellFor(name, c) \in 1 .. Before(name, "row", a) * Dim(name).w
<1> DEFINE b == Before(name, "row", c[1])
           w == Dim(name).w
<1>1. c[1] \in LinesOf(name, "row") /\ c[2] \in 1 .. w /\ IsText(name) /\ w \in Nat
  BY CharType, LevelTexts, GoodDim DEF GoodLevel
<1>2. b \in Nat /\ Before(name, "row", a) \in Nat /\ b + 1 <= Before(name, "row", a)
  BY <1>1, BeforeGrows, EarlierFinite
<1>3. CellFor(name, c) = b * w + c[2]
  BY DEF CellFor
<1> HIDE DEF b, w
<1>4. b * w \in Nat /\ b * w + w <= Before(name, "row", a) * w
  BY <1>1, <1>2, RowsFit
<1>5. Before(name, "row", a) * w \in Nat
  BY <1>1, <1>2
<1>6. c[2] \in Nat /\ 1 <= c[2] /\ c[2] <= w
  BY <1>1
<1> QED
  BY <1>1, <1>3, <1>4, <1>5, <1>6 DEF w

\* The rows before line a are in the matrix, one after the other, and nothing
\* else is.
MatrixRead(l, a) ==
  GoodLevel(l.name) =>
    /\ \A d \in LinesOf(l.name, "DIM") :
         d < a => l.w = Dim(l.name).w /\ l.h = Dim(l.name).h
    /\ l.filled = Before(l.name, "row", a) * l.w
    /\ \A c \in Chars(l.name) :
         c[1] < a => l.cells[CellFor(l.name, c)] = CellOf(CharAt(l.name, c))
    /\ \A n \in 1 .. l.filled : \E c \in Chars(l.name) : c[1] < a /\ n = CellFor(l.name, c)

LEMMA NoMatrixYet ==
  ASSUME disk \in Disks, NEW name \in LevelNames, Text(name) # NoFile
  PROVE  MatrixRead(NewLevel(name), 1)
<1>1. SUFFICES ASSUME GoodLevel(name) PROVE MatrixRead(NewLevel(name), 1)
  BY DEF MatrixRead, NewLevel
<1>2. IsText(name) /\ Before(name, "row", 1) = 0
  BY LevelTexts, BeforeFirst
<1>3. \A kind : \A i \in LinesOf(name, kind) : ~(i < 1)
  BY <1>2, Lines
<1>4. \A c \in Chars(name) : ~(c[1] < 1)
  BY <1>1, <1>3, CharType
<1> QED
  BY <1>2, <1>3, <1>4 DEF MatrixRead, NewLevel

\* A line that is neither DIM nor a row leaves it.
LEMMA MatrixNextLine ==
  ASSUME disk \in Disks, NEW l, NEW k, l.name \in LevelNames, Text(l.name) # NoFile,
         NEW a \in DOMAIN Text(l.name), Text(l.name)[a].is \notin {"DIM", "row"},
         k.name = l.name, k.w = l.w, k.h = l.h, k.filled = l.filled, k.cells = l.cells,
         MatrixRead(l, a)
  PROVE  MatrixRead(k, a + 1)
<1> DEFINE name == l.name
<1>1. SUFFICES ASSUME GoodLevel(name) PROVE MatrixRead(k, a + 1)
  BY DEF MatrixRead
<1>2. IsText(name) /\ a \in Nat
  BY LevelLineType
<1>3. a \notin LinesOf(name, "row") /\ a \notin LinesOf(name, "DIM")
  BY DEF LinesOf
<1>4. LinesOf(name, "DIM") \subseteq Nat
  BY <1>2, Lines
<1>5. Before(name, "row", a + 1) = Before(name, "row", a)
  BY <1>2, <1>3, BeforeNext
<1>6. \A c \in Chars(name) : c[1] \in Nat /\ c[1] # a
  BY <1>1, <1>3, CharType
<1>7. \A c \in Chars(name) : c[1] < a + 1 <=> c[1] < a
  BY <1>2, <1>6
<1>8. \A d \in LinesOf(name, "DIM") : d < a + 1 <=> d < a
  BY <1>2, <1>3, <1>4
<1> QED
  BY <1>1, <1>5, <1>7, <1>8 DEF MatrixRead

LEMMA MatrixAtDim ==
  ASSUME disk \in Disks, NEW l, NEW k, l.name \in LevelNames, Text(l.name) # NoFile,
         NEW a \in DOMAIN Text(l.name), Text(l.name)[a].is = "DIM",
         k.name = l.name, k.w = Text(l.name)[a].w, k.h = Text(l.name)[a].h,
         k.filled = l.filled, l.w \in Nat,
         MatrixRead(l, a)
  PROVE  MatrixRead(k, a + 1)
<1> DEFINE name == l.name
<1>1. SUFFICES ASSUME GoodLevel(name) PROVE MatrixRead(k, a + 1)
  BY DEF MatrixRead
<1>2. IsText(name) /\ a \in Nat
  BY LevelLineType
<1>3. PICK d \in DOMAIN Text(name) :
        /\ LinesOf(name, "DIM") = {d} /\ d \in Nat /\ Text(name)[d] = Dim(name)
        /\ Dim(name).w \in Nat /\ \A j \in LinesOf(name, "row") : d < j
  BY <1>1, GoodDim
<1>4. a = d
  BY <1>3 DEF LinesOf
<1>5. Earlier(name, "row", a) = {} /\ Earlier(name, "row", a + 1) = {}
  BY <1>2, <1>3, <1>4, Lines DEF Earlier
<1>6. Before(name, "row", a) = 0 /\ Before(name, "row", a + 1) = 0
  BY <1>2, <1>5, EarlierFinite, FS_EmptySet
<1>7. k.filled = 0
  BY <1>1, <1>6 DEF MatrixRead
<1>8. \A c \in Chars(name) : ~(c[1] < a + 1)
  BY <1>1, <1>2, <1>3, <1>4, CharType
<1>9. k.w = Dim(name).w /\ k.h = Dim(name).h /\ 0 * k.w = 0
  BY <1>3, <1>4
<1> QED
  BY <1>1, <1>6, <1>7, <1>8, <1>9 DEF MatrixRead

\* A row fills the next cells.
LEMMA MatrixAtRow ==
  ASSUME disk \in Disks, NEW l, NEW k, l.name \in LevelNames, Text(l.name) # NoFile,
         NEW a \in DOMAIN Text(l.name), Text(l.name)[a].is = "row",
         l.w \in Nat, l.cells \in Seq(Cells \cup {Undefined}),
         l.filled + l.w <= Len(l.cells),
         k.name = l.name, k.w = l.w, k.h = l.h, k.filled = l.filled + l.w,
         k.cells = Filled(l, Text(l.name)[a].cells),
         MatrixRead(l, a)
  PROVE  MatrixRead(k, a + 1)
<1> DEFINE name == l.name
           b == Before(name, "row", a)
           w == Dim(name).w
<1>1. SUFFICES ASSUME GoodLevel(name) PROVE MatrixRead(k, a + 1)
  BY DEF MatrixRead
<1>2. IsText(name) /\ a \in Nat /\ a \in LinesOf(name, "row")
  BY LevelLineType DEF LinesOf
<1>3. PICK d \in DOMAIN Text(name) :
        /\ LinesOf(name, "DIM") = {d} /\ d \in Nat /\ w \in Nat
        /\ \A j \in LinesOf(name, "row") : d < j
  BY <1>1, GoodDim
<1>4. /\ l.w = w /\ l.h = Dim(name).h
      /\ l.filled = b * w
      /\ \A c \in Chars(name) : c[1] < a => l.cells[CellFor(name, c)] = CellOf(CharAt(name, c))
      /\ \A n \in 1 .. l.filled : \E c \in Chars(name) : c[1] < a /\ n = CellFor(name, c)
  BY <1>1, <1>2, <1>3 DEF MatrixRead
<1>5. b \in Nat /\ Before(name, "row", a + 1) = b + 1
  BY <1>2, EarlierFinite, BeforeNext
<1>6. b * w \in Nat /\ (b + 1) * w = b * w + w
  BY <1>3, <1>5, OneRowMore
<1>7. DOMAIN Text(name)[a].cells = 1 .. w
  BY <1>1, <1>2, GoodRow
<1>8. DOMAIN l.cells = 1 .. Len(l.cells) /\ Len(l.cells) \in Nat
  BY LenProperties
<1>9. \A c \in Chars(name) : c[1] \in Nat /\ c = <<c[1], c[2]>> /\ c[2] \in 1 .. w
  BY <1>1, CharType
<1>10. \A j \in 1 .. w :
         /\ <<a, j>> \in Chars(name)
         /\ CharAt(name, <<a, j>>) = Text(name)[a].cells[j]
         /\ CellFor(name, <<a, j>>) = l.filled + j
  BY <1>1, <1>2, <1>4, CharsOfRow
<1>11. \A c \in Chars(name) : c[1] < a => CellFor(name, c) \in 1 .. l.filled
  BY <1>1, <1>2, <1>4, CellForBound
<1>12. l.filled \in Nat
  BY <1>4, <1>6
<1> HIDE DEF b, w
<1>13. \A i \in DOMAIN l.cells :
         k.cells[i] = IF i \in l.filled + 1 .. l.filled + w
                      THEN IF i - l.filled \in 1 .. w
                           THEN CellOf(Text(name)[a].cells[i - l.filled]) ELSE Undefined
                      ELSE l.cells[i]
  BY <1>4, <1>7 DEF Filled
<1>14. ASSUME NEW c \in Chars(name), c[1] < a + 1
       PROVE  k.cells[CellFor(name, c)] = CellOf(CharAt(name, c))
  <2>1. CASE c[1] < a
    <3>1. /\ CellFor(name, c) \in DOMAIN l.cells
          /\ CellFor(name, c) \notin l.filled + 1 .. l.filled + w
      BY <1>3, <1>4, <1>8, <1>11, <1>12, <2>1
    <3> QED
      BY <1>4, <1>13, <2>1, <3>1
  <2>2. CASE c[1] = a
    <3>1. PICK j \in 1 .. w : c = <<a, j>>
      BY <1>9, <2>2
    <3>2. /\ CellFor(name, c) = l.filled + j
          /\ CharAt(name, c) = Text(name)[a].cells[j]
      BY <1>10, <3>1
    <3> DEFINE i == l.filled + j
               p == i - l.filled
    <3>3. i \in DOMAIN l.cells /\ i \in l.filled + 1 .. l.filled + w /\ p = j
      BY <1>3, <1>4, <1>8, <1>12
    <3>4. k.cells[i] = IF p \in 1 .. w THEN CellOf(Text(name)[a].cells[p]) ELSE Undefined
      BY <1>13, <3>3
    <3> HIDE DEF i, p
    <3>5. k.cells[i] = CellOf(Text(name)[a].cells[j])
      BY <3>3, <3>4
    <3> QED
      BY <3>2, <3>5 DEF i
  <2> QED
    BY <1>2, <1>9, <1>14, <2>1, <2>2
<1>15. ASSUME NEW n \in 1 .. k.filled
       PROVE  \E c \in Chars(name) : c[1] < a + 1 /\ n = CellFor(name, c)
  <2>1. CASE n \in 1 .. l.filled
    <3>1. PICK c \in Chars(name) : c[1] < a /\ n = CellFor(name, c)
      BY <1>4, <2>1
    <3>2. c[1] < a + 1
      BY <1>2, <1>9, <3>1
    <3> QED
      BY <3>1, <3>2
  <2>2. CASE n \notin 1 .. l.filled
    <3> DEFINE j == n - l.filled
    <3>1. j \in 1 .. w /\ n = l.filled + j
      BY <1>3, <1>4, <1>12, <2>2
    <3>2. <<a, j>> \in Chars(name) /\ CellFor(name, <<a, j>>) = n /\ <<a, j>>[1] < a + 1
      <4> HIDE DEF j
      <4>1. <<a, j>>[1] = a /\ a < a + 1
        BY <1>2
      <4> QED
        BY <1>10, <3>1, <4>1
    <3> QED
      BY <3>2
  <2> QED
    BY <2>1, <2>2
<1>16. k.filled = Before(name, "row", a + 1) * k.w
  BY <1>4, <1>5, <1>6
<1>17. \A e \in LinesOf(name, "DIM") :
         k.w = Dim(name).w /\ k.h = Dim(name).h
  BY <1>4 DEF w
<1> QED
  BY <1>1, <1>14, <1>15, <1>16, <1>17 DEF MatrixRead

----------------------------------------------------------------------------
(* The end of a level: its pacman, if the client is to have one. *)

LEMMA LeastNumber ==
  ASSUME NEW T \in SUBSET Nat, T # {}
  PROVE  \E x \in T : \A y \in T : x <= y
<1>1. PICK x \in T : \A y \in T : ~(<<y, x>> \in OpToRel(<, Nat))
  BY NatLessThanWellFounded, WFMin
<1>2. \A y \in T : ~(y < x)
  BY <1>1 DEF OpToRel
<1> QED
  BY <1>2

LEMMA FirstFreeSpotIsFirst ==
  ASSUME NEW cells \in Seq(Cells \cup {Undefined}), cells # <<>>
  PROVE  /\ FirstFreeSpot(cells) \in DOMAIN cells
         /\ FreeSpots(cells) # {} =>
              /\ FirstFreeSpot(cells) \in FreeSpots(cells)
              /\ \A j \in FreeSpots(cells) : FirstFreeSpot(cells) <= j
<1>1. DOMAIN cells = 1 .. Len(cells) /\ Len(cells) \in Nat \ {0}
  BY LenProperties, EmptySeq
<1>2. FreeSpots(cells) \subseteq DOMAIN cells
  BY DEF FreeSpots
<1>3. CASE FreeSpots(cells) = {}
  BY <1>1, <1>3 DEF FirstFreeSpot
<1>4. CASE FreeSpots(cells) # {}
  <2>1. \E i \in FreeSpots(cells) : \A j \in FreeSpots(cells) : i <= j
    <3>1. FreeSpots(cells) \in SUBSET Nat
      BY <1>1, <1>2
    <3> QED
      BY <1>4, <3>1, LeastNumber
  <2>2. FirstFreeSpot(cells) =
          CHOOSE i \in FreeSpots(cells) : \A j \in FreeSpots(cells) : i <= j
    BY <1>4, Zenon DEF FirstFreeSpot
  <2>3. /\ FirstFreeSpot(cells) \in FreeSpots(cells)
        /\ \A j \in FreeSpots(cells) : FirstFreeSpot(cells) <= j
    BY <2>1, <2>2, Zenon
  <2> QED
    BY <1>2, <2>3, Zenon
<1> QED
  BY <1>3, <1>4

LEMMA DivMod ==
  ASSUME NEW n \in Nat, NEW w \in Nat \ {0}
  PROVE  /\ n % w \in Nat /\ n \div w \in Nat
         /\ n = (n \div w) * w + (n % w)
<1>1. n % w \in Nat
  OBVIOUS
<1>2. n \div w \in Nat
  OBVIOUS
<1>3. n = (n \div w) * w + (n % w)
  OBVIOUS
<1> QED
  BY <1>1, <1>2, <1>3

\* A matrix with a cell has a width.
LEMMA WidthOfCells ==
  ASSUME NEW l \in Levels, Len(l.cells) = l.w * l.h, l.cells # <<>>
  PROVE  l.w \in Nat \ {0}
<1>1. l.cells \in Seq(Cells \cup {Undefined}) /\ l.w \in Nat /\ l.h \in Nat
  BY DEF Levels
<1>2. l.w * l.h # 0
  BY <1>1, EmptySeq
<1>3. CASE l.w = 0
  BY <1>1, <1>2, <1>3
<1> QED
  BY <1>1, <1>3

LEMMA DrawType ==
  ASSUME NEW cells \in Seq(Cells \cup {Undefined}), NEW i, NEW char \in {"P", "M"}
  PROVE  /\ Draw(cells, i, char) \in Seq(Cells \cup {Undefined})
         /\ DOMAIN Draw(cells, i, char) = DOMAIN cells
         /\ Len(Draw(cells, i, char)) = Len(cells)
         /\ \A j \in DOMAIN cells :
              IF j = i /\ cells[j] # Undefined
              THEN /\ Draw(cells, i, char)[j] \in Cells
                   /\ Draw(cells, i, char)[j].content = char
                   /\ Draw(cells, i, char)[j].has_dot = cells[j].has_dot
                   /\ Draw(cells, i, char)[j].has_portal = cells[j].has_portal
              ELSE Draw(cells, i, char)[j] = cells[j]
<1> DEFINE D == Draw(cells, i, char)
<1>1. DOMAIN cells = 1 .. Len(cells) /\ Len(cells) \in Nat
  BY LenProperties
<1>2. \A j \in DOMAIN cells : cells[j] \in Cells \cup {Undefined}
  BY ElementOfSeq
<1>3. ASSUME NEW c \in Cells
      PROVE  /\ [c EXCEPT !.content = char] \in Cells
             /\ [c EXCEPT !.content = char].content = char
             /\ [c EXCEPT !.content = char].has_dot = c.has_dot
             /\ [c EXCEPT !.content = char].has_portal = c.has_portal
  BY DEF Cells
<1>4. D = [j \in DOMAIN cells |-> IF j = i /\ cells[j] # Undefined
                                  THEN [cells[j] EXCEPT !.content = char] ELSE cells[j]]
  BY DEF Draw
<1> HIDE DEF D
<1>5. \A j \in DOMAIN cells :
        D[j] = IF j = i /\ cells[j] # Undefined
               THEN [cells[j] EXCEPT !.content = char] ELSE cells[j]
  BY <1>4
<1>6. \A j \in DOMAIN cells : D[j] \in Cells \cup {Undefined}
  BY <1>2, <1>3, <1>5, Zenon
<1>7. D \in [1 .. Len(cells) -> Cells \cup {Undefined}] /\ DOMAIN D = DOMAIN cells
  BY <1>1, <1>4, <1>6
<1>8. D \in Seq(Cells \cup {Undefined}) /\ Len(D) = Len(cells)
  BY <1>1, <1>7
<1>9. ASSUME NEW j \in DOMAIN cells
      PROVE  IF j = i /\ cells[j] # Undefined
             THEN /\ D[j] \in Cells
                  /\ D[j].content = char
                  /\ D[j].has_dot = cells[j].has_dot
                  /\ D[j].has_portal = cells[j].has_portal
             ELSE D[j] = cells[j]
  <2>1. CASE j = i /\ cells[j] # Undefined
    <3>1. cells[j] \in Cells /\ D[j] = [cells[j] EXCEPT !.content = char]
      BY <1>2, <1>5, <2>1
    <3> QED
      BY <1>3, <2>1, <3>1, Zenon
  <2>2. CASE ~(j = i /\ cells[j] # Undefined)
    BY <1>5, <2>2, Zenon
  <2> QED
    BY <2>1, <2>2
<1> QED
  BY <1>7, <1>8, <1>9, Zenon DEF D

LEMMA ActorRecord ==
  ASSUME NEW x \in Nat, NEW y \in Nat, NEW f
  PROVE  LET u == [file |-> "", x |-> x, y |-> y, passo |-> 0, won |-> f, moves |-> <<>>]
         IN /\ u \in [file : Names \cup {""}, x : Numbers, y : Numbers, passo : Numbers,
                      won : {f, Undefined}, moves : Seq(Moves)]
            /\ u.won = f /\ u.x = x /\ u.y = y
<1>1. <<>> \in Seq(Moves)
  BY EmptySeq
<1> QED
  BY <1>1 DEF Numbers

LEMMA UserAtType ==
  ASSUME NEW x \in Nat, NEW y \in Nat
  PROVE  /\ UserAt(x, y) \in Actors /\ UserAt(x, y).won = FALSE
         /\ UserAt(x, y).x = x /\ UserAt(x, y).y = y
BY ActorRecord, Zenon DEF UserAt, Actors

\* The client's pacman stands where it is drawn, on a cell of the level.
LEMMA UserPacmanStands ==
  ASSUME NEW l \in Levels, Len(l.cells) = l.w * l.h, l.cells # <<>>
  PROVE  LET L == UserPacman(l)
             spot == FirstFreeSpot(l.cells)
         IN /\ L \in Levels
            /\ L.name = l.name /\ L.w = l.w /\ L.h = l.h /\ L.ghosts = l.ghosts
            /\ L.tempo = l.tempo
            /\ L.cells = Draw(l.cells, spot, "P")
            /\ spot \in DOMAIN l.cells /\ DOMAIN L.cells = DOMAIN l.cells
            /\ DOMAIN L.pacmans = {1} /\ L.pacmans # <<>> /\ L.pacmans[1] \in Actors
            /\ L.pacmans[1].won = FALSE
            /\ Index(L, L.pacmans[1]) = spot
            /\ \A k : Index(k, L.pacmans[1]) =
                        ((spot - 1) \div l.w) * k.w + ((spot - 1) % l.w) + 1
<1> DEFINE L == UserPacman(l)
           spot == FirstFreeSpot(l.cells)
           x == (spot - 1) % l.w
           y == (spot - 1) \div l.w
<1>1. /\ l.cells \in Seq(Cells \cup {Undefined}) /\ l.w \in Nat \ {0}
      /\ Len(l.cells) \in Nat /\ DOMAIN l.cells = 1 .. Len(l.cells)
  BY WidthOfCells, LenProperties DEF Levels
<1>2. spot \in DOMAIN l.cells /\ spot - 1 \in Nat /\ spot \in Nat
  BY <1>1, FirstFreeSpotIsFirst
<1>3. x \in Nat /\ y \in Nat /\ spot - 1 = y * l.w + x
  <2> HIDE DEF spot
  <2> QED
    BY <1>1, <1>2, DivMod
<1>4. /\ Draw(l.cells, spot, "P") \in Seq(Cells \cup {Undefined})
      /\ DOMAIN Draw(l.cells, spot, "P") = DOMAIN l.cells
  BY <1>1, DrawType
<1>5. L = [l EXCEPT !.pacmans = <<UserAt(x, y)>>, !.cells = Draw(l.cells, spot, "P")]
  BY DEF UserPacman
<1> HIDE DEF L, spot, x, y
<1>6. /\ UserAt(x, y) \in Actors /\ UserAt(x, y).won = FALSE
      /\ UserAt(x, y).x = x /\ UserAt(x, y).y = y
  BY <1>3, UserAtType
<1> DEFINE u == UserAt(x, y)
<1> HIDE DEF u
<1>7. /\ <<u>> \in Seq(Actors) /\ <<u>> # <<>> /\ DOMAIN <<u>> = {1} /\ <<u>>[1] = u
  BY <1>6 DEF u
<1>8. /\ L \in Levels /\ L.name = l.name /\ L.w = l.w /\ L.h = l.h /\ L.ghosts = l.ghosts
      /\ L.cells = Draw(l.cells, spot, "P") /\ L.pacmans = <<u>> /\ L.tempo = l.tempo
  BY <1>4, <1>5, <1>7 DEF Levels, u
<1>9. \A k : Index(k, L.pacmans[1]) = y * k.w + x + 1
  BY <1>6, <1>7, <1>8 DEF Index, u
<1>10. Index(L, L.pacmans[1]) = spot
  <2>1. Index(L, L.pacmans[1]) = y * l.w + x + 1
    BY <1>8, <1>9
  <2> DEFINE q == y * l.w
  <2>2. q \in Nat
    BY <1>1, <1>3
  <2> HIDE DEF q
  <2> QED
    BY <1>2, <1>3, <2>1, <2>2 DEF q
<1>11. L.pacmans[1] \in Actors /\ L.pacmans[1].won = FALSE /\ DOMAIN L.pacmans = {1}
  BY <1>6, <1>7, <1>8 DEF u
<1>12. L.pacmans # <<>>
  BY <1>7, <1>8
<1>13. DOMAIN L.cells = DOMAIN l.cells
  BY <1>4, <1>8
<1> QED
  BY <1>2, <1>8, <1>9, <1>10, <1>11, <1>12, <1>13, Zenon DEF L, spot, x, y

----------------------------------------------------------------------------
(* A level that has been parsed. *)

\* The TEMPO, if its only line is before line a.
TempoRead(l, a) ==
  \A i \in LinesOf(l.name, "TEMPO") :
    i < a /\ LinesOf(l.name, "TEMPO") = {i} => l.tempo = Text(l.name)[i].n

LEMMA TempoNextLine ==
  ASSUME disk \in Disks, NEW l, l.name \in LevelNames, Text(l.name) # NoFile,
         NEW k, NEW a \in DOMAIN Text(l.name), TempoRead(l, a), k.name = l.name,
         IF Text(l.name)[a].is = "TEMPO" THEN k.tempo = Text(l.name)[a].n
                                         ELSE k.tempo = l.tempo
  PROVE  TempoRead(k, a + 1)
<1>1. a \in Nat /\ LinesOf(l.name, "TEMPO") \subseteq Nat
  BY LevelLineType, Lines
<1>2. a \in LinesOf(l.name, "TEMPO") <=> Text(l.name)[a].is = "TEMPO"
  BY DEF LinesOf
<1>3. \A i \in LinesOf(l.name, "TEMPO") : i < a + 1 <=> (i < a \/ i = a)
  BY <1>1
<1>4. CASE Text(l.name)[a].is = "TEMPO"
  BY <1>2, <1>4 DEF TempoRead
<1>5. CASE Text(l.name)[a].is # "TEMPO"
  BY <1>2, <1>3, <1>5 DEF TempoRead
<1> QED
  BY <1>4, <1>5

\* Level l is what the words before word t of line a of its file say.
LevelRead(l, a, t) ==
  /\ l \in Levels /\ Len(l.cells) = l.w * l.h
  /\ l.name \in LevelNames /\ Text(l.name) # NoFile
  /\ MonstersRead(l.name, l.ghosts, a, t)
  /\ PacmenRead(l.name, l.pacmans, a)
  /\ MatrixRead(l, a)
  /\ TempoRead(l, a)

LevelDone(l) ==
  /\ LevelRead(l, Len(Text(l.name)) + 1, 1)
  /\ l.pacmans # <<>> \/ l.cells # <<>>

Finished(l) == IF l.pacmans = <<>> THEN UserPacman(l) ELSE l

\* Level L is one that was read to its end and then finished.
Loaded(L) == \E l \in Levels : LevelDone(l) /\ L = Finished(l)

LEMMA FinishedType ==
  ASSUME NEW l \in Levels, LevelDone(l)
  PROVE  /\ Finished(l) \in Levels /\ Finished(l).name = l.name
         /\ Finished(l).ghosts = l.ghosts /\ Finished(l).tempo = l.tempo
         /\ DOMAIN Finished(l).pacmans # {}
         /\ \A p \in DOMAIN Finished(l).pacmans : Finished(l).pacmans[p].won = FALSE =>
              Index(Finished(l), Finished(l).pacmans[p]) \in DOMAIN Finished(l).cells
<1>1. Len(l.cells) = l.w * l.h /\ (l.pacmans # <<>> \/ l.cells # <<>>)
  BY DEF LevelDone, LevelRead
<1>2. CASE l.pacmans = <<>>
  <2>1. Finished(l) = UserPacman(l) /\ l.cells # <<>>
    BY <1>1, <1>2 DEF Finished
  <2> DEFINE L == UserPacman(l)
  <2>2. /\ L \in Levels /\ L.name = l.name /\ L.ghosts = l.ghosts /\ L.tempo = l.tempo
        /\ DOMAIN L.pacmans = {1} /\ DOMAIN L.cells = DOMAIN l.cells
        /\ Index(L, L.pacmans[1]) = FirstFreeSpot(l.cells)
        /\ FirstFreeSpot(l.cells) \in DOMAIN l.cells
    BY <1>1, <2>1, UserPacmanStands
  <2> HIDE DEF L
  <2>3. \A p \in DOMAIN L.pacmans : Index(L, L.pacmans[p]) \in DOMAIN L.cells
    BY <2>2
  <2> QED
    BY <2>1, <2>2, <2>3 DEF L
<1>3. CASE l.pacmans # <<>>
  <2>1. Finished(l) = l
    BY <1>3 DEF Finished
  <2>2. \A p \in DOMAIN l.pacmans : l.pacmans[p].won = Undefined
    BY DEF LevelDone, LevelRead, PacmenRead
  <2>3. Undefined # FALSE
    BY FilesAssumption, Zenon
  <2>4. DOMAIN l.pacmans # {}
    <3>1. l.pacmans \in Seq(Actors)
      BY DEF Levels
    <3>2. Len(l.pacmans) \in Nat \ {0} /\ DOMAIN l.pacmans = 1 .. Len(l.pacmans)
      BY <1>3, <3>1, EmptySeq, LenProperties
    <3>3. 1 \in DOMAIN l.pacmans
      BY <3>2
    <3> QED
      BY <3>3
  <2> QED
    BY <2>1, <2>2, <2>3, <2>4, Zenon
<1> QED
  BY <1>2, <1>3

\* A monster read to the end of a good file is as it says, and has a command.
LEMMA ActorIsWritten ==
  ASSUME disk \in Disks, NEW a, ActorDone(a)
  PROVE  ActorAsWritten(a)
<1> SUFFICES ASSUME GoodActor(a.file)
             PROVE  /\ a.passo = TheLine(a.file, "PASSO").n
                    /\ Len(a.moves) = Cardinality(LinesOf(a.file, "move"))
                    /\ \A i \in LinesOf(a.file, "move") :
                         LET m == a.moves[Before(a.file, "move", i) + 1]
                         IN m.op = Text(a.file)[i].op /\ m.left = Text(a.file)[i].n
  BY DEF ActorAsWritten
<1> DEFINE name == a.file
<1>1. name \in ActorNames /\ Text(name) # NoFile
  BY DEF ActorDone, ActorRead
<1>2. IsText(name) /\ DOMAIN Text(name) = 1 .. Len(Text(name)) /\ Len(Text(name)) \in Nat
  BY <1>1, ActorTexts, Lines
<1>3. \A kind : \A i \in LinesOf(name, kind) : i < Len(Text(name)) + 1
  BY <1>2 DEF LinesOf
<1>4. Len(a.moves) = Cardinality(LinesOf(name, "move"))
  BY <1>2, BeforeEnd DEF ActorDone, ActorRead
<1>5. ASSUME NEW j \in LinesOf(name, "move")
      PROVE  /\ a.moves[Before(name, "move", j) + 1].op = Text(name)[j].op
             /\ a.moves[Before(name, "move", j) + 1].left = Text(name)[j].n
  <2>1. a.moves[Before(name, "move", j) + 1] = MoveOf(Text(name)[j])
    BY <1>3 DEF ActorDone, ActorRead
  <2>2. MoveOf(Text(name)[j]).op = Text(name)[j].op /\ MoveOf(Text(name)[j]).left = Text(name)[j].n
    BY DEF MoveOf
  <2> QED
    BY <2>1, <2>2, Zenon
<1>6. a.passo = TheLine(name, "PASSO").n
  <2>1. PICK k \in DOMAIN Text(name) : LinesOf(name, "PASSO") = {k}
    BY DEF GoodActor, Once
  <2>2. a.passo = Text(name)[k].n
    BY <1>3, <2>1 DEF ActorDone, ActorRead
  <2> QED
    BY <2>1, <2>2 DEF TheLine
<1> QED
  BY <1>4, <1>5, <1>6

\* It starts where the parser reads its POS to say, column before row.
LEMMA ActorIsPlaced ==
  ASSUME disk \in Disks, NEW a, ActorDone(a), GoodActor(a.file)
  PROVE  a.x = StartOf(a.file).first /\ a.y = StartOf(a.file).second
<1> DEFINE name == a.file
<1>1. name \in ActorNames /\ Text(name) # NoFile
  BY DEF ActorDone, ActorRead
<1>2. DOMAIN Text(name) = 1 .. Len(Text(name)) /\ Len(Text(name)) \in Nat
  BY <1>1, ActorTexts, Lines
<1>3. PICK i \in DOMAIN Text(name) : LinesOf(name, "POS") = {i}
  BY DEF GoodActor, Once
<1>4. i \in LinesOf(name, "POS") /\ i < Len(Text(name)) + 1
  BY <1>2, <1>3
<1>5. a.x = Text(name)[i].first /\ a.y = Text(name)[i].second
  BY <1>3, <1>4 DEF ActorDone, ActorRead
<1>6. StartOf(name) = Text(name)[i]
  BY <1>3 DEF StartOf, TheLine
<1> QED
  BY <1>5, <1>6

LEMMA ActorCanPlay ==
  ASSUME disk \in Disks, NEW a, ActorDone(a), GoodActor(a.file)
  PROVE  /\ a.moves # <<>>
         /\ \A k \in DOMAIN a.moves : a.moves[k].op = "T" => a.moves[k].left > 0
<1> DEFINE name == a.file
<1>1. Len(a.moves) = Cardinality(LinesOf(name, "move"))
  BY ActorIsWritten DEF ActorAsWritten
<1>2. Len(a.moves) >= 1
  BY <1>1, FilesAssumption DEF GoodActor
<1>3. ASSUME NEW k \in DOMAIN a.moves, a.moves[k].op = "T"
      PROVE  a.moves[k].left > 0
  <2>1. PICK i \in LinesOf(name, "move") :
          i < Len(Text(name)) + 1 /\ k = Before(name, "move", i) + 1
    BY Zenon DEF ActorDone, ActorRead
  <2>2. a.moves[k] = MoveOf(Text(name)[i])
    BY <2>1, Zenon DEF ActorDone, ActorRead
  <2>3. MoveOf(Text(name)[i]).op = Text(name)[i].op /\ MoveOf(Text(name)[i]).left = Text(name)[i].n
    BY DEF MoveOf
  <2>4. Text(name)[i].n \in Nat \ {0}
    BY <1>3, <2>2, <2>3, Zenon DEF GoodActor
  <2> QED
    BY <2>2, <2>3, <2>4
<1>4. a.moves # <<>>
  <2>1. Len(<<>>) = 0
    OBVIOUS
  <2> QED
    BY <1>2, <2>1
<1> QED
  BY <1>3, <1>4

LEMMA CellOfFields ==
  ASSUME NEW char
  PROVE  /\ CellOf(char).has_dot = (char = "o")
         /\ CellOf(char).has_portal = (char = "@")
         /\ CellOf(char).content = IF char = "@" THEN "o" ELSE char
BY Zenon DEF CellOf

LEMMA CellOfType ==
  ASSUME NEW char \in Letters
  PROVE  CellOf(char) \in Cells /\ CellOf(char) # Undefined
<1>1. CellOf(char) \in Cells
  <2>1. (char = "o") \in BOOLEAN /\ (char = "@") \in BOOLEAN
    OBVIOUS
  <2>2. (IF char = "@" THEN "o" ELSE char) \in Letters \cup {"o", "P", "M"}
    OBVIOUS
  <2> QED
    BY <2>1, <2>2, Zenon DEF CellOf, Cells
<1>2. Undefined \notin Cells
  BY FilesAssumption, Zenon
<1> QED
  BY <1>1, <1>2

LEMMA CharLetter ==
  ASSUME disk \in Disks, NEW name \in LevelNames, GoodLevel(name), NEW c \in Chars(name)
  PROVE  CharAt(name, c) \in Letters
<1>1. c[1] \in LinesOf(name, "row") /\ c[2] \in 1 .. Dim(name).w
  BY CharType
<1>2. /\ Text(name)[c[1]].cells \in Seq(Letters)
      /\ DOMAIN Text(name)[c[1]].cells = 1 .. Dim(name).w
  BY <1>1, GoodRow
<1>3. Text(name)[c[1]].cells[c[2]] \in Letters
  BY <1>1, <1>2, ElementOfSeq, LenProperties
<1> QED
  BY <1>3 DEF CharAt

\* Of a well-formed level, the matrix is full and there is no pacman yet.
LEMMA GoodCells ==
  ASSUME disk \in Disks, NEW l \in Levels, LevelDone(l), GoodLevel(l.name)
  PROVE  /\ l.w = Dim(l.name).w /\ l.h = Dim(l.name).h /\ l.w \in Nat /\ l.h \in Nat
         /\ l.pacmans = <<>> /\ l.cells # <<>>
         /\ \A c \in Chars(l.name) :
              /\ CellFor(l.name, c) \in DOMAIN l.cells
              /\ l.cells[CellFor(l.name, c)] = CellOf(CharAt(l.name, c))
         /\ \A n \in DOMAIN l.cells : \E c \in Chars(l.name) : n = CellFor(l.name, c)
<1> DEFINE name == l.name
           end == Len(Text(name)) + 1
<1>1. /\ name \in LevelNames /\ Text(name) # NoFile /\ Len(l.cells) = l.w * l.h
      /\ PacmenRead(name, l.pacmans, end) /\ MatrixRead(l, end)
      /\ l.pacmans # <<>> \/ l.cells # <<>>
  BY DEF LevelDone, LevelRead
<1>2. /\ IsText(name) /\ Len(Text(name)) \in Nat /\ end \in Nat
      /\ DOMAIN Text(name) = 1 .. Len(Text(name))
  BY <1>1, LevelTexts, Lines
<1>3. \A kind : \A i \in LinesOf(name, kind) : i < end
  BY <1>2 DEF LinesOf
<1>4. PICK d \in DOMAIN Text(name) : LinesOf(name, "DIM") = {d}
  BY <1>1, GoodDim
<1> HIDE DEF end
<1>5. /\ l.w = Dim(name).w /\ l.h = Dim(name).h
      /\ l.filled = Before(name, "row", end) * l.w
      /\ \A c \in Chars(name) :
           c[1] < end => l.cells[CellFor(name, c)] = CellOf(CharAt(name, c))
      /\ \A n \in 1 .. l.filled : \E c \in Chars(name) : c[1] < end /\ n = CellFor(name, c)
  BY <1>1, <1>3, <1>4 DEF MatrixRead
<1>6. /\ l.w \in Nat /\ l.h \in Nat
      /\ DOMAIN l.cells = 1 .. Len(l.cells)
  BY LenProperties DEF Levels
<1>7. Before(name, "row", end) = l.h
  BY <1>2, <1>5, BeforeEnd DEF GoodLevel, end
<1>8. l.filled = Len(l.cells)
  BY <1>1, <1>5, <1>6, <1>7
<1>9. \A c \in Chars(name) : c[1] < end
  BY <1>1, <1>3, CharType
<1>10. \A c \in Chars(name) : CellFor(name, c) \in DOMAIN l.cells
  BY <1>1, <1>2, <1>5, <1>6, <1>8, <1>9, CellForBound
<1>11. l.pacmans = <<>>
  BY <1>1 DEF PacmenRead, GoodLevel
<1>12. \A n \in DOMAIN l.cells : \E c \in Chars(name) : n = CellFor(name, c)
  BY <1>5, <1>6, <1>8
<1> QED
  BY <1>1, <1>5, <1>6, <1>9, <1>10, <1>11, <1>12

\* The client's pacman is then put on the first of the dots.
LEMMA GoodSpot ==
  ASSUME disk \in Disks, NEW l \in Levels, LevelDone(l), GoodLevel(l.name)
  PROVE  /\ \A c \in Chars(l.name) :
              CellFor(l.name, c) = FirstFreeSpot(l.cells) => CharAt(l.name, c) = "o"
         /\ \A c \in Chars(l.name) :
              CharAt(l.name, c) = "o" => FirstFreeSpot(l.cells) <= CellFor(l.name, c)
<1> DEFINE name == l.name
           spot == FirstFreeSpot(l.cells)
<1>1. name \in LevelNames /\ l.cells \in Seq(Cells \cup {Undefined})
  BY DEF LevelDone, LevelRead, Levels
<1>2. /\ l.cells # <<>>
      /\ \A c \in Chars(name) : /\ CellFor(name, c) \in DOMAIN l.cells
                                /\ l.cells[CellFor(name, c)] = CellOf(CharAt(name, c))
  BY GoodCells
<1>3. ASSUME NEW c \in Chars(name)
      PROVE  CellFor(name, c) \in FreeSpots(l.cells) <=> CharAt(name, c) = "o"
  <2>1. CharAt(name, c) \in Letters
    BY <1>1, CharLetter
  <2>2. CellOf(CharAt(name, c)) # Undefined
    BY <2>1, CellOfType
  <2>3. IsFree(CellOf(CharAt(name, c))) <=> CharAt(name, c) = "o"
    <3>1. CellOf(CharAt(name, c)).has_dot = (CharAt(name, c) = "o")
      BY CellOfFields
    <3>2. CharAt(name, c) = "o" => CellOf(CharAt(name, c)).content = "o"
      BY CellOfFields
    <3> QED
      BY <2>2, <3>1, <3>2, Zenon DEF IsFree
  <2> QED
    BY <1>2, <2>3, Zenon DEF FreeSpots
<1>4. PICK e \in Chars(name) : CharAt(name, e) = "o"
  BY DEF GoodLevel
<1>5. FreeSpots(l.cells) # {}
  BY <1>3, <1>4
<1>6. spot \in FreeSpots(l.cells) /\ \A j \in FreeSpots(l.cells) : spot <= j
  BY <1>1, <1>2, <1>5, FirstFreeSpotIsFirst
<1> QED
  BY <1>3, <1>6

\* The ghosts are the monsters the level mentions.
LEMMA GhostsAreMonsters ==
  ASSUME disk \in Disks, NEW l \in Levels, LevelDone(l)
  PROVE  /\ Len(l.ghosts) = Cardinality(Mentions(l.name))
         /\ \A m \in Mentions(l.name) :
              /\ Mentioned(l.name, m) + 1 \in DOMAIN l.ghosts
              /\ Text(MonsterAt(l.name, m)) # NoFile
              /\ l.ghosts[Mentioned(l.name, m) + 1].file = MonsterAt(l.name, m)
         /\ \A g \in DOMAIN l.ghosts :
              /\ ActorDone(l.ghosts[g])
              /\ \E m \in Mentions(l.name) : /\ g = Mentioned(l.name, m) + 1
                                             /\ l.ghosts[g].file = MonsterAt(l.name, m)
<1> DEFINE name == l.name
           end == Len(Text(name)) + 1
<1>1. name \in LevelNames /\ Text(name) # NoFile /\ MonstersRead(name, l.ghosts, end, 1)
  BY DEF LevelDone, LevelRead
<1>2. ReadBy(name, end, 1) = Mentions(name)
  BY <1>1, MonstersAtEnd
<1>3. end \in Nat
  BY <1>1, LevelTexts, Lines
<1> HIDE DEF end
<1>4. /\ IsFiniteSet(Mentions(name)) /\ Len(l.ghosts) = Cardinality(Mentions(name))
      /\ \A m \in Mentions(name) :
           /\ Text(MonsterAt(name, m)) # NoFile
           /\ l.ghosts[Mentioned(name, m) + 1].file = MonsterAt(name, m)
      /\ \A g \in DOMAIN l.ghosts :
           /\ ActorDone(l.ghosts[g])
           /\ \E m \in Mentions(name) : g = Mentioned(name, m) + 1
  BY <1>1, <1>2, Zenon DEF MonstersRead
<1>5. DOMAIN l.ghosts = 1 .. Len(l.ghosts)
  BY LenProperties DEF Levels
<1>6. \A m \in Mentions(name) :
        /\ Mentioned(name, m) \in Nat
        /\ Mentioned(name, m) + 1 <= Cardinality(Mentions(name))
  BY <1>1, <1>2, <1>3, <1>4, MentionedGrows
<1>7. \A m \in Mentions(name) : Mentioned(name, m) + 1 \in DOMAIN l.ghosts
  <2>1. Cardinality(Mentions(name)) \in Nat
    BY <1>4, FS_CardinalityType
  <2> QED
    BY <1>4, <1>5, <1>6, <2>1
<1> QED
  BY <1>4, <1>7, Zenon

\* The cells show the matrix of the file, and a P on the cell it is drawn.
MatrixShown(name, cells, spot) ==
  \A c \in Chars(name) :
    LET cell == cells[CellFor(name, c)]
        char == CharAt(name, c)
    IN /\ cell.has_dot = (char = "o") /\ cell.has_portal = (char = "@")
       /\ cell.content = IF CellFor(name, c) = spot THEN "P"
                         ELSE IF char = "@" THEN "o" ELSE char

LEMMA FinishedCells ==
  ASSUME disk \in Disks, NEW l \in Levels, LevelDone(l), GoodLevel(l.name)
  PROVE  LET L == Finished(l)
             spot == FirstFreeSpot(l.cells)
         IN /\ L = UserPacman(l) /\ L.name = l.name /\ L.w = l.w /\ L.h = l.h
            /\ DOMAIN L.cells = DOMAIN l.cells /\ Len(L.cells) = L.w * L.h
            /\ spot \in DOMAIN l.cells
            /\ L.pacmans[1].won = FALSE /\ Index(L, L.pacmans[1]) = spot
            /\ MatrixShown(l.name, L.cells, spot)
<1> DEFINE name == l.name
           L == Finished(l)
           spot == FirstFreeSpot(l.cells)
<1>1. /\ l.pacmans = <<>> /\ l.cells # <<>> /\ Len(l.cells) = l.w * l.h
      /\ l.cells \in Seq(Cells \cup {Undefined}) /\ name \in LevelNames
  BY GoodCells DEF LevelDone, LevelRead, Levels
<1>2. L = UserPacman(l)
  BY <1>1 DEF Finished
<1>3. /\ L.name = l.name /\ L.w = l.w /\ L.h = l.h
      /\ L.cells = Draw(l.cells, spot, "P") /\ L \in Levels
      /\ spot \in DOMAIN l.cells /\ DOMAIN L.cells = DOMAIN l.cells
      /\ L.pacmans[1].won = FALSE /\ Index(L, L.pacmans[1]) = spot
  BY <1>1, <1>2, UserPacmanStands
<1>4. Len(L.cells) = L.w * L.h
  BY <1>1, <1>3, DrawType
<1>5. ASSUME NEW c \in Chars(name)
      PROVE  LET cell == L.cells[CellFor(name, c)]
                 char == CharAt(name, c)
             IN /\ cell.has_dot = (char = "o") /\ cell.has_portal = (char = "@")
                /\ cell.content = IF CellFor(name, c) = spot THEN "P"
                                  ELSE IF char = "@" THEN "o" ELSE char
  <2> DEFINE n == CellFor(name, c)
             char == CharAt(name, c)
             D == Draw(l.cells, spot, "P")
  <2>1. n \in DOMAIN l.cells /\ l.cells[n] = CellOf(char)
    BY GoodCells
  <2>2. CellOf(char) # Undefined
    BY <1>1, CharLetter, CellOfType
  <2>3. IF n = spot /\ l.cells[n] # Undefined
        THEN /\ D[n].content = "P" /\ D[n].has_dot = l.cells[n].has_dot
             /\ D[n].has_portal = l.cells[n].has_portal
        ELSE D[n] = l.cells[n]
    <3> HIDE DEF n, spot, D
    <3>1. D = Draw(l.cells, spot, "P") /\ "P" \in {"P", "M"}
      BY DEF D
    <3> QED
      BY <1>1, <2>1, <3>1, DrawType
  <2> HIDE DEF n, char, spot, D
  <2>4. /\ CellOf(char).has_dot = (char = "o") /\ CellOf(char).has_portal = (char = "@")
        /\ CellOf(char).content = IF char = "@" THEN "o" ELSE char
    BY CellOfFields
  <2>5. /\ D[n].has_dot = (char = "o") /\ D[n].has_portal = (char = "@")
        /\ D[n].content = IF n = spot THEN "P" ELSE IF char = "@" THEN "o" ELSE char
    <3>1. CASE n = spot
      BY <2>1, <2>2, <2>3, <2>4, <3>1, Zenon
    <3>2. CASE n # spot
      BY <2>1, <2>3, <2>4, <3>2, Zenon
    <3> QED
      BY <3>1, <3>2
  <2> QED
    BY <1>3, <2>5, Zenon DEF n, char, D, spot
<1>6. MatrixShown(name, L.cells, spot)
  BY <1>5, Zenon DEF MatrixShown
<1> QED
  BY <1>2, <1>3, <1>4, <1>6, Zenon

LEMMA LoadedIsWritten ==
  ASSUME disk \in Disks, NEW L, Loaded(L), GoodLevel(L.name)
  PROVE  AsWritten(L)
<1>1. PICK l \in Levels : LevelDone(l) /\ L = Finished(l)
  BY DEF Loaded
<1> DEFINE name == L.name
           spot == FirstFreeSpot(l.cells)
<1>2. name = l.name /\ L.ghosts = l.ghosts /\ L.tempo = l.tempo
  BY <1>1, FinishedType
<1>3. /\ L.w = l.w /\ L.h = l.h /\ Len(L.cells) = L.w * L.h
      /\ MatrixShown(name, L.cells, spot)
  BY <1>1, <1>2, FinishedCells
<1>4. L.w = Dim(name).w /\ L.h = Dim(name).h
  BY <1>1, <1>2, <1>3, GoodCells
<1>5. \A c \in Chars(name) : CellFor(name, c) = spot => CharAt(name, c) = "o"
  BY <1>1, <1>2, GoodSpot
<1>6. ASSUME NEW c \in Chars(name)
      PROVE  (L.cells[CellFor(name, c)].content = "X") = (CharAt(name, c) = "X")
  <2> DEFINE cell == L.cells[CellFor(name, c)]
             char == CharAt(name, c)
  <2>1. cell.content = IF CellFor(name, c) = spot THEN "P"
                       ELSE IF char = "@" THEN "o" ELSE char
    BY <1>3, Zenon DEF MatrixShown
  <2>2. CellFor(name, c) = spot => char = "o"
    BY <1>5
  <2> HIDE DEF cell, char, spot
  <2>3. cell.content = "X" <=> char = "X"
    BY <2>1, <2>2
  <2> QED
    BY <2>3, Zenon DEF cell, char
<1>7. /\ Len(L.ghosts) = Cardinality(Mentions(name))
      /\ \A m \in Mentions(name) :
           /\ L.ghosts[Mentioned(name, m) + 1].file = MonsterAt(name, m)
           /\ ActorAsWritten(L.ghosts[Mentioned(name, m) + 1])
  <2>1. /\ Len(l.ghosts) = Cardinality(Mentions(l.name))
        /\ \A m \in Mentions(l.name) :
             /\ l.ghosts[Mentioned(l.name, m) + 1].file = MonsterAt(l.name, m)
             /\ Mentioned(l.name, m) + 1 \in DOMAIN l.ghosts
        /\ \A g \in DOMAIN l.ghosts : ActorDone(l.ghosts[g])
    BY <1>1, GhostsAreMonsters
  <2>2. \A m \in Mentions(l.name) : ActorAsWritten(l.ghosts[Mentioned(l.name, m) + 1])
    BY <2>1, ActorIsWritten
  <2> QED
    BY <1>2, <2>1, <2>2, Zenon
<1>8. ASSUME Once(name, "TEMPO")
      PROVE  L.tempo = TheLine(name, "TEMPO").n
  <2>1. PICK i \in DOMAIN Text(name) : LinesOf(name, "TEMPO") = {i}
    BY <1>8 DEF Once
  <2>2. i < Len(Text(name)) + 1
    <3>1. IsText(name)
      BY <1>1, <1>2, LevelTexts DEF LevelDone, LevelRead
    <3> QED
      BY <3>1, Lines
  <2>3. L.tempo = Text(name)[i].n
    BY <1>1, <1>2, <2>1, <2>2 DEF LevelDone, LevelRead, TempoRead
  <2> QED
    BY <2>1, <2>3 DEF TheLine
<1> QED
  BY <1>3, <1>4, <1>6, <1>7, <1>8, Zenon DEF AsWritten, MatrixShown

----------------------------------------------------------------------------
(* A game's copy of a level. *)

LEMMA LoadedCopy ==
  ASSUME NEW L \in Levels, Loadable(L)
  PROVE  LET B == LoadLevel(L)
         IN /\ B \in Levels /\ B.name = L.name /\ B.w = L.w /\ B.h = L.h
            /\ B.pacmans = L.pacmans /\ B.ghosts = L.ghosts
            /\ DOMAIN B.cells = DOMAIN L.cells
            /\ \A i \in DOMAIN L.cells :
                 B.cells[i].content =
                   IF \E g \in DOMAIN L.ghosts : Index(L, L.ghosts[g]) = i THEN "M"
                   ELSE IF Index(L, L.pacmans[1]) = i THEN "P" ELSE L.cells[i].content
<1> DEFINE B == LoadLevel(L)
           Content(i) ==
             IF \E g \in DOMAIN L.ghosts : Index(L, L.ghosts[g]) = i THEN "M"
             ELSE IF Index(L, L.pacmans[1]) = i THEN "P" ELSE L.cells[i].content
           C == [i \in DOMAIN L.cells |-> [L.cells[i] EXCEPT !.content = Content(i)]]
<1>1. /\ L.cells \in Seq(Cells \cup {Undefined})
      /\ DOMAIN L.cells = 1 .. Len(L.cells) /\ Len(L.cells) \in Nat
  BY LenProperties DEF Levels
<1>2. \A i \in DOMAIN L.cells : L.cells[i] \in Cells
  <2>1. \A i \in DOMAIN L.cells : L.cells[i] # Undefined
    BY DEF Loadable, Range
  <2> QED
    BY <1>1, <2>1, ElementOfSeq
<1>3. \A i \in DOMAIN L.cells : Content(i) \in Letters \cup {"o", "P", "M"}
  BY <1>2 DEF Cells
<1>4. B = [L EXCEPT !.cells = C]
  BY DEF LoadLevel
<1> HIDE DEF B, Content
<1>5. ASSUME NEW i \in DOMAIN L.cells
      PROVE  C[i] \in Cells /\ C[i].content = Content(i)
  <2>1. C[i] = [L.cells[i] EXCEPT !.content = Content(i)]
    OBVIOUS
  <2> HIDE DEF C
  <2> QED
    BY <1>2, <1>3, <2>1 DEF Cells
<1>6. C \in [1 .. Len(L.cells) -> Cells \cup {Undefined}] /\ DOMAIN C = DOMAIN L.cells
  BY <1>1, <1>5
<1> HIDE DEF C
<1>7. C \in Seq(Cells \cup {Undefined})
  BY <1>1, <1>6
<1>8. /\ B \in Levels /\ B.name = L.name /\ B.w = L.w /\ B.h = L.h
      /\ B.pacmans = L.pacmans /\ B.ghosts = L.ghosts /\ B.cells = C
  BY <1>4, <1>7 DEF Levels
<1> QED
  BY <1>5, <1>6, <1>8, Zenon DEF B, Content

\* Every ghost of a well-formed level starts where its monster's file says.
LEMMA GhostsStart ==
  ASSUME disk \in Disks, NEW l \in Levels, LevelDone(l), GoodLevel(l.name),
         NEW g \in DOMAIN l.ghosts, NEW w, w = l.w
  PROVE  /\ \E m \in Mentions(l.name) :
              /\ g = Mentioned(l.name, m) + 1
              /\ l.ghosts[g].y * w + l.ghosts[g].x + 1 = CellOfStart(l.name, m)
         /\ l.ghosts[g].moves # <<>>
         /\ \A k \in DOMAIN l.ghosts[g].moves :
              l.ghosts[g].moves[k].op = "T" => l.ghosts[g].moves[k].left > 0
<1> DEFINE a == l.ghosts[g]
<1>1. PICK m \in Mentions(l.name) :
        g = Mentioned(l.name, m) + 1 /\ a.file = MonsterAt(l.name, m)
  BY GhostsAreMonsters
<1>2. ActorDone(a)
  BY GhostsAreMonsters
<1>3. GoodActor(a.file)
  BY <1>1 DEF GoodLevel
<1>4. a.x = StartOf(a.file).first /\ a.y = StartOf(a.file).second
  BY <1>2, <1>3, ActorIsPlaced
<1>5. w = Dim(l.name).w
  BY GoodCells
<1>6. a.y * w + a.x + 1 = CellOfStart(l.name, m)
  BY <1>1, <1>4, <1>5 DEF CellOfStart
<1>7. /\ a.moves # <<>>
      /\ \A k \in DOMAIN a.moves : a.moves[k].op = "T" => a.moves[k].left > 0
  BY <1>2, <1>3, ActorCanPlay
<1> QED
  BY <1>1, <1>6, <1>7

\* The first dot is not a ghost's place.
LEMMA SpotIsNoStart ==
  ASSUME disk \in Disks, NEW l \in Levels, LevelDone(l), GoodLevel(l.name),
         FirstDotIsFree(l.name), NEW m \in Mentions(l.name)
  PROVE  CellOfStart(l.name, m) # FirstFreeSpot(l.cells)
<1> DEFINE name == l.name
           spot == FirstFreeSpot(l.cells)
<1> SUFFICES ASSUME CellOfStart(name, m) = spot PROVE FALSE
  OBVIOUS
<1>1. spot \in DOMAIN l.cells /\ DOMAIN l.cells = 1 .. Len(l.cells)
  BY FinishedCells, LenProperties DEF Levels
<1>2. PICK c \in Chars(name) : spot = CellFor(name, c)
  BY <1>1, GoodCells
<1>3. CharAt(name, c) = "o"
  BY <1>2, GoodSpot
<1>4. PICK d \in Chars(name) : CharAt(name, d) = "o" /\ CellFor(name, d) < CellFor(name, c)
  BY <1>2, <1>3 DEF FirstDotIsFree
<1>5. spot <= CellFor(name, d)
  BY <1>4, GoodSpot
<1>6. CellFor(name, d) \in DOMAIN l.cells
  BY GoodCells
<1> QED
  BY <1>1, <1>2, <1>4, <1>5, <1>6

LEMMA LoadedCanStart ==
  ASSUME disk \in Disks, NEW L, Loaded(L), Loadable(L),
         GoodLevel(L.name), FirstDotIsFree(L.name)
  PROVE  CanStart(LoadLevel(L))
<1>1. PICK l \in Levels : LevelDone(l) /\ L = Finished(l)
  BY DEF Loaded
<1> DEFINE name == l.name
           spot == FirstFreeSpot(l.cells)
           B == LoadLevel(L)
           At(g) == Index(L, L.ghosts[g])
<1>2. L \in Levels /\ L.name = name /\ L.ghosts = l.ghosts
  BY <1>1, FinishedType
<1>3. GoodLevel(name) /\ FirstDotIsFree(name)
  BY <1>2
<1>4. /\ L.w = l.w /\ spot \in DOMAIN L.cells /\ DOMAIN L.cells = DOMAIN l.cells
      /\ L.pacmans[1].won = FALSE /\ Index(L, L.pacmans[1]) = spot
      /\ MatrixShown(name, L.cells, spot)
  BY <1>1, <1>3, FinishedCells
<1>5. /\ B.name = L.name /\ B.w = L.w /\ B.pacmans = L.pacmans /\ B.ghosts = L.ghosts
      /\ DOMAIN B.cells = DOMAIN L.cells
      /\ \A i \in DOMAIN L.cells :
           B.cells[i].content =
             IF \E g \in DOMAIN L.ghosts : At(g) = i THEN "M"
             ELSE IF spot = i THEN "P" ELSE L.cells[i].content
  BY <1>2, <1>4, LoadedCopy
<1>6. \A g \in DOMAIN L.ghosts :
        \E m \in Mentions(name) : g = Mentioned(name, m) + 1 /\ At(g) = CellOfStart(name, m)
  BY <1>1, <1>2, <1>3, <1>4, GhostsStart DEF Index
<1>7. \A m \in Mentions(name) : CellOfStart(name, m) # spot
  BY <1>1, <1>3, SpotIsNoStart
<1>8. \A g \in DOMAIN L.ghosts : At(g) \in DOMAIN L.cells
  BY DEF Loadable, Range
<1>9. ASSUME NEW i \in DOMAIN L.cells, i # spot
      PROVE  L.cells[i].content # "P" /\ L.cells[i].content # "M"
  <2>1. PICK c \in Chars(name) : i = CellFor(name, c)
    BY <1>1, <1>3, <1>4, GoodCells
  <2>2. CharAt(name, c) \in {"X", "o", "@"}
    BY <1>3 DEF GoodLevel
  <2>3. L.cells[i].content = IF CharAt(name, c) = "@" THEN "o" ELSE CharAt(name, c)
    BY <1>4, <1>9, <2>1, Zenon DEF MatrixShown
  <2> QED
    BY <2>2, <2>3
<1>10. \A i : Index(B, i) = Index(L, i)
  BY <1>5 DEF Index
<1>11. {Index(B, g) : g \in Range(B.ghosts)} = {At(g) : g \in DOMAIN L.ghosts}
  BY <1>5, <1>10 DEF Range
<1>12. Index(B, B.pacmans[1]) = spot
  BY <1>4, <1>5, <1>10
<1> DEFINE Places == {At(g) : g \in DOMAIN L.ghosts}
           Showing(char) == {i \in DOMAIN B.cells : B.cells[i].content = char}
<1> HIDE DEF B, spot, At
<1>13. \A i \in DOMAIN L.cells :
         B.cells[i].content = IF i \in Places THEN "M"
                              ELSE IF spot = i THEN "P" ELSE L.cells[i].content
  BY <1>5
<1>14. spot \notin Places /\ Places \subseteq DOMAIN L.cells
  BY <1>6, <1>7, <1>8
<1> HIDE DEF Places
<1>15. Showing("P") = {spot}
  BY <1>4, <1>5, <1>9, <1>13, <1>14
<1>16. Showing("M") = Places
  BY <1>4, <1>5, <1>9, <1>13, <1>14
<1>17. ASSUME NEW g \in DOMAIN L.ghosts, NEW h \in DOMAIN L.ghosts, At(g) = At(h)
       PROVE  g = h
  <2>1. PICK m \in Mentions(name) : g = Mentioned(name, m) + 1 /\ At(g) = CellOfStart(name, m)
    BY <1>6
  <2>2. PICK q \in Mentions(name) : h = Mentioned(name, q) + 1 /\ At(h) = CellOfStart(name, q)
    BY <1>6
  <2>3. m = q
    BY <1>3, <1>17, <2>1, <2>2, Zenon DEF GoodLevel
  <2> QED
    BY <2>1, <2>2, <2>3
<1>18. ASSUME NEW c \in Chars(name), CellFor(name, c) \in Places \cup {spot}
       PROVE  CharAt(name, c) # "X"
  <2>1. CASE CellFor(name, c) = spot
    BY <1>1, <1>3, <2>1, GoodSpot DEF spot
  <2>2. CASE CellFor(name, c) \in Places
    <3>1. PICK g \in DOMAIN L.ghosts : CellFor(name, c) = At(g)
      BY <2>2 DEF Places
    <3>2. PICK m \in Mentions(name) : At(g) = CellOfStart(name, m)
      BY <1>6
    <3> QED
      BY <1>3, <3>1, <3>2, Zenon DEF GoodLevel
  <2> QED
    BY <1>18, <2>1, <2>2
<1>19. ASSUME NEW g \in DOMAIN L.ghosts
       PROVE  /\ L.ghosts[g].moves # <<>>
              /\ \A k \in DOMAIN L.ghosts[g].moves :
                   L.ghosts[g].moves[k].op = "T" => L.ghosts[g].moves[k].left > 0
  BY <1>1, <1>2, <1>3, GhostsStart
<1>20. \A g, h \in DOMAIN B.ghosts : Index(B, B.ghosts[g]) = Index(B, B.ghosts[h]) => g = h
  BY <1>5, <1>10, <1>17 DEF At
<1>21. \A c \in Chars(B.name) : CellFor(B.name, c) \in Places \cup {spot} => CharAt(B.name, c) # "X"
  BY <1>2, <1>5, <1>18
<1>22. \A g \in DOMAIN B.ghosts :
         /\ B.ghosts[g].moves # <<>>
         /\ \A k \in DOMAIN B.ghosts[g].moves :
              B.ghosts[g].moves[k].op = "T" => B.ghosts[g].moves[k].left > 0
  BY <1>5, <1>19
<1>23. B.pacmans[1].won = FALSE
  BY <1>4, <1>5
<1>24. {Index(B, g) : g \in Range(B.ghosts)} = Places
  BY <1>11 DEF Places
<1>25. CanStart(B)
  BY <1>12, <1>15, <1>16, <1>20, <1>21, <1>22, <1>23, <1>24, Zenon DEF CanStart
<1> QED
  BY <1>25 DEF B

----------------------------------------------------------------------------
(* No step writes to a file: what is said of the files alone stays true. *)

LEMMA TextStays ==
  ASSUME disk' = disk, NEW name
  PROVE  Text(name)' = Text(name) /\ LevelNames' = LevelNames
BY DEF Text, LevelNames

LEMMA ActorReadStays ==
  ASSUME disk' = disk, NEW a, NEW n
  PROVE  ActorRead(a, n)' <=> ActorRead(a, n)
BY DEF ActorRead, Text, LinesOf, Before, MoveOf

LEMMA LevelReadStays ==
  ASSUME disk' = disk, NEW l, NEW a, NEW t
  PROVE  LevelRead(l, a, t)' <=> LevelRead(l, a, t)
<1>1. MonstersRead(l.name, l.ghosts, a, t)' <=> MonstersRead(l.name, l.ghosts, a, t)
  BY DEF MonstersRead, ReadBy, Mentions, Mentioned, MonsterAt, ActorDone, ActorRead, Text,
         LinesOf, Before, MoveOf
<1>2. PacmenRead(l.name, l.pacmans, a)' <=> PacmenRead(l.name, l.pacmans, a)
  BY DEF PacmenRead, Text, LinesOf
<1>3. MatrixRead(l, a)' <=> MatrixRead(l, a)
  BY DEF MatrixRead, GoodLevel, Mentions, Mentioned, MonsterAt, Text, LinesOf, Before, Once,
         Dim, TheLine, Chars, CharAt, CellFor, CellOfStart, StartOf, GoodActor
<1>4. TempoRead(l, a)' <=> TempoRead(l, a)
  BY DEF TempoRead, Text, LinesOf
<1>5. Text(l.name)' = Text(l.name) /\ LevelNames' = LevelNames
  BY TextStays
<1>6. QED
  BY <1>1, <1>2, <1>3, <1>4, <1>5 DEF LevelRead

LEMMA LoadedStays ==
  ASSUME disk' = disk, NEW L
  PROVE  Loaded(L)' <=> Loaded(L)
<1>1. ASSUME NEW l PROVE LevelDone(l)' <=> LevelDone(l)
  <2>1. Text(l.name)' = Text(l.name)
    BY TextStays
  <2>2. LevelRead(l, Len(Text(l.name)) + 1, 1)' <=> LevelRead(l, Len(Text(l.name)) + 1, 1)
    BY LevelReadStays, <2>1
  <2>3. QED
    BY <2>2 DEF LevelDone
<1>2. QED
  BY <1>1 DEF Loaded, Finished

----------------------------------------------------------------------------
(* Where the parser is: the level is what the lines before it say, and so is  *)
(* the actor, whose file is the one the line names.                          *)

InLevel(l, a, t) ==
  /\ LevelRead(l, a, t)
  /\ a \in 1 .. Len(Text(l.name)) + 1
  /\ IF a \in DOMAIN Text(l.name) /\ Text(l.name)[a].is = "MON"
     THEN t \in 1 .. Len(Text(l.name)[a].files) + 1 ELSE t = 1

InActor(l, a, t, b, n) ==
  /\ InLevel(l, a, t) /\ a \in DOMAIN Text(l.name)
  /\ ActorRead(b, n) /\ n \in 1 .. Len(Text(b.file)) + 1
  /\ LET line_a == Text(l.name)[a]
     IN \/ line_a.is = "PAC" /\ b.file = line_a.file
        \/ line_a.is = "MON" /\ t \in DOMAIN line_a.files /\ b.file = line_a.files[t]

LEMMA InLevelStays ==
  ASSUME disk' = disk, NEW l, NEW a, NEW t
  PROVE  InLevel(l, a, t)' <=> InLevel(l, a, t)
BY LevelReadStays, TextStays DEF InLevel

LEMMA InActorStays ==
  ASSUME disk' = disk, NEW l, NEW a, NEW t, NEW b, NEW n
  PROVE  InActor(l, a, t, b, n)' <=> InActor(l, a, t, b, n)
<1>1. InLevel(l, a, t)' <=> InLevel(l, a, t)
  BY InLevelStays
<1>2. ActorRead(b, n)' <=> ActorRead(b, n)
  BY ActorReadStays
<1>3. Text(l.name)' = Text(l.name) /\ Text(b.file)' = Text(b.file)
  BY TextStays
<1>4. QED
  BY <1>1, <1>2, <1>3 DEF InActor

\* A line of a level, and what was read before it.
LEMMA InLevelType ==
  ASSUME disk \in Disks, NEW l, NEW a, NEW t, InLevel(l, a, t), a \in DOMAIN Text(l.name)
  PROVE  /\ l \in Levels /\ l.name \in LevelNames /\ Text(l.name) # NoFile
         /\ Len(l.cells) = l.w * l.h
         /\ MonstersRead(l.name, l.ghosts, a, t) /\ PacmenRead(l.name, l.pacmans, a)
         /\ MatrixRead(l, a) /\ TempoRead(l, a)
         /\ Text(l.name)[a] \in LevelLines /\ a \in Nat \ {0} /\ t \in Nat \ {0}
         /\ Text(l.name)[a].is # "MON" => t = 1
         /\ Text(l.name)[a].is = "MON" =>
              /\ Text(l.name)[a].files \in Seq(ActorNames)
              /\ t \in 1 .. Len(Text(l.name)[a].files) + 1
<1>1. /\ l \in Levels /\ l.name \in LevelNames /\ Text(l.name) # NoFile
      /\ Len(l.cells) = l.w * l.h
      /\ MonstersRead(l.name, l.ghosts, a, t) /\ PacmenRead(l.name, l.pacmans, a)
      /\ MatrixRead(l, a) /\ TempoRead(l, a)
  BY DEF InLevel, LevelRead
<1>2. Text(l.name)[a] \in LevelLines /\ a \in Nat \ {0}
  BY <1>1, LevelLineType
<1>3. IF Text(l.name)[a].is = "MON" THEN t \in 1 .. Len(Text(l.name)[a].files) + 1 ELSE t = 1
  BY DEF InLevel
<1>4. Text(l.name)[a].is = "MON" => Text(l.name)[a].files \in Seq(ActorNames)
  BY <1>2 DEF LevelLines
<1>5. t \in Nat \ {0}
  BY <1>3
<1> QED
  BY <1>1, <1>2, <1>3, <1>4, <1>5

LEMMA InNextLine ==
  ASSUME disk \in Disks, NEW l, NEW k, NEW a, NEW t, InLevel(l, a, t),
         a \in DOMAIN Text(l.name),
         Text(l.name)[a].is = "MON" => t = Len(Text(l.name)[a].files) + 1,
         k \in Levels, k.name = l.name, k.ghosts = l.ghosts, Len(k.cells) = k.w * k.h,
         PacmenRead(l.name, k.pacmans, a + 1), MatrixRead(k, a + 1),
         IF Text(l.name)[a].is = "TEMPO" THEN k.tempo = Text(l.name)[a].n
                                         ELSE k.tempo = l.tempo
  PROVE  InLevel(k, a + 1, 1)
<1> DEFINE name == l.name
<1>1. /\ name \in LevelNames /\ Text(name) # NoFile /\ a \in Nat /\ t \in Nat
      /\ MonstersRead(name, l.ghosts, a, t)
      /\ Text(name)[a].is # "MON" => t = 1
  BY InLevelType
<1>2. MonstersRead(name, l.ghosts, a + 1, 1)
  BY <1>1, MonstersNextLine
<1>3. TempoRead(k, a + 1)
  BY <1>1, InLevelType, TempoNextLine
<1>4. LevelRead(k, a + 1, 1)
  BY <1>1, <1>2, <1>3 DEF LevelRead
<1>5. a \in 1 .. Len(Text(name)) /\ Len(Text(name)) \in Nat
  BY <1>1, LevelLineType
<1>6. a + 1 \in 1 .. Len(Text(name)) + 1
  BY <1>5
<1>7. ASSUME a + 1 \in DOMAIN Text(name), Text(name)[a + 1].is = "MON"
      PROVE  1 \in 1 .. Len(Text(name)[a + 1].files) + 1
  <2>1. Text(name)[a + 1] \in LevelLines
    BY <1>1, <1>7, LevelLineType
  <2>2. Text(name)[a + 1].files \in Seq(ActorNames)
    BY <1>7, <2>1 DEF LevelLines
  <2>3. Len(Text(name)[a + 1].files) \in Nat
    BY <2>2, LenProperties
  <2> QED
    BY <2>3
<1> QED
  BY <1>4, <1>6, <1>7 DEF InLevel

LEMMA DimInLevel ==
  ASSUME disk \in Disks, NEW l, NEW a, NEW t, InLevel(l, a, t),
         a \in DOMAIN Text(l.name), Text(l.name)[a].is = "DIM"
  PROVE  LET d == Text(l.name)[a]
         IN InLevel([l EXCEPT !.w = d.w, !.h = d.h,
                              !.cells = [i \in 1 .. d.w * d.h |-> Undefined]], a + 1, 1)
<1> DEFINE d == Text(l.name)[a]
           cells == [i \in 1 .. d.w * d.h |-> Undefined]
           k == [l EXCEPT !.w = d.w, !.h = d.h, !.cells = cells]
<1>1. /\ l \in Levels /\ l.name \in LevelNames /\ Text(l.name) # NoFile
      /\ PacmenRead(l.name, l.pacmans, a) /\ MatrixRead(l, a) /\ d \in LevelLines
  BY InLevelType
<1>2. d.w \in Nat /\ d.h \in Nat
  BY <1>1 DEF LevelLines
<1>3. d.w * d.h \in Nat
  BY <1>2
<1>4. cells \in Seq(Cells \cup {Undefined}) /\ Len(cells) = d.w * d.h
  <2> DEFINE size == d.w * d.h
  <2> HIDE DEF size
  <2>1. [i \in 1 .. size |-> Undefined] \in Seq(Cells \cup {Undefined})
    BY <1>3 DEF size
  <2>2. Len([i \in 1 .. size |-> Undefined]) = size
    BY <1>3 DEF size
  <2> QED
    BY <2>1, <2>2 DEF size
<1> HIDE DEF cells
<1>5. /\ k \in Levels /\ k.name = l.name /\ k.w = d.w /\ k.h = d.h /\ k.filled = l.filled
      /\ k.cells = cells /\ k.ghosts = l.ghosts /\ k.pacmans = l.pacmans /\ l.w \in Nat
      /\ k.tempo = l.tempo
  BY <1>1, <1>2, <1>4 DEF Levels
<1> HIDE DEF k
<1>6. MatrixRead(k, a + 1)
  BY <1>1, <1>5, MatrixAtDim
<1>7. PacmenRead(l.name, k.pacmans, a + 1)
  BY <1>1, <1>5, PacmenNextLine
<1>8. InLevel(k, a + 1, 1)
  BY <1>4, <1>5, <1>6, <1>7, InNextLine
<1> QED
  BY <1>8 DEF k, cells

LEMMA WithActors ==
  ASSUME NEW l \in Levels, NEW actors \in Seq(Actors)
  PROVE  /\ LET k == [l EXCEPT !.pacmans = actors]
            IN /\ k \in Levels /\ k.name = l.name /\ k.w = l.w /\ k.h = l.h
               /\ k.filled = l.filled /\ k.cells = l.cells
               /\ k.ghosts = l.ghosts /\ k.pacmans = actors /\ k.tempo = l.tempo
         /\ LET k == [l EXCEPT !.ghosts = actors]
            IN /\ k \in Levels /\ k.name = l.name /\ k.w = l.w /\ k.h = l.h
               /\ k.filled = l.filled /\ k.cells = l.cells
               /\ k.ghosts = actors /\ k.pacmans = l.pacmans /\ k.tempo = l.tempo
BY DEF Levels

LEMMA Zero == 0 \in Nat /\ 0 \in Int
OBVIOUS

LEMMA NewLevelType ==
  ASSUME NEW name \in Names \cup {""}
  PROVE  LET l == NewLevel(name)
         IN /\ l \in Levels /\ l.name = name /\ l.w = 0 /\ l.h = 0 /\ l.filled = 0
            /\ l.cells = <<>> /\ l.ghosts = <<>> /\ l.pacmans = <<>>
<1>1. ASSUME NEW c \in Seq(Cells \cup {Undefined}), NEW b \in Seq(Actors),
             NEW n \in Nat, NEW i \in Int
      PROVE  [name |-> name, w |-> n, h |-> n, tempo |-> i, filled |-> n,
              cells |-> c, pacmans |-> b, ghosts |-> b] \in Levels
  BY DEF Levels
<1>2. <<>> \in Seq(Cells \cup {Undefined}) /\ <<>> \in Seq(Actors)
  BY EmptySeq, Zenon
<1>3. NewLevel(name) \in Levels
  BY <1>1, <1>2, Zero, Zenon DEF NewLevel
<1> QED
  BY <1>3 DEF NewLevel

LEMMA RowInLevel ==
  ASSUME disk \in Disks, NEW l, NEW a, NEW t, InLevel(l, a, t),
         a \in DOMAIN Text(l.name), Text(l.name)[a].is = "row",
         l.filled + l.w <= Len(l.cells)
  PROVE  InLevel([l EXCEPT !.filled = l.filled + l.w,
                           !.cells = Filled(l, Text(l.name)[a].cells)], a + 1, 1)
<1> DEFINE r == Text(l.name)[a].cells
           cells == Filled(l, r)
           filled == l.filled + l.w
           k == [l EXCEPT !.filled = filled, !.cells = cells]
<1>1. /\ l \in Levels /\ l.name \in LevelNames /\ Text(l.name) # NoFile
      /\ Len(l.cells) = l.w * l.h
      /\ PacmenRead(l.name, l.pacmans, a) /\ MatrixRead(l, a)
      /\ Text(l.name)[a] \in LevelLines
  BY InLevelType
<1>2. r \in Seq(Letters)
  BY <1>1 DEF LevelLines
<1>3. /\ l.cells \in Seq(Cells \cup {Undefined}) /\ l.w \in Nat /\ l.filled \in Nat
      /\ DOMAIN l.cells = 1 .. Len(l.cells) /\ Len(l.cells) \in Nat
  BY <1>1, LenProperties DEF Levels
<1>4. \A i \in DOMAIN r : CellOf(r[i]) \in Cells
  BY <1>2, CellOfType, ElementOfSeq, LenProperties
<1>5. cells \in [1 .. Len(l.cells) -> Cells \cup {Undefined}]
  <2> HIDE DEF r
  <2>1. ASSUME NEW i \in DOMAIN l.cells
        PROVE  (IF i \in l.filled + 1 .. l.filled + l.w
                THEN IF i - l.filled \in DOMAIN r THEN CellOf(r[i - l.filled]) ELSE Undefined
                ELSE l.cells[i]) \in Cells \cup {Undefined}
    <3>1. l.cells[i] \in Cells \cup {Undefined}
      BY <1>3, ElementOfSeq
    <3> QED
      BY <1>4, <3>1, Zenon
  <2> QED
    BY <1>3, <2>1, Zenon DEF Filled
<1> HIDE DEF cells
<1>6. cells \in Seq(Cells \cup {Undefined}) /\ Len(cells) = Len(l.cells)
  BY <1>3, <1>5
<1>7. /\ k \in Levels /\ k.name = l.name /\ k.w = l.w /\ k.h = l.h
      /\ k.filled = filled /\ k.cells = cells
      /\ k.ghosts = l.ghosts /\ k.pacmans = l.pacmans /\ k.tempo = l.tempo
  <2>1. filled \in Nat
    BY <1>3
  <2>2. ASSUME NEW c, c = cells, NEW f, f = filled PROVE k = [l EXCEPT !.filled = f, !.cells = c]
    BY <2>2
  <2> HIDE DEF filled, k, r
  <2>3. ASSUME NEW c \in Seq(Cells \cup {Undefined}), NEW f \in Nat,
               k = [l EXCEPT !.filled = f, !.cells = c]
        PROVE  /\ k \in Levels /\ k.name = l.name /\ k.w = l.w /\ k.h = l.h
               /\ k.filled = f /\ k.cells = c
               /\ k.ghosts = l.ghosts /\ k.pacmans = l.pacmans /\ k.tempo = l.tempo
    BY <1>1, <2>3 DEF Levels
  <2> QED
    BY <1>6, <2>1, <2>2, <2>3, Zenon
<1> HIDE DEF k
<1>8. MatrixRead(k, a + 1)
  BY <1>1, <1>3, <1>7, MatrixAtRow DEF cells, filled
<1>9. PacmenRead(l.name, k.pacmans, a + 1)
  BY <1>1, <1>7, PacmenNextLine
<1>10. InLevel(k, a + 1, 1)
  BY <1>1, <1>6, <1>7, <1>8, <1>9, InNextLine
<1> QED
  BY <1>10 DEF k, cells, r, filled

\* A line that is neither, and names no actor.
LEMMA OtherLineInLevel ==
  ASSUME disk \in Disks, NEW l, NEW k, NEW a, NEW t, InLevel(l, a, t),
         a \in DOMAIN Text(l.name), Text(l.name)[a].is \in {"TEMPO", "#", "MON"},
         Text(l.name)[a].is = "MON" => t \notin DOMAIN Text(l.name)[a].files,
         k \in Levels, k.name = l.name, k.w = l.w, k.h = l.h, k.filled = l.filled,
         k.cells = l.cells, k.ghosts = l.ghosts, k.pacmans = l.pacmans,
         IF Text(l.name)[a].is = "TEMPO" THEN k.tempo = Text(l.name)[a].n
                                         ELSE k.tempo = l.tempo
  PROVE  InLevel(k, a + 1, 1)
<1>1. /\ l.name \in LevelNames /\ Text(l.name) # NoFile /\ Len(l.cells) = l.w * l.h
      /\ PacmenRead(l.name, l.pacmans, a) /\ MatrixRead(l, a)
      /\ Text(l.name)[a].is = "MON" =>
           /\ Text(l.name)[a].files \in Seq(ActorNames)
           /\ t \in 1 .. Len(Text(l.name)[a].files) + 1
  BY InLevelType
<1>2. Text(l.name)[a].is = "MON" => t = Len(Text(l.name)[a].files) + 1
  BY <1>1, LenProperties
<1>3. Text(l.name)[a].is \notin {"DIM", "row"} /\ Text(l.name)[a].is # "PAC"
  OBVIOUS
<1>4. MatrixRead(k, a + 1)
  BY <1>1, <1>3, MatrixNextLine
<1>5. PacmenRead(l.name, k.pacmans, a + 1)
  BY <1>1, <1>3, PacmenNextLine
<1> QED
  BY <1>1, <1>2, <1>4, <1>5, InNextLine

\* An actor whose file can be opened.
LEMMA ActorOpens ==
  ASSUME disk \in Disks, NEW l, NEW a, NEW t, InLevel(l, a, t),
         a \in DOMAIN Text(l.name), NEW name, Text(name) # NoFile,
         \/ Text(l.name)[a].is = "PAC" /\ name = Text(l.name)[a].file
         \/ /\ Text(l.name)[a].is = "MON" /\ t \in DOMAIN Text(l.name)[a].files
            /\ name = Text(l.name)[a].files[t]
  PROVE  InActor(l, a, t, NewActor(name), 1) /\ NewActor(name) \in Actors
<1>1. /\ Text(l.name)[a] \in LevelLines
      /\ Text(l.name)[a].is = "MON" => Text(l.name)[a].files \in Seq(ActorNames)
  BY InLevelType
<1>2. name \in ActorNames
  <2>1. CASE Text(l.name)[a].is = "PAC" /\ name = Text(l.name)[a].file
    BY <1>1, <2>1 DEF LevelLines
  <2>2. CASE /\ Text(l.name)[a].is = "MON" /\ t \in DOMAIN Text(l.name)[a].files
             /\ name = Text(l.name)[a].files[t]
    BY <1>1, <2>2, LenProperties, ElementOfSeq
  <2> QED
    BY <2>1, <2>2
<1>3. ActorRead(NewActor(name), 1)
  BY <1>2, ActorStarts
<1>4. NewActor(name).file = name /\ NewActor(name) \in Actors
  BY <1>3 DEF NewActor, ActorRead
<1>5. Len(Text(name)) \in Nat
  BY <1>2, ActorText, LenProperties
<1>6. 1 \in 1 .. Len(Text(name)) + 1
  BY <1>5
<1> HIDE DEF NewActor
<1> QED
  BY <1>3, <1>4, <1>6 DEF InActor

LEMMA InActorType ==
  ASSUME disk \in Disks, NEW l, NEW a, NEW t, NEW b, NEW n, InActor(l, a, t, b, n)
  PROVE  /\ InLevel(l, a, t) /\ a \in DOMAIN Text(l.name)
         /\ ActorRead(b, n) /\ b \in Actors /\ b.won = Undefined
         /\ b.file \in ActorNames /\ Text(b.file) # NoFile
         /\ DOMAIN Text(b.file) = 1 .. Len(Text(b.file)) /\ Len(Text(b.file)) \in Nat
         /\ n \in 1 .. Len(Text(b.file)) + 1
         /\ n \notin DOMAIN Text(b.file) => ActorDone(b)
<1>1. /\ InLevel(l, a, t) /\ a \in DOMAIN Text(l.name)
      /\ ActorRead(b, n) /\ n \in 1 .. Len(Text(b.file)) + 1
  BY DEF InActor
<1>2. b \in Actors /\ b.won = Undefined /\ b.file \in ActorNames /\ Text(b.file) # NoFile
  BY <1>1 DEF ActorRead
<1>3. DOMAIN Text(b.file) = 1 .. Len(Text(b.file)) /\ Len(Text(b.file)) \in Nat
  BY <1>2, ActorText, LenProperties
<1>4. n \notin DOMAIN Text(b.file) => n = Len(Text(b.file)) + 1
  BY <1>1, <1>3
<1> QED
  BY <1>1, <1>2, <1>3, <1>4, Zenon DEF ActorDone

LEMMA LineInActor ==
  ASSUME disk \in Disks, NEW l, NEW a, NEW t, NEW b, NEW n, InActor(l, a, t, b, n),
         n \in DOMAIN Text(b.file)
  PROVE  LET c == ReadActorLine(b, Text(b.file)[n])
         IN InActor(l, a, t, c, n + 1) /\ c \in Actors
<1> DEFINE c == ReadActorLine(b, Text(b.file)[n])
<1>1. /\ ActorRead(b, n) /\ b.file \in ActorNames /\ Text(b.file) # NoFile /\ b \in Actors
      /\ DOMAIN Text(b.file) = 1 .. Len(Text(b.file)) /\ Len(Text(b.file)) \in Nat
  BY InActorType
<1>2. ActorRead(c, n + 1)
  BY <1>1, ActorReadsOn
<1>3. c.file = b.file
  <2>1. Text(b.file)[n] \in ActorLines
    BY <1>1, ActorLineType
  <2>2. Text(b.file)[n].is \in {"PASSO", "POS", "#", "move"}
    BY <2>1 DEF ActorLines
  <2> QED
    BY <1>1, <2>2 DEF ReadActorLine, Actors
<1>4. c \in Actors
  BY <1>2 DEF ActorRead
<1>5. n + 1 \in 1 .. Len(Text(b.file)) + 1
  BY <1>1
<1> HIDE DEF c
<1>6. InActor(l, a, t, c, n + 1)
  BY <1>2, <1>3, <1>5 DEF InActor
<1> QED
  BY <1>4, <1>6 DEF c

\* A pacman joins its level, or a monster.
LEMMA PacmanInLevel ==
  ASSUME disk \in Disks, NEW l, NEW a, NEW t, NEW b, NEW n, InActor(l, a, t, b, n),
         n \notin DOMAIN Text(b.file), Text(l.name)[a].is = "PAC"
  PROVE  InLevel([l EXCEPT !.pacmans = Append(l.pacmans, b)], a + 1, 1)
<1> DEFINE k == [l EXCEPT !.pacmans = Append(l.pacmans, b)]
<1>1. /\ InLevel(l, a, t) /\ a \in DOMAIN Text(l.name) /\ b \in Actors /\ b.won = Undefined
      /\ Text(b.file) # NoFile
  BY InActorType
<1>2. /\ l \in Levels /\ l.name \in LevelNames /\ Text(l.name) # NoFile
      /\ Len(l.cells) = l.w * l.h
      /\ PacmenRead(l.name, l.pacmans, a) /\ MatrixRead(l, a)
  BY <1>1, InLevelType
<1>3. b.file = Text(l.name)[a].file
  BY DEF InActor
<1>4. l.pacmans \in Seq(Actors) /\ Append(l.pacmans, b) \in Seq(Actors)
  <2>1. l.pacmans \in Seq(Actors)
    BY <1>2 DEF Levels
  <2> QED
    BY <1>1, <2>1
<1>5. PacmenRead(l.name, Append(l.pacmans, b), a + 1)
  BY <1>1, <1>2, <1>3, <1>4, PacmanJoins
<1>6. /\ k \in Levels /\ k.name = l.name /\ k.w = l.w /\ k.h = l.h /\ k.filled = l.filled
      /\ k.cells = l.cells /\ k.ghosts = l.ghosts /\ k.pacmans = Append(l.pacmans, b)
      /\ k.tempo = l.tempo
  BY <1>2, <1>4, WithActors
<1> HIDE DEF k
<1>7. Text(l.name)[a].is \notin {"DIM", "row", "TEMPO"} /\ Text(l.name)[a].is # "MON"
  OBVIOUS
<1>8. MatrixRead(k, a + 1)
  BY <1>1, <1>2, <1>6, <1>7, MatrixNextLine
<1>9. InLevel(k, a + 1, 1)
  BY <1>1, <1>2, <1>5, <1>6, <1>7, <1>8, InNextLine
<1> QED
  BY <1>9 DEF k

LEMMA SameMatrix ==
  ASSUME NEW l, NEW k, NEW a, MatrixRead(l, a),
         k.name = l.name, k.w = l.w, k.h = l.h, k.filled = l.filled, k.cells = l.cells
  PROVE  MatrixRead(k, a)
BY DEF MatrixRead

LEMMA MonsterInLevel ==
  ASSUME disk \in Disks, NEW l, NEW a, NEW t, NEW b, NEW n, InActor(l, a, t, b, n),
         n \notin DOMAIN Text(b.file), Text(l.name)[a].is = "MON"
  PROVE  InLevel([l EXCEPT !.ghosts = Append(l.ghosts, b)], a, t + 1)
<1> DEFINE k == [l EXCEPT !.ghosts = Append(l.ghosts, b)]
           files == Text(l.name)[a].files
<1>1. /\ InLevel(l, a, t) /\ a \in DOMAIN Text(l.name) /\ b \in Actors /\ ActorDone(b)
  BY InActorType
<1>2. /\ l \in Levels /\ l.name \in LevelNames /\ Text(l.name) # NoFile
      /\ Len(l.cells) = l.w * l.h /\ a \in Nat /\ t \in Nat
      /\ MonstersRead(l.name, l.ghosts, a, t)
      /\ PacmenRead(l.name, l.pacmans, a) /\ MatrixRead(l, a)
      /\ files \in Seq(ActorNames)
  BY <1>1, InLevelType
<1>3. t \in DOMAIN files /\ b.file = files[t]
  BY DEF InActor
<1>4. <<a, t>> \in Mentions(l.name) /\ b.file = MonsterAt(l.name, <<a, t>>)
  BY <1>1, <1>2, <1>3, WordsAreMentions DEF MonsterAt
<1>5. l.ghosts \in Seq(Actors) /\ Append(l.ghosts, b) \in Seq(Actors)
  <2>1. l.ghosts \in Seq(Actors)
    BY <1>2 DEF Levels
  <2> QED
    BY <1>1, <2>1
<1>6. MonstersRead(l.name, Append(l.ghosts, b), a, t + 1)
  BY <1>1, <1>2, <1>4, <1>5, MonsterJoins
<1>7. /\ k \in Levels /\ k.name = l.name /\ k.w = l.w /\ k.h = l.h /\ k.filled = l.filled
      /\ k.cells = l.cells /\ k.ghosts = Append(l.ghosts, b) /\ k.pacmans = l.pacmans
      /\ k.tempo = l.tempo
  BY <1>2, <1>5, WithActors
<1>8. t + 1 \in 1 .. Len(files) + 1
  BY <1>2, <1>3, LenProperties
<1> HIDE DEF k, files
<1>9. MatrixRead(k, a)
  BY <1>2, <1>7, SameMatrix
<1>10. TempoRead(k, a)
  <2>1. TempoRead(l, a)
    BY <1>1, InLevelType
  <2> QED
    BY <1>7, <2>1 DEF TempoRead
<1>11. LevelRead(k, a, t + 1)
  BY <1>2, <1>6, <1>7, <1>9, <1>10 DEF LevelRead
<1>12. a \in 1 .. Len(Text(l.name)) + 1
  BY <1>1 DEF InLevel
<1>13. InLevel(k, a, t + 1)
  BY <1>1, <1>7, <1>8, <1>11, <1>12 DEF InLevel, files
<1> QED
  BY <1>13 DEF k

\* The level of a file that can be opened, of which nothing has been read.
LEMMA LevelOpens ==
  ASSUME disk \in Disks, NEW name \in LevelNames, Text(name) # NoFile
  PROVE  InLevel(NewLevel(name), 1, 1)
<1> DEFINE l == NewLevel(name)
<1>1. <<>> \in Seq(Actors) /\ <<>> \in Seq(Cells \cup {Undefined}) /\ Len(<<>>) = 0
      /\ DOMAIN <<>> = {}
  BY EmptySeq
<1>2. name \in Names
  BY FilesAssumption, Zenon DEF LevelNames
<1>3. /\ l \in Levels /\ l.name = name /\ l.ghosts = <<>> /\ l.pacmans = <<>>
      /\ l.cells = <<>> /\ l.w = 0 /\ l.h = 0
  BY <1>2, NewLevelType
<1>4. MonstersRead(name, <<>>, 1, 1) /\ MatrixRead(l, 1)
  BY NoMonstersYet, NoMatrixYet
<1>5. PacmenRead(name, <<>>, 1)
  <2>1. \A i \in LinesOf(name, "PAC") : ~(i < 1)
    BY LevelTexts, Lines
  <2> QED
    BY <1>1, <2>1 DEF PacmenRead
<1> HIDE DEF l
<1>6. TempoRead(l, 1)
  <2>1. \A i \in LinesOf(name, "TEMPO") : ~(i < 1)
    BY LevelTexts, Lines
  <2> QED
    BY <1>3, <2>1 DEF TempoRead
<1>7. LevelRead(l, 1, 1)
  BY <1>1, <1>3, <1>4, <1>5, <1>6 DEF LevelRead
<1>8. Len(Text(name)) \in Nat
  BY LevelTexts, Lines
<1>9. 1 \in 1 .. Len(Text(name)) + 1
  BY <1>8
<1>10. ASSUME 1 \in DOMAIN Text(name), Text(name)[1].is = "MON"
      PROVE  1 \in 1 .. Len(Text(name)[1].files) + 1
  <2>1. Text(name)[1] \in LevelLines
    BY <1>10, LevelLineType
  <2>2. Text(name)[1].files \in Seq(ActorNames)
    BY <1>10, <2>1 DEF LevelLines
  <2>3. Len(Text(name)[1].files) \in Nat
    BY <2>2, LenProperties
  <2> QED
    BY <2>3
<1> QED
  BY <1>3, <1>7, <1>9, <1>10 DEF InLevel, l

LEMMA LevelEnds ==
  ASSUME disk \in Disks, NEW l, NEW a, NEW t, InLevel(l, a, t),
         a \notin DOMAIN Text(l.name), l.pacmans # <<>> \/ l.cells # <<>>
  PROVE  l \in Levels /\ LevelDone(l)
<1>1. l \in Levels /\ l.name \in LevelNames /\ Text(l.name) # NoFile /\ LevelRead(l, a, t)
  BY DEF InLevel, LevelRead
<1>2. DOMAIN Text(l.name) = 1 .. Len(Text(l.name)) /\ Len(Text(l.name)) \in Nat
  BY <1>1, LevelTexts, Lines
<1>3. a = Len(Text(l.name)) + 1 /\ t = 1
  BY <1>2 DEF InLevel
<1> QED
  BY <1>1, <1>3, Zenon DEF LevelDone

----------------------------------------------------------------------------
(* The inductive invariant.                                                  *)

Types ==
  /\ unread \subseteq DOMAIN disk
  /\ levels \in Seq(Levels) /\ lvl \in Levels /\ actor \in Actors
  /\ pc \in {"dir", "lines", "actor", "loaded", "failed", "undefined"}
  /\ at \in Nat \ {0} /\ tok \in Nat \ {0} /\ line \in Nat \ {0}
  /\ board \in Levels \cup {Undefined}

Progress ==
  /\ pc = "dir" => at = 1 /\ tok = 1 /\ line = 1
  /\ pc = "lines" => line = 1 /\ InLevel(lvl, at, tok)
  /\ pc = "actor" => InActor(lvl, at, tok, actor, line)

\* The level files that have yet to become levels, and the one being parsed.
Parsing == pc \in {"lines", "actor"}
Pending == {name \in LevelNames : name \in unread \/ (Parsing /\ name = lvl.name)}

Counted ==
  /\ pc = "failed" => levels = <<>>
  /\ pc \in {"dir", "lines", "actor", "loaded"} =>
       /\ Len(levels) + Cardinality(Pending) = Cardinality(LevelNames)
       /\ {levels[i].name : i \in DOMAIN levels} \cup Pending = LevelNames
  /\ Parsing => lvl.name \notin unread
  /\ pc = "loaded" => unread = {}

LevelsLoaded == \A i \in DOMAIN levels : Loaded(levels[i])

BoardLoaded ==
  board # Undefined => \E L \in Levels : Loaded(L) /\ Loadable(L) /\ board = LoadLevel(L)

IInv == disk \in Disks /\ Types /\ Progress /\ Counted /\ LevelsLoaded /\ BoardLoaded

LEMMA LevelsStayLoaded ==
  ASSUME LevelsLoaded, disk' = disk, levels' = levels
  PROVE  LevelsLoaded'
<1>1. \A L : Loaded(L) => Loaded(L)'
  BY LoadedStays
<1> QED
  BY <1>1 DEF LevelsLoaded

LEMMA BoardStaysLoaded ==
  ASSUME BoardLoaded, disk' = disk, board' = board
  PROVE  BoardLoaded'
<1>1. \A L : Loaded(L) => Loaded(L)'
  BY LoadedStays
<1> QED
  BY <1>1 DEF BoardLoaded

LEMMA InLevelNext ==
  ASSUME disk' = disk, NEW l, NEW a, NEW t, InLevel(l, a, t),
         lvl' = l, at' = a, tok' = t
  PROVE  InLevel(lvl, at, tok)'
<1>1. InLevel(l, a, t)'
  BY InLevelStays
<1> QED
  BY <1>1, Zenon

LEMMA InActorNext ==
  ASSUME disk' = disk, NEW l, NEW a, NEW t, NEW b, NEW n, InActor(l, a, t, b, n),
         lvl' = l, at' = a, tok' = t, actor' = b, line' = n
  PROVE  InActor(lvl, at, tok, actor, line)'
<1>1. InActor(l, a, t, b, n)'
  BY InActorStays
<1> QED
  BY <1>1, Zenon

LEMMA LevelNamesStay ==
  ASSUME disk' = disk
  PROVE  LevelNames' = LevelNames
BY DEF LevelNames

\* A step of parseLvl, parseMonster or parsePacman.
LEMMA ParseStep ==
  ASSUME IInv, Parsing, Parsing', UNCHANGED <<disk, unread, levels, board>>,
         lvl'.name = lvl.name, Types', Progress'
  PROVE  IInv'
<1>1. LevelsLoaded' /\ BoardLoaded'
  BY LevelsStayLoaded, BoardStaysLoaded DEF IInv
<1>2. Pending' = Pending
  BY LevelNamesStay DEF Pending
<1>3. Counted'
  BY <1>2, LevelNamesStay DEF IInv, Counted, Parsing
<1> QED
  BY <1>1, <1>3 DEF IInv

LEMMA EmptyTypes ==
  /\ NoLevel \in Levels /\ NoActor \in Actors /\ <<>> \in Seq(Levels)
  /\ 1 \in Nat \ {0}
<1>1. NoLevel \in Levels
  BY NewLevelType, Zenon DEF NoLevel
<1>2. NoActor \in Actors
  BY ActorRecord, EmptySeq, Zenon DEF NoActor, NewActor, Actors, Numbers
<1> QED
  BY <1>1, <1>2, EmptySeq

LEMMA GivesUp ==
  ASSUME IInv, GiveUp, UNCHANGED <<disk, board>>, unread' \subseteq unread
  PROVE  IInv'
<1>1. LevelsLoaded'
  BY EmptySeq DEF GiveUp, LevelsLoaded
<1>2. BoardLoaded'
  BY BoardStaysLoaded DEF IInv
<1>3. Types'
  BY EmptyTypes, Zenon DEF IInv, Types, GiveUp, ParsesNothing
<1>4. Progress' /\ Counted'
  BY DEF GiveUp, Progress, Counted, Parsing
<1> QED
  BY <1>1, <1>2, <1>3, <1>4 DEF IInv

LEMMA BreaksDown ==
  ASSUME IInv, Breaks, UNCHANGED <<disk, unread, board>>
  PROVE  IInv'
<1>1. LevelsLoaded' /\ BoardLoaded'
  BY LevelsStayLoaded, BoardStaysLoaded DEF IInv, Breaks
<1>2. Types'
  BY DEF IInv, Types, Breaks, parsed
<1>3. Progress' /\ Counted'
  BY DEF Breaks, Progress, Counted, Parsing
<1> QED
  BY <1>1, <1>2, <1>3 DEF IInv

LEMMA Stutters ==
  ASSUME IInv, UNCHANGED vars
  PROVE  IInv'
<1>1. LevelsLoaded' /\ BoardLoaded'
  BY LevelsStayLoaded, BoardStaysLoaded DEF IInv, vars
<1>2. Types'
  BY DEF IInv, Types, vars, parsed
<1>3. pc = "lines" => InLevel(lvl, at, tok)'
  BY InLevelNext, Zenon DEF IInv, Progress, vars, parsed
<1>4. pc = "actor" => InActor(lvl, at, tok, actor, line)'
  BY InActorNext, Zenon DEF IInv, Progress, vars, parsed
<1>5. Progress'
  BY <1>3, <1>4 DEF IInv, Progress, vars, parsed
<1>6. Pending' = Pending
  BY LevelNamesStay DEF Pending, Parsing, vars, parsed
<1>7. Counted'
  BY <1>6, LevelNamesStay DEF IInv, Counted, Parsing, vars, parsed
<1> QED
  BY <1>1, <1>2, <1>5, <1>7 DEF IInv, vars

LEMMA InitIInv ==
  ASSUME Init
  PROVE  IInv
<1>1. Types
  <2>1. levels \in Seq(Levels) /\ lvl \in Levels /\ actor \in Actors
        /\ at \in Nat \ {0} /\ tok \in Nat \ {0} /\ line \in Nat \ {0}
    BY EmptyTypes, Zenon DEF Init
  <2> QED
    BY <2>1 DEF Init, Types
<1>2. Progress
  BY DEF Init, Progress
<1>3. Pending = LevelNames
  BY DEF Init, Pending, LevelNames
<1>4. Len(levels) = 0 /\ {levels[i].name : i \in DOMAIN levels} = {} /\ LevelsLoaded
  BY EmptySeq DEF Init, LevelsLoaded
<1>5. Cardinality(LevelNames) \in Nat
  BY LevelNamesFinite, FS_CardinalityType DEF Init
<1>6. Counted
  BY <1>3, <1>4, <1>5 DEF Init, Counted, Parsing
<1> QED
  BY <1>1, <1>2, <1>4, <1>6 DEF Init, IInv, BoardLoaded

LEMMA OpensLevelStep ==
  ASSUME IInv, NEW name \in unread, OpensLevel(name)
  PROVE  IInv'
<1>1. CASE Text(name) = NoFile /\ GiveUp
  BY <1>1, GivesUp DEF OpensLevel
<1>2. CASE /\ Text(name) # NoFile
           /\ lvl' = NewLevel(name)
           /\ pc' = "lines"
           /\ UNCHANGED <<levels, at, tok, actor, line>>
  <2>1. /\ pc = "dir" /\ Extension[name] = ".lvl" /\ unread' = unread \ {name}
        /\ UNCHANGED <<disk, board>> /\ disk \in Disks
        /\ at = 1 /\ tok = 1 /\ line = 1
    BY DEF OpensLevel, IInv, Progress
  <2>2. name \in LevelNames
    BY <2>1 DEF IInv, Types, LevelNames
  <2>3. InLevel(NewLevel(name), 1, 1)
    BY <1>2, <2>1, <2>2, LevelOpens
  <2>4. InLevel(lvl, at, tok)'
    BY <1>2, <2>1, <2>3, InLevelNext, Zenon
  <2>5. NewLevel(name) \in Levels /\ NewLevel(name).name = name
    BY <2>1, <2>2, NewLevelType, FilesAssumption, Zenon DEF LevelNames
  <2>6. Types'
    BY <1>2, <2>1, <2>5 DEF IInv, Types
  <2>7. Progress'
    BY <1>2, <2>1, <2>4 DEF Progress
  <2>8. Pending' = Pending /\ lvl'.name = name
    BY <1>2, <2>1, <2>2, <2>5, LevelNamesStay DEF Pending, Parsing
  <2>9. Counted'
    BY <1>2, <2>1, <2>8, LevelNamesStay DEF IInv, Counted, Parsing
  <2>10. LevelsLoaded' /\ BoardLoaded'
    BY <1>2, <2>1, LevelsStayLoaded, BoardStaysLoaded DEF IInv
  <2> QED
    BY <2>1, <2>6, <2>7, <2>9, <2>10 DEF IInv
<1> QED
  BY <1>1, <1>2 DEF OpensLevel

LEMMA OutOfMemoryStep ==
  ASSUME IInv, OutOfMemory
  PROVE  IInv'
BY GivesUp, BreaksDown DEF OutOfMemory

LEMMA EndsDirectoryStep ==
  ASSUME IInv, EndsDirectory
  PROVE  IInv'
<1>1. /\ pc = "dir" /\ unread = {} /\ pc' = "loaded"
      /\ UNCHANGED <<disk, unread, levels, lvl, at, tok, actor, line, board>>
  BY DEF EndsDirectory, parsed
<1>2. Types' /\ Progress'
  BY <1>1 DEF IInv, Types, Progress
<1>3. Pending' = Pending
  BY <1>1, LevelNamesStay DEF Pending, Parsing
<1>4. Counted'
  BY <1>1, <1>3, LevelNamesStay DEF IInv, Counted, Parsing
<1>5. LevelsLoaded' /\ BoardLoaded'
  BY <1>1, LevelsStayLoaded, BoardStaysLoaded DEF IInv
<1> QED
  BY <1>1, <1>2, <1>4, <1>5 DEF IInv

\* A step to the next line of the level.
LEMMA LineStep ==
  ASSUME IInv, pc = "lines", NextLine, UNCHANGED <<disk, unread, board>>,
         InLevel(lvl', at + 1, 1), tok = 1, lvl'.name = lvl.name
  PROVE  IInv'
<1>1. /\ pc' = "lines" /\ at' = at + 1 /\ UNCHANGED <<levels, tok, actor, line>> /\ line = 1
  BY DEF NextLine, IInv, Progress
<1>2. InLevel(lvl, at, tok)'
  BY <1>1, InLevelNext, Zenon
<1>3. lvl' \in Levels
  BY DEF InLevel, LevelRead
<1>4. Types' /\ Progress'
  BY <1>1, <1>2, <1>3 DEF IInv, Types, Progress
<1> QED
  BY <1>1, <1>4, ParseStep DEF Parsing

LEMMA LinesType ==
  ASSUME IInv, pc = "lines"
  PROVE  /\ disk \in Disks /\ InLevel(lvl, at, tok) /\ line = 1 /\ lvl \in Levels
         /\ at \in Nat /\ tok \in Nat
         /\ at \in DOMAIN Text(lvl.name) /\ Line.is # "MON" => tok = 1
<1>1. disk \in Disks /\ InLevel(lvl, at, tok) /\ line = 1 /\ lvl \in Levels
      /\ at \in Nat /\ tok \in Nat
  BY DEF IInv, Types, Progress
<1> QED
  BY <1>1 DEF InLevel, Line

LEMMA LevelLineSteps ==
  ASSUME IInv, ReadsDim \/ ReadsTempo \/ SkipsComment
  PROVE  IInv'
<1>1. pc = "lines" /\ at \in DOMAIN Text(lvl.name) /\ NextLine /\ UNCHANGED <<disk, unread, board>>
  BY DEF ReadsDim, ReadsTempo, SkipsComment, Reads
<1>2. disk \in Disks /\ InLevel(lvl, at, tok) /\ lvl \in Levels
      /\ (Line.is # "MON" => tok = 1)
  BY <1>1, LinesType
<1>3. CASE ReadsDim
  <2>1. Line.is = "DIM" /\ tok = 1
    BY <1>2, <1>3 DEF ReadsDim, Reads
  <2>2. InLevel(lvl', at + 1, 1)
    BY <1>1, <1>2, <1>3, <2>1, DimInLevel, Zenon DEF ReadsDim, Line
  <2>3. lvl'.name = lvl.name
    BY <1>2, <1>3 DEF ReadsDim, Levels
  <2> QED
    BY <1>1, <2>1, <2>2, <2>3, LineStep
<1>4. CASE ReadsTempo
  <2>1. Line.is = "TEMPO" /\ tok = 1
    BY <1>2, <1>4 DEF ReadsTempo, Reads
  <2>2. Line.n \in Int
    <3>1. Line \in LevelLines
      BY <1>1, <1>2, InLevelType DEF Line
    <3> QED
      BY <2>1, <3>1 DEF LevelLines
  <2>3. /\ lvl' \in Levels /\ lvl'.name = lvl.name /\ lvl'.w = lvl.w /\ lvl'.h = lvl.h
        /\ lvl'.filled = lvl.filled /\ lvl'.cells = lvl.cells /\ lvl'.ghosts = lvl.ghosts
        /\ lvl'.pacmans = lvl.pacmans /\ lvl'.tempo = Line.n
    BY <1>2, <1>4, <2>2 DEF ReadsTempo, Levels
  <2>4. InLevel(lvl', at + 1, 1)
    BY <1>1, <1>2, <2>1, <2>3, OtherLineInLevel DEF Line
  <2> QED
    BY <1>1, <2>1, <2>3, <2>4, LineStep
<1>5. CASE SkipsComment
  <2>1. Line.is = "#" /\ tok = 1 /\ lvl' = lvl
    BY <1>2, <1>5 DEF SkipsComment, Reads
  <2>2. InLevel(lvl, at + 1, 1)
    BY <1>1, <1>2, <2>1, OtherLineInLevel DEF Line
  <2> QED
    BY <1>1, <2>1, <2>2, LineStep
<1> QED
  BY <1>3, <1>4, <1>5

LEMMA ReadsRowStep ==
  ASSUME IInv, ReadsRow
  PROVE  IInv'
<1>1. /\ pc = "lines" /\ at \in DOMAIN Text(lvl.name) /\ Line.is = "row"
      /\ UNCHANGED <<disk, unread, board>>
  BY DEF ReadsRow, Reads
<1>2. disk \in Disks /\ InLevel(lvl, at, tok) /\ lvl \in Levels /\ tok = 1
  BY <1>1, LinesType
<1>3. CASE Breaks
  BY <1>1, <1>3, BreaksDown
<1>4. CASE /\ lvl.filled + lvl.w <= Len(lvl.cells)
           /\ lvl' = [lvl EXCEPT !.filled = lvl.filled + lvl.w,
                                 !.cells = Filled(lvl, Line.cells)]
           /\ NextLine
  <2>1. InLevel(lvl', at + 1, 1)
    BY <1>1, <1>2, <1>4, RowInLevel, Zenon DEF Line
  <2>2. lvl'.name = lvl.name
    BY <1>2, <1>4 DEF Levels
  <2> QED
    BY <1>1, <1>2, <1>4, <2>1, <2>2, LineStep
<1> QED
  BY <1>3, <1>4 DEF ReadsRow

LEMMA EndsMonStep ==
  ASSUME IInv, EndsMon
  PROVE  IInv'
<1>1. /\ pc = "lines" /\ at \in DOMAIN Text(lvl.name) /\ Line.is = "MON"
      /\ tok \notin DOMAIN Line.files /\ tok' = 1 /\ at' = at + 1
      /\ UNCHANGED <<disk, unread, levels, pc, lvl, actor, line, board>>
  BY DEF EndsMon, Reads
<1>2. disk \in Disks /\ InLevel(lvl, at, tok) /\ lvl \in Levels /\ line = 1
  BY <1>1, LinesType
<1>3. InLevel(lvl, at + 1, 1)
  BY <1>1, <1>2, OtherLineInLevel DEF Line
<1>4. InLevel(lvl, at, tok)'
  BY <1>1, <1>3, InLevelNext, Zenon
<1>5. Types' /\ Progress'
  BY <1>1, <1>2, <1>4 DEF IInv, Types, Progress
<1> QED
  BY <1>1, <1>5, ParseStep DEF Parsing

\* A line names an actor's file, which is opened or is not there.
LEMMA OpensActorStep ==
  ASSUME IInv, pc = "lines", at \in DOMAIN Text(lvl.name), UNCHANGED <<disk, unread, board>>,
         NEW name, OpensActor(name),
         \/ Text(lvl.name)[at].is = "PAC" /\ name = Text(lvl.name)[at].file
         \/ /\ Text(lvl.name)[at].is = "MON" /\ tok \in DOMAIN Text(lvl.name)[at].files
            /\ name = Text(lvl.name)[at].files[tok]
  PROVE  IInv'
<1>1. CASE Text(name) = NoFile /\ GiveUp
  BY <1>1, GivesUp
<1>2. CASE /\ Text(name) # NoFile
           /\ actor' = NewActor(name)
           /\ pc' = "actor"
           /\ UNCHANGED <<levels, lvl, at, tok, line>>
  <2>1. disk \in Disks /\ InLevel(lvl, at, tok) /\ lvl \in Levels /\ line = 1
    BY LinesType
  <2>2. InActor(lvl, at, tok, NewActor(name), 1) /\ NewActor(name) \in Actors
    BY <1>2, <2>1, ActorOpens
  <2>3. InActor(lvl, at, tok, actor, line)'
    BY <1>2, <2>1, <2>2, InActorNext, Zenon
  <2>4. Types' /\ Progress'
    BY <1>2, <2>2, <2>3 DEF IInv, Types, Progress
  <2> QED
    BY <1>2, <2>4, ParseStep DEF Parsing
<1> QED
  BY <1>1, <1>2 DEF OpensActor

LEMMA ReadsPacStep ==
  ASSUME IInv, ReadsPac
  PROVE  IInv'
BY OpensActorStep DEF ReadsPac, Reads, Line

LEMMA ReadsMonStep ==
  ASSUME IInv, ReadsMon
  PROVE  IInv'
BY OpensActorStep DEF ReadsMon, Reads, Line

LEMMA ReadsActorLineStep ==
  ASSUME IInv, ReadsActorLine
  PROVE  IInv'
<1>1. /\ pc = "actor" /\ line \in DOMAIN Text(actor.file) /\ UNCHANGED <<disk, unread, board>>
  BY DEF ReadsActorLine
<1>2. disk \in Disks /\ InActor(lvl, at, tok, actor, line)
  BY <1>1 DEF IInv, Progress
<1>3. CASE Breaks
  BY <1>1, <1>3, BreaksDown
<1>4. CASE /\ actor' = ReadActorLine(actor, Text(actor.file)[line])
           /\ line' = line + 1
           /\ UNCHANGED <<pc, levels, lvl, at, tok>>
  <2>1. /\ InActor(lvl, at, tok, ReadActorLine(actor, Text(actor.file)[line]), line + 1)
        /\ ReadActorLine(actor, Text(actor.file)[line]) \in Actors
    BY <1>1, <1>2, LineInActor
  <2>2. InActor(lvl, at, tok, actor, line)'
    BY <1>1, <1>4, <2>1, InActorNext, Zenon
  <2>3. Types'
    BY <1>1, <1>4, <2>1 DEF IInv, Types
  <2>4. Progress'
    BY <1>1, <1>4, <2>2 DEF Progress
  <2> QED
    BY <1>1, <1>4, <2>3, <2>4, ParseStep DEF Parsing
<1> QED
  BY <1>3, <1>4 DEF ReadsActorLine

LEMMA EndsActorStep ==
  ASSUME IInv, EndsActor
  PROVE  IInv'
<1>0. CASE Breaks
  BY <1>0, BreaksDown DEF EndsActor
<1> SUFFICES ASSUME ~Breaks PROVE IInv'
  BY <1>0
<1>1. /\ pc = "actor" /\ line \notin DOMAIN Text(actor.file) /\ pc' = "lines"
      /\ actor' = NoActor /\ line' = 1 /\ UNCHANGED <<disk, unread, levels, board>>
  BY DEF EndsActor
<1>2. disk \in Disks /\ InActor(lvl, at, tok, actor, line) /\ lvl \in Levels
      /\ at \in Nat \ {0} /\ tok \in Nat \ {0}
  BY <1>1 DEF IInv, Progress, Types
<1>3. ASSUME InLevel(lvl, at, tok)', at' \in Nat \ {0}, tok' \in Nat \ {0},
             lvl'.name = lvl.name
      PROVE  IInv'
  <2>1. lvl' \in Levels
    BY <1>3 DEF InLevel, LevelRead
  <2>2. NoActor \in Actors
    BY EmptyTypes
  <2>3. Types' /\ Progress'
    BY <1>1, <1>3, <2>1, <2>2 DEF IInv, Types, Progress
  <2> QED
    BY <1>1, <1>3, <2>3, ParseStep DEF Parsing
<1>4. CASE AddsPacman
  <2> USE DEF AddsPacman
  <2>1. InLevel([lvl EXCEPT !.pacmans = Append(lvl.pacmans, actor)], at + 1, 1)
    BY <1>1, <1>2, <1>4, PacmanInLevel DEF Line
  <2>2. tok = 1
    BY <1>2, <1>4 DEF InActor, InLevel, Line
  <2>3. InLevel(lvl, at, tok)'
    BY <1>1, <1>4, <2>1, <2>2, InLevelNext, Zenon
  <2>4. lvl'.name = lvl.name
    BY <1>2, <1>4 DEF Levels
  <2> QED
    BY <1>2, <1>3, <1>4, <2>3, <2>4
<1>5. CASE AddsGhost
  <2> USE DEF AddsGhost
  <2>1. InLevel([lvl EXCEPT !.ghosts = Append(lvl.ghosts, actor)], at, tok + 1)
    BY <1>1, <1>2, <1>5, MonsterInLevel DEF Line
  <2>2. InLevel(lvl, at, tok)'
    BY <1>1, <1>5, <2>1, InLevelNext, Zenon
  <2>3. lvl'.name = lvl.name
    BY <1>2, <1>5 DEF Levels
  <2> QED
    BY <1>2, <1>3, <1>5, <2>2, <2>3
<1> QED
  BY <1>4, <1>5 DEF EndsActor

\* One level more, and one file less to become one.
LEMMA FinishesLevelStep ==
  ASSUME IInv, FinishesLevel
  PROVE  IInv'
<1>1. /\ pc = "lines" /\ at \notin DOMAIN Text(lvl.name) /\ UNCHANGED <<disk, unread, board>>
  BY DEF FinishesLevel
<1>2. disk \in Disks /\ InLevel(lvl, at, tok) /\ lvl \in Levels
  BY <1>1, LinesType
<1>3. CASE Breaks
  BY <1>1, <1>3, BreaksDown
<1>4. CASE /\ lvl.pacmans # <<>> \/ lvl.cells # <<>>
           /\ levels' = Append(levels, Finished(lvl))
           /\ pc' = "dir"
           /\ ParsesNothing
  <2> DEFINE L == Finished(lvl)
  <2>1. LevelDone(lvl)
    BY <1>1, <1>2, <1>4, LevelEnds
  <2>2. L \in Levels /\ L.name = lvl.name
    BY <1>2, <2>1, FinishedType
  <2>3. Loaded(L)
    BY <1>2, <2>1 DEF Loaded
  <2> HIDE DEF L
  <2>4. levels \in Seq(Levels) /\ levels' = Append(levels, L)
    BY <1>4 DEF IInv, Types, L
  <2>5. /\ levels' \in Seq(Levels) /\ Len(levels') = Len(levels) + 1 /\ Len(levels) \in Nat
        /\ DOMAIN levels = 1 .. Len(levels) /\ DOMAIN levels' = 1 .. Len(levels) + 1
        /\ \A i \in DOMAIN levels : levels'[i] = levels[i]
        /\ levels'[Len(levels) + 1] = L
    BY <2>2, <2>4, AppendProperties, LenProperties
  <2>6. LevelsLoaded'
    <3>1. \A k : Loaded(k) => Loaded(k)'
      BY <1>1, LoadedStays
    <3>2. \A i \in DOMAIN levels' : Loaded(levels'[i])
      BY <2>3, <2>5 DEF IInv, LevelsLoaded
    <3> QED
      BY <3>1, <3>2 DEF LevelsLoaded
  <2>7. BoardLoaded'
    BY <1>1, BoardStaysLoaded DEF IInv
  <2>8. Types'
    BY <1>1, <1>4, <2>5, EmptyTypes, Zenon DEF IInv, Types, ParsesNothing
  <2>9. Progress'
    BY <1>4 DEF Progress, ParsesNothing
  <2>10. lvl.name \in LevelNames /\ lvl.name \notin unread
    BY <1>1, <1>2 DEF InLevel, LevelRead, IInv, Counted, Parsing
  <2>11. Pending' = Pending \ {lvl.name} /\ lvl.name \in Pending
    BY <1>1, <1>4, <2>10, LevelNamesStay DEF Pending, Parsing
  <2>12. IsFiniteSet(Pending)
    BY <1>2, LevelNamesFinite, FS_Subset DEF Pending
  <2>13. Cardinality(Pending') = Cardinality(Pending) - 1 /\ Cardinality(Pending) \in Nat
    BY <2>11, <2>12, FS_RemoveElement, FS_CardinalityType
  <2>14. {levels'[i].name : i \in DOMAIN levels'} =
           {levels[i].name : i \in DOMAIN levels} \cup {lvl.name}
    BY <2>2, <2>5
  <2>15. /\ Len(levels) + Cardinality(Pending) = Cardinality(LevelNames)
         /\ {levels[i].name : i \in DOMAIN levels} \cup Pending = LevelNames
    BY <1>1 DEF IInv, Counted
  <2>16. Len(levels') + Cardinality(Pending') = Cardinality(LevelNames')
    BY <1>1, <2>5, <2>13, <2>15, LevelNamesStay
  <2>17. {levels'[i].name : i \in DOMAIN levels'} \cup Pending' = LevelNames'
    BY <1>1, <2>11, <2>14, <2>15, LevelNamesStay
  <2>18. Counted'
    BY <1>4, <2>16, <2>17 DEF Counted, Parsing
  <2> QED
    BY <1>1, <1>2, <2>6, <2>7, <2>8, <2>9, <2>18 DEF IInv
<1> QED
  BY <1>3, <1>4 DEF FinishesLevel, Finished

LEMMA GameLoadsStep ==
  ASSUME IInv, NEW i \in DOMAIN levels, GameLoads(i)
  PROVE  IInv'
<1>1. pc = "loaded" /\ UNCHANGED <<disk, unread>>
  BY DEF GameLoads
<1>2. CASE ~Loadable(levels[i]) /\ Breaks /\ UNCHANGED board
  BY <1>1, <1>2, BreaksDown
<1>3. CASE /\ Loadable(levels[i]) /\ board' = LoadLevel(levels[i])
           /\ UNCHANGED <<pc, levels, parsed>>
  <2>1. levels[i] \in Levels /\ Loaded(levels[i])
    BY ElementOfSeq DEF IInv, Types, LevelsLoaded
  <2>2. LoadLevel(levels[i]) \in Levels
    BY <1>3, <2>1, LoadedCopy
  <2>3. BoardLoaded'
    <3>1. \A L : Loaded(L) => Loaded(L)'
      BY <1>1, LoadedStays
    <3> QED
      BY <1>3, <2>1, <3>1 DEF BoardLoaded
  <2>4. LevelsLoaded'
    BY <1>1, <1>3, LevelsStayLoaded DEF IInv
  <2>5. Types'
    BY <1>1, <1>3, <2>2 DEF IInv, Types, parsed
  <2>6. Progress'
    BY <1>1, <1>3 DEF Progress
  <2>7. Pending' = Pending
    BY <1>1, <1>3, LevelNamesStay DEF Pending, Parsing
  <2>8. Counted'
    BY <1>1, <1>3, <2>7, LevelNamesStay DEF IInv, Counted, Parsing
  <2> QED
    BY <1>1, <2>3, <2>4, <2>5, <2>6, <2>8 DEF IInv
<1> QED
  BY <1>2, <1>3 DEF GameLoads

LEMMA StepIInv ==
  ASSUME IInv, [Next]_vars
  PROVE  IInv'
<1>1. ASSUME NEW name \in unread, Stumbles(name)
      PROVE  IInv'
  BY <1>1, BreaksDown DEF Stumbles
<1>2. ASSUME NEW name \in unread, OpensLevel(name)
      PROVE  IInv'
  BY <1>2, OpensLevelStep
<1>3. CASE OutOfMemory
  BY <1>3, OutOfMemoryStep
<1>4. CASE EndsDirectory
  BY <1>4, EndsDirectoryStep
<1>5. CASE ParsesLine
  BY <1>5, LevelLineSteps, ReadsRowStep, ReadsPacStep, ReadsMonStep, EndsMonStep
     DEF ParsesLine
<1>6. CASE ParsesActor
  BY <1>6, ReadsActorLineStep, EndsActorStep DEF ParsesActor
<1>7. CASE FinishesLevel
  BY <1>7, FinishesLevelStep
<1>8. ASSUME NEW i \in DOMAIN levels, GameLoads(i)
      PROVE  IInv'
  BY <1>8, GameLoadsStep
<1>9. CASE UNCHANGED vars
  BY <1>9, Stutters
<1> QED
  BY <1>1, <1>2, <1>3, <1>4, <1>5, <1>6, <1>7, <1>8, <1>9 DEF Next, Stopped

LEMMA FilesInductive == Spec => []IInv
<1>1. Init => IInv
  BY InitIInv
<1>2. IInv /\ [Next]_vars => IInv'
  BY StepIInv
<1> QED
  BY <1>1, <1>2, PTL DEF Spec

----------------------------------------------------------------------------
(* What the parser promises.                                                 *)

\* The variables have their types, and the client's pacman stands on a cell of its
\* level, whatever the files hold (parse.c:309-330).
THEOREM FilesTypeCorrect == Spec => []TypeOK
<1>1. IInv => TypeOK
  <2> SUFFICES ASSUME IInv
               PROVE  TypeOK
    OBVIOUS
  <2>1. ASSUME NEW i \in DOMAIN levels, NEW p \in Range(levels[i].pacmans), p.won = FALSE
        PROVE  Index(levels[i], p) \in DOMAIN levels[i].cells
    <3>1. PICK l \in Levels : LevelDone(l) /\ levels[i] = Finished(l)
      BY DEF IInv, LevelsLoaded, Loaded
    <3>2. PICK k \in DOMAIN levels[i].pacmans : p = levels[i].pacmans[k]
      BY DEF Range
    <3> QED
      BY <2>1, <3>1, <3>2, FinishedType
  <2> QED
    BY <2>1 DEF IInv, Types, TypeOK
<1> QED
  BY <1>1, FilesInductive, PTL

\* A level whose files are well formed is in memory as they say, wherever the
\* comments and the other lines stand (parse.c:97-116, 210-291).
THEOREM LoadedFaithfully == Spec => []LoadedAsWritten
<1>1. IInv => LoadedAsWritten
  BY LoadedIsWritten DEF IInv, LevelsLoaded, LoadedAsWritten
<1> QED
  BY <1>1, FilesInductive, PTL

\* The games start only with every level file of the directory, each once and with
\* every file it names, and a failure leaves no level behind (parse.c:341-397).
THEOREM LoadsAllOrNothing == Spec => []AllOrNothing
<1>1. IInv => AllOrNothing
  <2> SUFFICES ASSUME IInv, pc = "loaded"
               PROVE  /\ Len(levels) = Cardinality(LevelNames)
                      /\ {levels[i].name : i \in DOMAIN levels} = LevelNames
                      /\ \A name \in LevelNames :
                           /\ Text(name) # NoFile
                           /\ \A m \in Mentions(name) : Text(MonsterAt(name, m)) # NoFile
                           /\ \A i \in LinesOf(name, "PAC") :
                                Text(Text(name)[i].file) # NoFile
    BY DEF IInv, Counted, AllOrNothing
  <2>1. Pending = {}
    BY DEF IInv, Counted, Pending, Parsing
  <2>2. Len(levels) = Cardinality(LevelNames)
    <3>1. Len(levels) + Cardinality(Pending) = Cardinality(LevelNames)
      BY DEF IInv, Counted
    <3>2. Cardinality(Pending) = 0
      BY <2>1, FS_EmptySet
    <3>3. Len(levels) \in Nat
      BY LenProperties DEF IInv, Types
    <3> QED
      BY <3>1, <3>2, <3>3
  <2>3. {levels[i].name : i \in DOMAIN levels} = LevelNames
    BY <2>1 DEF IInv, Counted
  <2>4. ASSUME NEW name \in LevelNames
        PROVE  /\ Text(name) # NoFile
               /\ \A m \in Mentions(name) : Text(MonsterAt(name, m)) # NoFile
               /\ \A i \in LinesOf(name, "PAC") : Text(Text(name)[i].file) # NoFile
    <3>1. PICK i \in DOMAIN levels : levels[i].name = name
      BY <2>3
    <3>2. PICK l \in Levels : LevelDone(l) /\ levels[i] = Finished(l)
      BY DEF IInv, LevelsLoaded, Loaded
    <3>3. l.name = name
      BY <3>1, <3>2, FinishedType
    <3>4. Text(name) # NoFile /\ PacmenRead(name, l.pacmans, Len(Text(name)) + 1)
      BY <3>2, <3>3 DEF LevelDone, LevelRead
    <3>5. \A m \in Mentions(name) : Text(MonsterAt(name, m)) # NoFile
      BY <3>2, <3>3, GhostsAreMonsters DEF IInv
    <3>6. \A j \in LinesOf(name, "PAC") : j < Len(Text(name)) + 1
      <4>1. DOMAIN Text(name) = 1 .. Len(Text(name)) /\ Len(Text(name)) \in Nat
        BY <3>4, LevelTexts, Lines DEF IInv
      <4> QED
        BY <4>1 DEF LinesOf
    <3> QED
      BY <3>4, <3>5, <3>6 DEF PacmenRead
  <2> QED
    BY <2>2, <2>3, <2>4
<1> QED
  BY <1>1, FilesInductive, PTL

\* What a game gets of a well-formed level is what it needs to start, one P under
\* the pacman and one M under each ghost (board.c:432-448, 547-577).
THEOREM GamesStartPlayable == Spec => []Playable
<1>1. IInv => Playable
  <2> SUFFICES ASSUME IInv, board # Undefined,
                      GoodLevel(board.name), FirstDotIsFree(board.name)
               PROVE  CanStart(board)
    BY DEF Playable
  <2>1. PICK L \in Levels : Loaded(L) /\ Loadable(L) /\ board = LoadLevel(L)
    BY DEF IInv, BoardLoaded
  <2>2. board.name = L.name
    BY <2>1, LoadedCopy
  <2> QED
    BY <2>1, <2>2, LoadedCanStart DEF IInv
<1> QED
  BY <1>1, FilesInductive, PTL
=============================================================================
