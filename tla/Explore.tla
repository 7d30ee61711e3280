------------------------------- MODULE Explore -------------------------------
(***************************************************************************)
(* lab3/4code.c: a maze of which only a view port around the player is     *)
(* shown.  The client copies each view into its own maze and walks up to a *)
(* cell it has not seen, or to the exit once it has seen it.  The view     *)
(* tells the row it starts at; the column c it must reckon from the        *)
(* letters it has sent.  findPath is as in FindPath, except that a cell    *)
(* stays marked, in visit, when the search turns back.                     *)
(***************************************************************************)
EXTENDS Integers, Sequences, FiniteSets

CONSTANTS
  Rows, Cols,       \* the maze without the walls around: maze_rows - 2, maze_cols - 2
  HalfH, HalfW,     \* vrow and vcol are 2*HalfH + 1 and 2*HalfW + 1
  Origin, Width     \* the first value of c, and the columns of maze: 100 and 230

ASSUME SizeAssumption ==
  /\ {Rows, Cols, HalfH, HalfW, Origin, Width} \subseteq Nat
  /\ HalfH > 0 /\ HalfW > 0
  /\ Origin >= Cols /\ Width >= Origin + Cols + 2 * HalfW

Cell == (0..Rows+1) \X (0..Cols+1)
Edge == {s \in Cell : s[1] \in {0, Rows+1} \/ s[2] \in {0, Cols+1}}
\* The elements of maze; its last row is the 100 of the code.
Grid == (0..Rows+1) \X (0..Width-1)

VARIABLES
  walls, exit, player,      \* the referee: the maze, and where the player is
  shift,                    \* the column of maze for column 0 (in no program)
  maze, c, end_seen, at,    \* main; at is player_row, player_col
  visit, path, stack, here, res,    \* the search: see FindPath
  toExit,                   \* its third argument
  mode, i                   \* i: letters of path obeyed, then reckoned with

given       == <<walls, exit, shift>>
client      == <<maze, c, end_seen, at>>
search      == <<visit, path, stack, here, res, toExit>>
exploreVars == <<given, player, client, search, mode, i>>

Move    == 1..4
Letter  == <<"W", "S", "A", "D">>
Newline == "newline"

Ahead(s, m) == CASE m = 1 -> <<s[1] - 1, s[2]>> [] m = 2 -> <<s[1] + 1, s[2]>>
                 [] m = 3 -> <<s[1], s[2] - 1>> [] m = 4 -> <<s[1], s[2] + 1>>

Frame  == [at : Grid, dir : Move]
Top    == stack[Len(stack)]
Symbol == {Letter[m] : m \in Move} \union {Newline}
Mark   == {"?", "#", ".", "E", "*", " "}

ExploreTypeOK ==
  /\ walls \subseteq Cell /\ exit \in Cell /\ player \in Cell /\ shift \in Int
  /\ maze \in [Grid -> Mark] /\ c \in Int /\ end_seen \in BOOLEAN /\ at \in Grid
  /\ visit \subseteq Grid /\ path \in Seq(Symbol) /\ stack \in Seq(Frame)
  /\ here \in Grid /\ res \in BOOLEAN /\ toExit \in BOOLEAN
  /\ mode \in {"look", "call", "return", "walk", "reckon", "blocked", "done"}
  /\ i \in Nat

-----------------------------------------------------------------------------
\* How the referee draws a cell; outside the maze it draws nothing.
Drawn(s) == CASE s = player                -> "*"
              [] s \notin Cell             -> " "
              [] s \in walls               -> "#"
              [] s = exit /\ s # player    -> "E"
              [] OTHER                     -> "."

RowLabel == player[1] - HalfH

\* The elements of maze that the view in buffer is copied to, and the cell it
\* shows for each.
Viewed   == {g \in Grid : /\ g[1] \in RowLabel .. RowLabel + 2 * HalfH
                          /\ g[2] \in c .. c + 2 * HalfW}
Shows(g) == <<player[1] - HalfH + g[1] - RowLabel, player[2] - HalfW + g[2] - c>>

ExitSeen == end_seen \/ \E g \in Viewed : Drawn(Shows(g)) = "E"

\* One turn of main's loop up to the call of findPath.
Look ==
  /\ mode = "look"
  /\ maze' = [g \in Grid |-> IF g \in Viewed THEN Drawn(Shows(g)) ELSE maze[g]]
  /\ end_seen' = ExitSeen /\ toExit' = end_seen'
  /\ at' = CHOOSE g \in Viewed : Drawn(Shows(g)) = "*"
  /\ visit' = {} /\ path' = <<>> /\ stack' = <<>> /\ here' = at' /\ res' = FALSE
  /\ mode' = "call"
  /\ UNCHANGED <<given, player, c, i>>

-----------------------------------------------------------------------------
\* findPath(here, toExit)

\* currentPath[--pathLength] = '\0'
Shorter == SubSeq(path, 1, Len(path) - 1)

FoundExit    == toExit /\ maze[here] = "E"
FoundUnknown == ~toExit /\ maze[here] = "?"
UpToUnknown == Append(Shorter, Newline)

Found ==
  /\ mode = "call" /\ (FoundExit \/ FoundUnknown)
  /\ path' = IF FoundExit THEN Append(path, Newline) ELSE UpToUnknown
  /\ mode' = "return" /\ res' = TRUE
  /\ UNCHANGED <<given, player, client, visit, stack, here, toExit, i>>

Stops == maze[here] \in {"#", "?"} \/ here \in visit

TurnBack ==
  /\ mode = "call" /\ ~FoundExit /\ ~FoundUnknown /\ Stops
  /\ mode' = "return" /\ res' = FALSE
  /\ UNCHANGED <<given, player, client, visit, path, stack, here, toExit, i>>

Call(m, s) == here' = Ahead(s, m) /\ mode' = "call"

Enter ==
  /\ mode = "call" /\ ~FoundExit /\ ~FoundUnknown /\ ~Stops
  /\ visit' = visit \union {here}
  /\ stack' = Append(stack, [at |-> here, dir |-> 1])
  /\ path' = Append(path, Letter[1])
  /\ Call(1, here)
  /\ UNCHANGED <<given, player, client, res, toExit, i>>

\* Mutant: D is never tried.
OneLeft  == Top.dir >= 3
AllTried == Top.dir = 4
Turned(m) == Append(Shorter, Letter[m])

Turn ==
  /\ mode = "return" /\ ~res /\ stack # <<>> /\ ~AllTried
  /\ LET m == Top.dir + 1 IN
       /\ stack' = [stack EXCEPT ![Len(stack)].dir = m]
       /\ path' = Turned(m)
       /\ Call(m, Top.at)
  /\ UNCHANGED <<given, player, client, visit, res, toExit, i>>

Backtrack ==
  /\ mode = "return" /\ ~res /\ stack # <<>> /\ AllTried
  /\ path' = Shorter
  /\ stack' = SubSeq(stack, 1, Len(stack) - 1)
  /\ UNCHANGED <<given, player, client, visit, here, res, toExit, mode, i>>

-----------------------------------------------------------------------------
\* What main does with what findPath returns.

NotFound == mode = "return" /\ ~res /\ stack = <<>>

SendPath ==
  /\ mode = "return" /\ res
  /\ mode' = "walk" /\ i' = 0
  /\ UNCHANGED <<given, player, client, search>>

\* There is no way to the exit through what is known: look on.
SearchOn ==
  /\ NotFound /\ toExit
  /\ toExit' = FALSE /\ visit' = {} /\ path' = <<>> /\ here' = at /\ mode' = "call"
  /\ UNCHANGED <<given, player, client, stack, res, i>>

\* Nor anything left to look at: what is sent is empty, and no answer comes.
SendNothing ==
  /\ NotFound /\ ~toExit /\ end_seen
  /\ mode' = "blocked"
  /\ UNCHANGED <<given, player, client, search, i>>

\* Nothing is sent when no exit has been seen: once more with the same view.
GoRound ==
  /\ NotFound /\ ~toExit /\ ~end_seen
  /\ maze' = [maze EXCEPT ![at] = "."]
  /\ mode' = "look"
  /\ UNCHANGED <<given, player, c, end_seen, at, search, i>>

\* External: the referee obeys the letters one after the other.
Obey ==
  /\ mode = "walk" /\ path[i+1] # Newline
  /\ \E m \in Move :
       /\ path[i+1] = Letter[m]
       /\ player' = IF Ahead(player, m) \in walls THEN player ELSE Ahead(player, m)
  /\ i' = i + 1
  /\ UNCHANGED <<given, client, search, mode>>

\* External: it answers with the next view, at the exit with something else.
Answer ==
  /\ mode = "walk" /\ path[i+1] = Newline
  /\ mode' = IF player = exit THEN "done" ELSE "reckon"
  /\ maze' = [maze EXCEPT ![at] = "."]
  /\ i' = 0
  /\ UNCHANGED <<given, player, c, end_seen, at, search>>

\* Mutant: only the way to the right is reckoned with.
StepRight(l) == IF l = "D" THEN 1 ELSE 0
Step(l)      == IF l = "A" THEN -1 ELSE IF l = "D" THEN 1 ELSE 0

\* The loop over strlen(currentPath); Newline is its last character.
Reckon ==
  /\ mode = "reckon"
  /\ c' = c + Step(path[i+1]) /\ i' = i + 1
  /\ mode' = IF i + 1 = Len(path) THEN "look" ELSE "reckon"
  /\ UNCHANGED <<given, player, maze, end_seen, at, search>>

-----------------------------------------------------------------------------
\* A maze has a wall all around, and a start and an exit inside it.
ExploreInit ==
  /\ player \in Cell \ Edge /\ exit \in Cell \ (Edge \union {player})
  /\ walls \in {Edge \union w : w \in SUBSET (Cell \ (Edge \union {player, exit}))}
  /\ shift = Origin + HalfW - player[2]
  /\ maze = [g \in Grid |-> "?"] /\ c = Origin /\ end_seen = FALSE /\ at = <<0, 0>>
  /\ visit = {} /\ path = <<>> /\ stack = <<>> /\ here = <<0, 0>> /\ res = FALSE
  /\ toExit = FALSE /\ mode = "look" /\ i = 0

ExploreNext ==
  \/ Look \/ Found \/ TurnBack \/ Enter \/ Turn \/ Backtrack
  \/ SendPath \/ SearchOn \/ SendNothing \/ GoRound
  \/ Obey \/ Answer \/ Reckon

ExploreSpec == ExploreInit /\ [][ExploreNext]_exploreVars /\ WF_exploreVars(ExploreNext)

-----------------------------------------------------------------------------
\* The cell of the maze that an element of maze stands for.
CellOf(g) == <<g[1], g[2] - shift>>
Known     == {g \in Grid : maze[g] # "?"}

\* Where the letters sent before the k-th from here take the player: the cells
\* of the calls under way, then the one the innermost call was made for.
Spot(k) == IF k <= Len(stack) THEN stack[k].at ELSE here

\* The calls under way are a walk from the player over open cells it has seen,
\* and currentPath spells its moves.
Trail ==
  /\ \A k, l \in 1..Len(stack) : stack[k].at = stack[l].at => k = l
  /\ \A k \in 1..Len(stack) :
       /\ stack[k].at \in visit /\ maze[stack[k].at] \notin {"#", "?", " "}
       /\ CellOf(stack[k].at) \notin walls
       /\ stack[k].at = IF k = 1 THEN at ELSE Ahead(stack[k-1].at, stack[k-1].dir)
  /\ mode = "call" => here = IF stack = <<>> THEN at ELSE Ahead(Top.at, Top.dir)
PathSpellsTrail ==
  /\ ~res /\ mode # "look" => Len(path) = Len(stack)
  /\ res => /\ stack # <<>> /\ path[Len(path)] = Newline
            /\ here = Ahead(Top.at, Top.dir)
            /\ Len(path) = Len(stack) + (IF toExit THEN 1 ELSE 0)
            /\ IF toExit THEN CellOf(here) = exit ELSE Len(stack) > 1
  /\ \A k \in 1..(IF res THEN Len(path) - 1 ELSE Len(path)) :
       k <= Len(stack) => path[k] = Letter[stack[k].dir]

\* Where the player is, and where the client takes it to be: it knows from the
\* walk when the referee has obeyed it, and has its column again when it has
\* gone through the letters.
Located ==
  /\ mode = "look" => player[2] + shift = c + HalfW
  /\ mode \in {"call", "return", "walk", "blocked"} => at[2] = c + HalfW
  /\ mode \in {"call", "return", "blocked"} => at = <<player[1], player[2] + shift>>
  /\ mode \in {"walk", "reckon"} => res /\ i < Len(path)
  /\ mode = "walk" => player = CellOf(Spot(i+1))
  /\ mode = "reckon" => player = CellOf(Spot(Len(path))) /\ c + HalfW = Spot(i+1)[2]

\* The map is right: whatever the client has copied is what is there, although
\* it has only its own letters to tell it which column a view begins at.
KnownIsTrue ==
  \A g \in Known : LET s == CellOf(g) IN
    /\ maze[g] = "#" <=> s \in walls
    /\ maze[g] = "E" => s = exit
    /\ maze[g] = " " <=> s \notin Cell
    /\ maze[g] = "*" => s = player \/ mode \notin {"look", "call"}

\* Each letter sent moves the player, never into a wall or to a cell it has not
\* seen, and there is at least one.
WalkIsOpen ==
  mode = "walk" =>
    /\ Len(path) > 1 /\ path[Len(path)] = Newline
    /\ \A m \in Move : path[i+1] = Letter[m] =>
         LET s == Ahead(player, m) IN
         s \notin walls /\ maze[<<s[1], s[2] + shift>>] # "?"

\* Column 0 of the maze is at one column of the array for good, and the rest of
\* it is within the array.
Placed ==
  /\ shift \in Origin + HalfW - Cols .. Origin + HalfW - 1
  /\ Edge \subseteq walls /\ {player, exit} \subseteq Cell \ walls

\* The '*' of the last view is the only one on the map, and gone before the next;
\* all around it has been seen, so that the search has a step to make before it
\* can come to what has not.
AroundPlayer ==
  /\ mode = "call" => ~res
  /\ mode \in {"call", "return"} =>
       maze[at] = "*" /\ \A m \in Move : maze[Ahead(at, m)] # "?"
  /\ \A g \in Grid : maze[g] = "*" => g = at /\ mode \in {"call", "return", "walk", "blocked"}
  /\ mode \in {"return", "walk"} /\ res /\ toExit => maze[here] = "E"

\* The map the client makes is the maze and the column it reckons is the right
\* one, and so are the walks it sends.
ExploreInv ==
  /\ ExploreTypeOK /\ Placed /\ AroundPlayer
  /\ Trail /\ PathSpellsTrail /\ Located /\ KnownIsTrue /\ WalkIsOpen

Open == Cell \ walls
\* Every set with the player and all open neighbours of its cells has the exit.
Reachable ==
  \A area \in SUBSET Open :
    player \in area /\ (\A s \in area, m \in Move : Ahead(s, m) \in area \union walls)
      => exit \in area

\* If there is a way out the client gets there: it neither gives up before it
\* has seen all it can nor walks for ever without seeing anything new.
ReachesExit == Reachable => <>(mode = "done")
=============================================================================
