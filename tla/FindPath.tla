------------------------------ MODULE FindPath ------------------------------
(***************************************************************************)
(* lab3/code2.c and code3.c, which have the same findPath: the walk from   *)
(* '*' to 'E' in a maze that is all known.  findPath is recursive; its     *)
(* calls that have marked a cell are the stack, each with the direction it *)
(* has gone.  here is the cell the innermost call was made for.            *)
(* currentPath[0..pathLength-1] is the sequence path.                      *)
(***************************************************************************)
EXTENDS Integers, Sequences, FiniteSets

CONSTANTS
  Rows, Cols      \* maze_rows and maze_cols without the walls around

Cell == (0..Rows+1) \X (0..Cols+1)
Edge == {s \in Cell : s[1] \in {0, Rows+1} \/ s[2] \in {0, Cols+1}}

ASSUME SizeAssumption == Rows \in Nat /\ Cols \in Nat

VARIABLES
  walls, start, exit,       \* the maze the referee has sent
  maze,                     \* the cells marked 'V'
  path, stack, here, mode, res,
  sent                      \* what main sends in the end

given == <<walls, start, exit>>
vars  == <<given, maze, path, stack, here, mode, res, sent>>

Move    == 1..4
Letter  == <<"W", "S", "A", "D">>
Newline == "newline"

\* The cell one move from s.
Ahead(s, m) == CASE m = 1 -> <<s[1] - 1, s[2]>> [] m = 2 -> <<s[1] + 1, s[2]>>
                 [] m = 3 -> <<s[1], s[2] - 1>> [] m = 4 -> <<s[1], s[2] + 1>>

Frame == [at : Cell, dir : Move]
Top   == stack[Len(stack)]

TypeOK ==
  /\ walls \subseteq Cell /\ start \in Cell /\ exit \in Cell
  /\ maze \subseteq Cell /\ here \in Cell
  /\ path \in Seq({Letter[m] : m \in Move} \union {Newline})
  /\ stack \in Seq(Frame)
  /\ mode \in {"call", "return", "sent"} /\ res \in BOOLEAN
  /\ sent \in Seq({Letter[m] : m \in Move} \union {Newline})

-----------------------------------------------------------------------------
\* findPath(here)

Found ==
  /\ mode = "call" /\ here = exit
  /\ path' = Append(path, Newline)
  /\ mode' = "return" /\ res' = TRUE
  /\ UNCHANGED <<given, maze, stack, here, sent>>

Stops(s) == s \in walls \/ s \in maze

TurnBack ==
  /\ mode = "call" /\ here # exit /\ Stops(here)
  /\ mode' = "return" /\ res' = FALSE
  /\ UNCHANGED <<given, maze, path, stack, here, sent>>

\* The call for the next cell, in direction m.
Call(m, s) == here' = Ahead(s, m) /\ mode' = "call"

Enter ==
  /\ mode = "call" /\ here # exit /\ ~Stops(here)
  /\ maze' = maze \union {here}
  /\ stack' = Append(stack, [at |-> here, dir |-> 1])
  /\ path' = Append(path, Letter[1])
  /\ Call(1, here)
  /\ UNCHANGED <<given, res, sent>>

\* currentPath[--pathLength] = '\0'
Shorter == SubSeq(path, 1, Len(path) - 1)

\* Mutant: the letter of the direction that failed stays.
StaleLetter(m) == path
Turned(m) == Append(Shorter, Letter[m])

\* Mutant: D is never tried.
OneLeft  == Top.dir >= 3
AllTried == Top.dir = 4
\* Mutant: the same direction again.
SameMove == Top.dir
NextMove == Top.dir + 1

\* The call in one direction has failed: the next one.
Turn ==
  /\ mode = "return" /\ ~res /\ stack # <<>>
  /\ ~AllTried
  /\ LET m == NextMove IN
       /\ stack' = [stack EXCEPT ![Len(stack)].dir = m]
       /\ path' = Turned(m)
       /\ Call(m, Top.at)
  /\ UNCHANGED <<given, maze, res, sent>>

\* Mutant: the cell stays marked.
Kept(s)     == maze
Unmarked(s) == maze \ {s}

\* All four have failed.
Backtrack ==
  /\ mode = "return" /\ ~res /\ stack # <<>>
  /\ AllTried
  /\ maze' = Unmarked(Top.at)
  /\ path' = Shorter
  /\ stack' = SubSeq(stack, 1, Len(stack) - 1)
  /\ UNCHANGED <<given, here, mode, res, sent>>

\* main sends currentPath whether or not findPath has found anything.
Send ==
  /\ mode = "return" /\ (res \/ stack = <<>>)
  /\ sent' = path /\ mode' = "sent"
  /\ UNCHANGED <<given, maze, path, stack, here, res>>

-----------------------------------------------------------------------------
\* A maze has a wall all around, and a start and an exit inside it.
Init ==
  /\ start \in Cell \ Edge /\ exit \in Cell \ (Edge \union {start})
  /\ walls \in {Edge \union w : w \in SUBSET (Cell \ (Edge \union {start, exit}))}
  /\ maze = {} /\ path = <<>> /\ stack = <<>>
  /\ here = start /\ mode = "call" /\ res = FALSE /\ sent = <<>>

Next == Found \/ TurnBack \/ Enter \/ Turn \/ Backtrack \/ Send

Spec     == Init /\ [][Next]_vars
FairSpec == Spec /\ WF_vars(Next)

-----------------------------------------------------------------------------
\* The calls under way are a walk from start that never crosses itself or a
\* wall, the marked cells are those of the walk, and currentPath spells its
\* moves: nothing that an abandoned direction has marked or written remains.
Trail ==
  /\ maze = {stack[i].at : i \in 1..Len(stack)}
  /\ \A i, k \in 1..Len(stack) : stack[i].at = stack[k].at => i = k
  /\ \A i \in 1..Len(stack) :
       /\ stack[i].at \notin walls \union {exit}
       /\ stack[i].at = IF i = 1 THEN start
                        ELSE Ahead(stack[i-1].at, stack[i-1].dir)
PathSpellsTrail ==
  /\ Len(path) = Len(stack) + (IF res THEN 1 ELSE 0)
  /\ \A i \in 1..Len(stack) : path[i] = Letter[stack[i].dir]
  /\ res => path[Len(path)] = Newline

\* Where the innermost call is: one move on from the walk, at the exit when it
\* has found it.
HereIsAhead ==
  /\ mode = "call" => here = IF stack = <<>> THEN start ELSE Ahead(Top.at, Top.dir)
  /\ mode = "call" => ~res
  /\ res => stack # <<>> /\ Ahead(Top.at, Top.dir) = exit
  /\ mode = "sent" => (res \/ stack = <<>>) /\ sent = path

\* The exit can be walked to from s without a step on a wall or a cell of marked:
\* it is in every set that has s and all the free neighbours of its cells.
Open == Cell \ walls
Leads(s, marked) ==
  LET free == Open \ marked IN
  /\ s \in free
  /\ \A area \in SUBSET free :
       s \in area /\ (\A t \in area, m \in Move : Ahead(t, m) \in free => Ahead(t, m) \in area)
         => exit \in area

Before(i) == {stack[k].at : k \in 1..i}

\* No way out is passed over: if there is one, one leads on from the cell a call
\* is about to be made for, or from some call under way in a direction it has not
\* tried, through cells that no call before it has marked.
NothingSkipped ==
  ~res /\ Leads(start, {}) =>
    \/ mode = "call" /\ Leads(here, maze)
    \/ \E i \in 1..Len(stack), m \in Move :
         m > stack[i].dir /\ Leads(Ahead(stack[i].at, m), Before(i))

IInv == /\ TypeOK /\ start \notin walls /\ start # exit /\ exit \notin walls
        /\ Edge \subseteq walls
        /\ Trail /\ PathSpellsTrail /\ HereIsAhead /\ NothingSkipped

\* If a path was found, what the referee gets is a walk from the start to the
\* exit that stays off the walls: cells is the walk.
SentWalksOut ==
  mode = "sent" /\ res =>
    LET n == Len(sent) - 1  cells == [i \in 1..n |-> stack[i].at] IN
    /\ n > 0 /\ sent[n+1] = Newline
    /\ cells[1] = start /\ \A i \in 1..n : cells[i] \notin walls
    /\ \A i \in 1..n : \E m \in Move :
         sent[i] = Letter[m] /\ Ahead(cells[i], m) = IF i = n THEN exit ELSE cells[i+1]

\* Otherwise an empty command is sent and no cell is left marked.
FailureIsClean == mode = "sent" /\ ~res => sent = <<>> /\ maze = {}

\* currentPath has room for the longest walk, its newline and its '\0'.
PathFits == Len(path) + 1 <= (Rows + 2) * (Cols + 2)

\* A path is found exactly if there is one, although every way that fails is
\* unmarked and may be entered again from elsewhere.
FoundIfReachable == mode = "sent" => (res <=> Leads(start, {}))

\* The search ends.
SearchEnds == <>(mode = "sent")
=============================================================================
