------------------------------- MODULE Survey -------------------------------
(***************************************************************************)
(* lab3/code3.c: reading a maze of which the referee shows only a view     *)
(* port, which J, L, I and K move one column or row.  The client first     *)
(* brings the port to the corner of the maze, with the row label and the   *)
(* first character shown as its only guides, and then reads tile by tile.  *)
(* It never learns where the port is: row and col are its own reckoning.   *)
(*                                                                         *)
(* Each line of moves is answered by the view, parts 1 and 2 of the reply, *)
(* and the prompt, parts 3 and 4, which a read gets as many of as have     *)
(* come.  The client reads a fixed number of times for a reply, and a read *)
(* with nothing left to come blocks for ever.                              *)
(***************************************************************************)
EXTENDS Integers

CONSTANTS
  Mazes,        \* rows and columns a maze may have
  Ports,        \* rows and columns a view port may have
  MaxOff        \* bound on the rows and columns the port is off the maze at first

\* A row label has room for two characters; goLeft for 200 and goRight for 100.
ASSUME BoundsAssumption ==
  Mazes \subseteq (1..100) \X (1..100) /\ Ports \subseteq (1..98) \X (1..98) /\ MaxOff \in 0..9

VARIABLES
  maze_rows, maze_cols, vrow, vcol,      \* what the referee announces
  port_row, port_col,                    \* referee: the corner of the view port
  coming,                                \* parts of the reply not yet read
  surveyMode, row, col,                  \* row and col are the r and c of the code
  mazeRead,                              \* maze: for each cell, the cell it was read from
  tidy                                   \* history: each read got one view or one prompt

sizes == <<maze_rows, maze_cols, vrow, vcol>>
port  == <<port_row, port_col>>
vars  == <<sizes, port, coming, surveyMode, row, col, mazeRead, tidy>>

Place  == (0..maze_rows-1) \X (0..maze_cols-1)
Unseen == <<-1, -1>>

\* adrift: the client has taken one thing for another, a column of the size for a
\* label or half a view for a view, and is not followed further.
Modes == {"label", "first", "left", "skip", "right", "blank", "view", "scan", "await", "turn",
          "done", "adrift"}

TypeOK ==
  /\ maze_rows \in 1..100 /\ maze_cols \in 1..100
  /\ vrow \in 1..98 /\ vcol \in 1..98
  /\ port_row \in Int /\ port_col \in Int
  /\ coming \in 0..4 /\ tidy \in BOOLEAN
  /\ surveyMode \in Modes
  /\ row \in Nat /\ col \in Nat
  /\ mazeRead \in [Place -> Int \X Int]

-----------------------------------------------------------------------------
\* What a read may get: up to which part.
Coming == 5-coming..4

HasView(last)     == coming = 4 /\ last >= 2
WholePrompt(last) == coming >= 2 /\ last = 4

Takes(last) == tidy' = (tidy /\ <<coming, last>> \in {<<4, 2>>, <<2, 4>>})

\* A read that no command follows at once.
ReadOn(last, mode) ==
  /\ Takes(last) /\ coming' = 4 - last
  /\ surveyMode' = mode
  /\ UNCHANGED port

\* The moves of a command, which the referee answers with a reply.
MovePort(rows, cols, mode) ==
  /\ port_row' = port_row + rows /\ port_col' = port_col + cols
  /\ coming' = 4 /\ surveyMode' = mode

\* A read and then a command, which must not leave some of the reply behind.
ReadAndMove(last, cols, mode) ==
  /\ Takes(last)
  /\ MovePort(0, cols, IF last = 4 THEN mode ELSE "adrift")

-----------------------------------------------------------------------------
\* The skip over the size of the port, of eleven characters whatever the size, ends
\* before the last two characters of the row label if the size is as long as "11 x 7".
Digits(n)  == IF n < 10 THEN 1 ELSE 2
SizeLength == Digits(vcol) + 3 + Digits(vrow)
SixChars   == SizeLength = 6

Distance == IF port_row < 0 THEN -port_row ELSE port_row
\* Mutant: the sign of the label is not looked at.
Unsigned == Distance % 100
\* The moves up that the two characters read stand for.  Of the last two a negative
\* number is made only if one is the sign; after a shorter size they are the last
\* and the colon, which is ten above '0', and after a longer one the two before it.
Label == CASE SizeLength = 5 -> 10 * (Distance % 10) + 10
           [] SizeLength = 6 -> IF port_row \in -9..-1 THEN port_row ELSE Distance % 100
           [] OTHER          -> Distance \div 10

\* A blank or a sign taken for a digit: a is negative, and up[a] before the array.
BeforeUp == SizeLength = 7 /\ port_row < 10

\* Up or down to what should be the first row.
MoveToFirstRow ==
  /\ surveyMode = "label"
  /\ MovePort(-Label, 0, IF Label = port_row /\ ~BeforeUp THEN "first" ELSE "adrift")
  /\ UNCHANGED <<sizes, row, col, mazeRead, tidy>>

\* Until a segment has the prompt in it; then the first step to the left.
FirstReply ==
  /\ surveyMode = "first"
  /\ \E last \in Coming : IF WholePrompt(last) THEN ReadAndMove(last, -4, "left")
                                               ELSE ReadOn(last, "first")
  /\ UNCHANGED <<sizes, row, col, mazeRead>>

-----------------------------------------------------------------------------
\* The first line of the view is the first row of the maze, which is all wall,
\* once the row label has been made 0: blank means the port is off the maze.
Blank == port_col \notin 0..maze_cols-1

\* Without a view in the segment lef and ri are what they were before, or unset.
MoveLeft ==
  /\ surveyMode = "left"
  /\ \E last \in Coming :
       ReadOn(last, IF ~HasView(last) THEN "adrift" ELSE IF Blank THEN "blank" ELSE "skip")
  /\ UNCHANGED <<sizes, row, col, mazeRead>>

MoveRight ==
  /\ surveyMode = "right"
  /\ \E last \in Coming :
       ReadOn(last, IF ~HasView(last) THEN "adrift" ELSE IF Blank THEN "blank" ELSE "scan")
  /\ UNCHANGED <<sizes, row, col, mazeRead>>

\* Mutant: a move command with no move in it.
NoStep   == 0
OneRight == 1

\* One more read, which should get the prompt, and the next command.
SkipLeft ==
  /\ surveyMode = "skip"
  /\ \E last \in Coming : ReadAndMove(last, -4, "left")
  /\ UNCHANGED <<sizes, row, col, mazeRead>>

SkipRight ==
  /\ surveyMode = "blank"
  /\ \E last \in Coming : ReadAndMove(last, OneRight, "right")
  /\ UNCHANGED <<sizes, row, col, mazeRead>>

-----------------------------------------------------------------------------
\* The view, in the segment read last, is copied to the tile at row, col, as far
\* as it is in the maze.
InTile(s) == s[1] \in row..row+vrow-1 /\ s[2] \in col..col+vcol-1
ReadTile ==
  /\ surveyMode = "scan" /\ surveyMode' = "await"
  /\ mazeRead' = [s \in Place |->
       IF InTile(s) THEN <<port_row + s[1] - row, port_col + s[2] - col>> ELSE mazeRead[s]]
  /\ UNCHANGED <<sizes, port, coming, row, col, tidy>>

\* The segment is not terminated: behind half a prompt an old one may be found.
AwaitPrompt ==
  /\ surveyMode = "await"
  /\ \E last \in Coming :
       \E mode \in IF WholePrompt(last) THEN {"turn"} ELSE {"await", "adrift"} :
         ReadOn(last, mode)
  /\ UNCHANGED <<sizes, row, col, mazeRead>>

\* Mutant: a tile that falls short of the edge by one is taken for the last.
NearEdge      == col + vcol >= maze_cols - 1
RightmostTile == col + vcol > maze_cols
LowestTile    == row + vrow > maze_rows

\* The 'J's of goLeft.
BackToLeft == vcol * (maze_cols \div vcol)

ScanRight ==
  /\ surveyMode = "turn" /\ ~RightmostTile
  /\ col' = col + vcol
  /\ MovePort(0, vcol, "view")
  /\ UNCHANGED <<sizes, row, mazeRead, tidy>>

ScanDown ==
  /\ surveyMode = "turn" /\ RightmostTile /\ ~LowestTile
  /\ col' = 0 /\ row' = row + vrow
  /\ MovePort(vrow, -BackToLeft, "view")
  /\ UNCHANGED <<sizes, mazeRead, tidy>>

ScanLast ==
  /\ surveyMode = "turn" /\ RightmostTile /\ LowestTile
  /\ surveyMode' = "done"
  /\ UNCHANGED <<sizes, port, coming, row, col, mazeRead, tidy>>

\* The one read for the view of the next tile.
ReadView ==
  /\ surveyMode = "view"
  /\ \E last \in Coming : ReadOn(last, IF HasView(last) THEN "scan" ELSE "adrift")
  /\ UNCHANGED <<sizes, row, col, mazeRead>>

-----------------------------------------------------------------------------
\* The port shows some of the maze or is a little above or to the left of it.
Init ==
  /\ \E m \in Mazes : maze_rows = m[1] /\ maze_cols = m[2]
  /\ \E p \in Ports : vrow = p[1] /\ vcol = p[2]
  /\ port_row \in -MaxOff..maze_rows-1 /\ port_col \in -MaxOff..maze_cols-1
  /\ coming = 0 /\ tidy = TRUE
  /\ surveyMode = "label" /\ row = 0 /\ col = 0
  /\ mazeRead = [s \in Place |-> Unseen]

Next == \/ MoveToFirstRow \/ FirstReply
        \/ MoveLeft \/ MoveRight \/ SkipLeft \/ SkipRight
        \/ ReadTile \/ AwaitPrompt \/ ScanRight \/ ScanDown \/ ScanLast \/ ReadView

Spec     == Init /\ [][Next]_vars
FairSpec == Spec /\ WF_vars(Next)

-----------------------------------------------------------------------------
\* What the program relies on: a size that is as long as the skip expects, and
\* view and prompt in a segment each.
InStep == SixChars /\ tidy

\* The client's reckoning is where the port is, from tile to tile and from the
\* end of a row of tiles back to the start of the next.
Tiling         == {"view", "scan", "await", "turn", "done"}
ReckoningRight == InStep /\ surveyMode \in Tiling => port_row = row /\ port_col = col

\* What is copied is copied to its place ...
CopiedInPlace == InStep => \A s \in Place : mazeRead[s] \in {s, Unseen}

\* ... and in the end everything is, whether or not the view port divides the
\* maze: findPath never meets a cell of uninitialised memory.
AllRead == InStep /\ surveyMode = "done" => \A s \in Place : mazeRead[s] = s

\* col is a whole number of tiles, and all above and to the left of the present
\* tile has been read, or of its end when it has been copied.
OnTile    == col % vcol = 0 /\ col <= maze_cols
ReadUpTo  == IF surveyMode \in {"await", "turn", "done"} THEN col + vcol ELSE col
ReadSoFar ==
  \A s \in Place : s[1] < row \/ (s[1] < row + vrow /\ s[2] < ReadUpTo) => mazeRead[s] = s

\* Before the reading the port comes to the first row and then, from the right,
\* to the first column.
Leftward  == {"left", "skip"}
Rightward == {"right", "blank"}
Approach ==
  /\ surveyMode = "label" => port_row \in -9..99
  /\ surveyMode \in {"label", "first"} \cup Leftward => port_col < maze_cols
  /\ surveyMode \in {"first"} \cup Leftward \cup Rightward => port_row = 0
  /\ surveyMode = "right" => port_col <= 0
  /\ surveyMode = "blank" => port_col < 0
  /\ surveyMode \notin Tiling => row = 0 /\ col = 0

\* How much of the reply is still to come, which is what keeps client and referee
\* from waiting for each other.
InTurn ==
  /\ surveyMode \in {"left", "right", "view"} => coming = 4
  /\ surveyMode \in {"skip", "blank", "scan", "await"} => coming = 2
  /\ surveyMode = "first" => coming \in {2, 4}
  /\ surveyMode # "adrift"

\* The reckoning is right only as long as col is on a tile, and what has been read is
\* read right only as long as the reckoning is.
IInv == /\ TypeOK
        /\ InStep => Approach /\ InTurn /\ OnTile /\ ReadSoFar
        /\ ReckoningRight /\ CopiedInPlace /\ AllRead

\* If the size is as long as the skip expects and view and prompt come in a segment
\* each, the port reaches the corner and the last tile is read: no read of the client
\* waits for what the referee has already sent.
SurveyEnds == [](SixChars /\ tidy) => <>(surveyMode = "done")
=============================================================================
