------------------------------ MODULE MazeReader ------------------------------
(***************************************************************************)
(* How lab3/code2.c, code3.c and 4code.c read the first text of the        *)
(* referee: the segments are put together in receivedData until one has    *)
(* the prompt in it.  From receivedData code2.c takes the maze, and the    *)
(* other two take the sizes; 4code.c takes its first view from buffer,     *)
(* which has the last segment only.  (code3.c moves its port first, see    *)
(* Survey for the views that it takes from buffer.)                        *)
(***************************************************************************)
EXTENDS Segments

CONSTANTS
  Lines,              \* how many bytes there are before the prompt
  NoteAt              \* where the note is that stands before the view

ASSUME LinesAssumption == Lines \in Nat /\ NoteAt \in 1..Lines-1

\* "Enter your move(s)>", in three parts, and all of the text.
Prompt == <<Lines + 1, Lines + 2, Lines + 3>>
MazeByte == 1..Lines+3
MazeText == [k \in 1..Lines |-> k] \o Prompt

\* "Note2: View port area = 11 x 7", in two parts
Note == <<NoteAt, NoteAt + 1>>

VARIABLES receivedData, mazeMode

mazeVars == <<stream, buffer, receivedData, mazeMode>>

\* Mutant: receivedDataSize is not advanced.
Latest(seg) == seg
Longer(seg) == receivedData \o seg

HasPrompt    == Has(CString(buffer'), Prompt)

\* One turn of the loop.
ReadMaze ==
  /\ mazeMode = "read"
  /\ \E seg \in Segment :
       /\ Read(seg)
       /\ receivedData' = Longer(seg)
  /\ mazeMode' = IF HasPrompt THEN "parse" ELSE "read"

MazeBegins == receivedData = <<>> /\ mazeMode = "read"
MazeInit   == SegmentsInit(MazeText) /\ MazeBegins

\* 4code.c: strstr for the note in buffer, and the view behind it.  Without the note
\* it gives NULL, and the rows are copied from 40 bytes behind that: a crash.
TakeFirstView ==
  /\ mazeMode = "parse"
  /\ mazeMode' = IF Has(CString(buffer), Note) THEN "view" ELSE "crashed"
  /\ UNCHANGED <<stream, buffer, receivedData>>

MazeNext == ReadMaze \/ TakeFirstView
MazeSpec == MazeInit /\ [][MazeNext]_mazeVars

-----------------------------------------------------------------------------
\* How many bytes of the text came before the last segment.
Before == Len(MazeText) - Len(CString(buffer))

\* What is parsed in receivedData is the whole text, however it was cut: nothing is
\* lost or read twice on the way.  Client and referee wait for each other for ever only
\* if a segment begins within the prompt.  The view behind the note is whole in buffer
\* as well, and 4code.c crashes only if the last segment begins behind the first byte
\* of the note.
ReadsWhole ==
  /\ mazeMode \in {"read", "parse", "view", "crashed"} /\ receivedData \in Seq(MazeByte)
  /\ stream \in Seq(MazeByte) /\ receivedData \o stream = MazeText
  /\ mazeMode # "read" =>
       /\ receivedData = MazeText /\ stream = <<>>
       /\ CString(buffer) \in Seq(MazeByte) /\ RestOf(CString(buffer), MazeText)
  /\ mazeMode = "read" /\ stream = <<>> => Len(CString(buffer)) < Len(Prompt)
  /\ mazeMode = "view" => Before < NoteAt
  /\ mazeMode = "crashed" => Before >= NoteAt
=============================================================================
