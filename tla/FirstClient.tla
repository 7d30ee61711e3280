------------------------------ MODULE FirstClient ------------------------------
(***************************************************************************)
(* lab3/code.c: the client for a maze without walls inside.  It takes the  *)
(* maze from the segment that has the size of the maze in it, and walks    *)
(* straight from '*' to 'E': first along the row, then along the column.   *)
(* The referee's text is one byte for each line here, but for the line     *)
(* with the size, which can be cut in two.                                 *)
(***************************************************************************)
EXTENDS Segments

CONSTANTS RoomRows, RoomCols  \* maze_rows and maze_cols

ASSUME RoomAssumption == RoomRows \in Nat \ {0} /\ RoomCols \in Nat \ {0}

VARIABLES
  start, roomExit,    \* external: where the maze has '*' and 'E'
  walker,             \* external: where the referee has the player
  room,               \* the rows that main has stored
  command, roomMode

roomVars == <<stream, buffer, start, roomExit, walker, room, command, roomMode>>

Square   == (1..RoomRows) \X (1..RoomCols)
SizeIs   == <<RoomRows + 1, RoomRows + 2>>
Row(k)   == k
RoomByte == 1..RoomRows+3
RoomText == SizeIs \o [k \in 1..RoomRows |-> Row(k)] \o <<RoomRows + 3>>
Letters  == {"W", "S", "A", "D"}

RoomTypeOK ==
  /\ stream \in Seq(RoomByte) /\ buffer \in [1..BufSize+1 -> 0..RoomRows+3]
  /\ {start, roomExit} \subseteq Square /\ walker \in Int \X Int
  /\ room \subseteq 1..RoomRows /\ command \in Seq(Letters)
  /\ roomMode \in {"read", "search", "walk", "crashed", "arrived"}

-----------------------------------------------------------------------------
\* strstr(buffer, "Size of the maze = ") and the sscanf behind it
HasSize(s) == Has(s, SizeIs)

\* The rows of the maze in this segment.
RowsIn(s) == {k \in 1..RoomRows : Has(s, <<Row(k)>>)}

\* The next segment, without the size.
ReadUnsized ==
  /\ roomMode = "read"
  /\ \E seg \in Segment : Read(seg)
  /\ ~HasSize(CString(buffer'))
  /\ UNCHANGED <<start, roomExit, walker, room, command, roomMode>>

\* The segment with the size.  Where the rows in it end before maze_rows of
\* them strchr gives NULL, and strncpy from that is undefined: a crash.  If
\* there is none at all nothing is stored.
Store ==
  /\ roomMode = "read"
  /\ \E seg \in Segment : Read(seg)
  /\ HasSize(CString(buffer'))
  /\ room' = RowsIn(CString(buffer'))
  /\ roomMode' = IF room' \in {{}, 1..RoomRows} THEN "search" ELSE "crashed"
  /\ UNCHANGED <<start, roomExit, walker, command>>

Repeat(l, n) == [k \in 1..n |-> l]

\* Mutant: the rows are counted the wrong way round.
UpIsDown(x, y) == Repeat(IF x > 0 THEN "D" ELSE "A", IF x > 0 THEN x ELSE -x)
                  \o Repeat(IF y > 0 THEN "W" ELSE "S", IF y > 0 THEN y ELSE -y)
Straight(x, y) == Repeat(IF x > 0 THEN "D" ELSE "A", IF x > 0 THEN x ELSE -x)
                  \o Repeat(IF y > 0 THEN "S" ELSE "W", IF y > 0 THEN y ELSE -y)

\* '*' and 'E' are found and the command is sent.  In a maze that was never
\* stored they are found anywhere or nowhere, and then anything is sent.
Send ==
  /\ roomMode = "search"
  /\ IF room = 1..RoomRows
       THEN command' = Straight(roomExit[2] - start[2], roomExit[1] - start[1])
       ELSE \E p, e \in Square : command' = Straight(e[2] - p[2], e[1] - p[1])
  /\ roomMode' = "walk"
  /\ UNCHANGED <<stream, buffer, start, roomExit, walker, room>>

\* External: the referee obeys the letters.
ObeyWalk ==
  /\ roomMode = "walk" /\ command # <<>>
  /\ walker' = CASE Head(command) = "W" -> <<walker[1] - 1, walker[2]>>
                 [] Head(command) = "S" -> <<walker[1] + 1, walker[2]>>
                 [] Head(command) = "A" -> <<walker[1], walker[2] - 1>>
                 [] Head(command) = "D" -> <<walker[1], walker[2] + 1>>
  /\ command' = Tail(command)
  /\ UNCHANGED <<stream, buffer, start, roomExit, room, roomMode>>

ArriveAtExit ==
  /\ roomMode = "walk" /\ command = <<>>
  /\ roomMode' = "arrived"
  /\ UNCHANGED <<stream, buffer, start, roomExit, walker, room, command>>

-----------------------------------------------------------------------------
RoomBegins ==
  /\ start \in Square /\ roomExit \in Square \ {start} /\ walker = start
  /\ room = {} /\ command = <<>> /\ roomMode = "read"
RoomInit == SegmentsInit(RoomText) /\ RoomBegins

RoomNext == ReadUnsized \/ Store \/ Send \/ ObeyWalk \/ ArriveAtExit
RoomSpec == RoomInit /\ [][RoomNext]_roomVars

-----------------------------------------------------------------------------
\* If the whole maze was stored the walk ends at the exit, and on its way the
\* player is in the room with the straight way to the exit still to be obeyed.
WalksToExit ==
  /\ roomMode \in {"read", "search"} => walker = start
  /\ roomMode = "walk" /\ room = 1..RoomRows =>
       /\ walker \in Square
       /\ command = Straight(roomExit[2] - walker[2], roomExit[1] - walker[1])
  /\ roomMode = "arrived" /\ room = 1..RoomRows => walker = roomExit

\* Each way this can go wrong takes a cut between the first byte of the size
\* and the last row: one segment with all of that is enough.
WrongOnlyIfCut ==
  /\ roomMode = "crashed" => RoomRows \notin room /\ 1 \in room
  /\ roomMode \in {"search", "walk", "arrived"} /\ room = {} =>
       stream = SubSeq(RoomText, Len(SizeIs) + 1, Len(RoomText))
  /\ roomMode = "read" => room = {} /\ (stream = <<>> => ~HasSize(CString(buffer)))

\* The first client gets to the exit unless its maze comes in pieces.
RoomInv == RoomTypeOK /\ RestOf(stream, RoomText) /\ WalksToExit /\ WrongOnlyIfCut
=============================================================================
