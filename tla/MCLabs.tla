-------------------------------- MODULE MCLabs --------------------------------
(***************************************************************************)
(* The small programs of lab1 to lab5.  They have nothing to do with each  *)
(* other, so only one of them, running, takes steps; the variables of the  *)
(* others stay as they are in one fixed initial state.  The three readers  *)
(* of segments share stream and buffer.                                    *)
(***************************************************************************)
EXTENDS Explore, UrlCodec, MazeReader, FirstClient, OtpClient, Capture, VerifyFlag,
        BinFlag, Bandwidth

VARIABLE running

Programs == {"explore", "codec", "maze", "room", "otp", "capture", "verify", "blocks", "meter"}

segmentVars == <<stream, buffer>>
mazeOwn     == <<receivedData, mazeMode>>
roomOwn     == <<start, roomExit, walker, room, command, roomMode>>
otpOwn      == <<closes, otp, reads, otpMode, cut>>
labsVars    == <<running, exploreVars, codecVars, segmentVars, mazeOwn, roomOwn, otpOwn,
                 captureVars, verifyVars, blocksVars, meterVars>>

LabsInit ==
  /\ running \in Programs
  /\ running # "explore" => player = <<1, 1>> /\ exit = <<1, 2>> /\ walls = Edge
  /\ ExploreInit
  /\ running # "codec" => str = <<>>
  /\ CodecInit
  /\ SegmentsInit(CASE running = "maze" -> MazeText [] running = "room" -> RoomText
                    [] running = "otp" -> Header \o Password [] OTHER -> <<>>)
  /\ MazeBegins
  /\ running # "room" => start = <<1, 1>> /\ roomExit = <<1, 2>>
  /\ RoomBegins
  /\ running # "otp" => closes = FALSE
  /\ OtpBegins
  /\ CaptureInit
  /\ running # "verify" => early = FALSE
  /\ VerifyInit
  /\ running # "blocks" => data = <<0, 0>> /\ cuts = {0} /\ damaged = 0
  /\ BlocksInit
  /\ MeterInit

ExploreRuns ==
  /\ running = "explore" /\ ExploreNext
  /\ UNCHANGED <<running, codecVars, segmentVars, mazeOwn, roomOwn, otpOwn, captureVars,
                 verifyVars, blocksVars, meterVars>>
CodecRuns ==
  /\ running = "codec" /\ CodecNext
  /\ UNCHANGED <<running, exploreVars, segmentVars, mazeOwn, roomOwn, otpOwn, captureVars,
                 verifyVars, blocksVars, meterVars>>
MazeRuns ==
  /\ running = "maze" /\ MazeNext
  /\ UNCHANGED <<running, exploreVars, codecVars, roomOwn, otpOwn, captureVars, verifyVars,
                 blocksVars, meterVars>>
RoomRuns ==
  /\ running = "room" /\ RoomNext
  /\ UNCHANGED <<running, exploreVars, codecVars, mazeOwn, otpOwn, captureVars, verifyVars,
                 blocksVars, meterVars>>
OtpRuns ==
  /\ running = "otp" /\ OtpNext
  /\ UNCHANGED <<running, exploreVars, codecVars, mazeOwn, roomOwn, captureVars, verifyVars,
                 blocksVars, meterVars>>
CaptureRuns ==
  /\ running = "capture" /\ CaptureNext
  /\ UNCHANGED <<running, exploreVars, codecVars, segmentVars, mazeOwn, roomOwn, otpOwn,
                 verifyVars, blocksVars, meterVars>>
VerifyRuns ==
  /\ running = "verify" /\ VerifyNext
  /\ UNCHANGED <<running, exploreVars, codecVars, segmentVars, mazeOwn, roomOwn, otpOwn,
                 captureVars, blocksVars, meterVars>>
BlocksRun ==
  /\ running = "blocks" /\ BlocksNext
  /\ UNCHANGED <<running, exploreVars, codecVars, segmentVars, mazeOwn, roomOwn, otpOwn,
                 captureVars, verifyVars, meterVars>>
MeterRuns ==
  /\ running = "meter" /\ MeterNext
  /\ UNCHANGED <<running, exploreVars, codecVars, segmentVars, mazeOwn, roomOwn, otpOwn,
                 captureVars, verifyVars, blocksVars>>

LabsNext == \/ ExploreRuns \/ CodecRuns \/ MazeRuns \/ RoomRuns \/ OtpRuns
            \/ CaptureRuns \/ VerifyRuns \/ BlocksRun \/ MeterRuns

\* The fairness of the programs' own specifications, for the one that runs.
LabsSpec ==
  /\ LabsInit /\ [][LabsNext]_labsVars
  /\ WF_exploreVars(running = "explore" /\ ExploreNext)
  /\ WF_otpVars(running = "otp" /\ OtpNext)
  /\ WF_verifyVars(running = "verify" /\ Main)
  /\ WF_verifyVars(running = "verify" /\ SendNumber)
  /\ SF_verifyVars(running = "verify" /\ \E verdict \in Verdict : Judge(verdict))
  /\ WF_meterVars(running = "meter" /\ Server)
  /\ \A client_sock \in Clients : WF_meterVars(running = "meter" /\ Client(client_sock))

-----------------------------------------------------------------------------
\* The readers of segments: each property is about the text of its own peer.
\* lab3/code2.c, code3.c and 4code.c parse the whole maze.
MazeRight == running = "maze" => ReadsWhole
\* lab3/code.c walks to the exit unless the maze comes in pieces.
RoomRight == running = "room" => RoomInv
\* lab4/code.c takes the password, or the beginning of it, and nothing else.
OtpRight == running = "otp" => OtpInv

\* lab3/4code.c gets out of every maze that has a way out.
ExplorerGetsOut == running = "explore" => ReachesExit
\* lab4/code.c makes its three requests to a server that closes.
OtpFinishes == running = "otp" => Finishes
\* part2-1 and part2-3 of lab1 end unless every flag or its verdict is lost.
VerifyEnds == running = "verify" => EndsUnlessAllLost
\* Every client of lab5 ends and has read all.
MetersEnd == running = "meter" => AllEnd
=============================================================================
