------------------------------ MODULE VerifyFlag -------------------------------
(***************************************************************************)
(* lab1: how a flag is handed in.  The program reads datagram after        *)
(* datagram, numbered ones and, some time, the verdict, and hands the flag *)
(* in when it has counted AskAt of them.  part2-1.c has handed it in once  *)
(* before that; part2-3.c has not.  UDP may lose anything, and both        *)
(* programs wait without a limit of time.                                  *)
(***************************************************************************)
EXTENDS Integers, Sequences

CONSTANTS
  AskAt,            \* the datagram at which it is handed in: 100
  Queue             \* datagrams that wait in the socket at most

ASSUME CountAssumption == AskAt \in Nat \ {0} /\ Queue \in Nat \ {0}

VARIABLES
  early,                    \* the program is part2-1
  verifyMode, challenge,    \* where main is; whether chals has reached the referee
  temp,                     \* datagrams counted, up to AskAt + 1
  handed, waiting,          \* times the flag is handed in; the socket's queue
  unjudged, judged, lost    \* external: flags not judged yet, verdicts given, and losses of either

verifier   == <<early, verifyMode, challenge, temp, handed>>
verifyVars == <<verifier, waiting, unjudged, judged, lost>>

\* First letters: of the id, of a numbered datagram, of the three verdicts.
Verdict == {"B", "G", "N"}
Sends   == IF early THEN 2 ELSE 1

VerifyTypeOK ==
  /\ early \in BOOLEAN /\ verifyMode \in {"hello", "id", "enter", "loop", "end"}
  /\ challenge \in BOOLEAN /\ temp \in 0..AskAt+1 /\ handed \in 0..Sends
  /\ waiting \in Seq(Verdict \cup {"_", "S"}) /\ Len(waiting) <= Queue
  /\ {unjudged, judged, lost} \subseteq 0..Sends

-----------------------------------------------------------------------------
\* External: the referee, and the network, which loses what it likes.

\* It sends numbered datagrams without end; those that find no room are lost.
SendNumber ==
  /\ challenge /\ Len(waiting) < Queue
  /\ waiting' = Append(waiting, "S")
  /\ UNCHANGED <<verifier, unjudged, judged, lost>>

Judge(verdict) ==
  /\ unjudged > 0 /\ unjudged' = unjudged - 1 /\ Len(waiting) < Queue
  /\ waiting' = Append(waiting, verdict) /\ judged' = judged + 1
  /\ UNCHANGED <<verifier, lost>>

\* A flag is lost on its way, or the verdict on it.
Lose ==
  /\ unjudged > 0 /\ unjudged' = unjudged - 1 /\ lost' = lost + 1
  /\ UNCHANGED <<verifier, waiting, judged>>

-----------------------------------------------------------------------------
\* The id waits to be received, unless it or hello is lost.
Hello ==
  /\ verifyMode = "hello" /\ verifyMode' = "id" /\ waiting' \in {<<>>, <<"_">>}
  /\ UNCHANGED <<early, challenge, temp, handed, unjudged, judged, lost>>

\* recvfrom of the id, and chals, which may be lost
Chals ==
  /\ verifyMode = "id" /\ waiting # <<>> /\ waiting' = Tail(waiting)
  /\ verifyMode' = "enter" /\ challenge' \in BOOLEAN
  /\ UNCHANGED <<early, temp, handed, unjudged, judged, lost>>

HandIn(now) ==
  /\ handed' = (IF now THEN handed + 1 ELSE handed)
  /\ unjudged' = (IF now THEN unjudged + 1 ELSE unjudged)

\* part2-1: the user has entered the flag; part2-3: it is taken from the capture,
\* which is Capture, and the datagrams read for it are left out here.
EnterFlag ==
  /\ verifyMode = "enter" /\ verifyMode' = "loop" /\ HandIn(early)
  /\ UNCHANGED <<early, challenge, temp, waiting, judged, lost>>

AskedNow == temp' = AskAt

\* Mutant: the verdict "N" is not looked for.
TwoVerdicts(letter) == letter \in {"B", "G"}
Ends(letter)        == letter \in Verdict

\* One turn of the loop: the flag is handed in before the datagram is looked at.
ReadNext ==
  /\ verifyMode = "loop" /\ waiting # <<>> /\ waiting' = Tail(waiting)
  /\ temp' = IF temp <= AskAt THEN temp + 1 ELSE temp
  /\ HandIn(temp <= AskAt /\ AskedNow)
  /\ verifyMode' = IF Ends(Head(waiting)) THEN "end" ELSE "loop"
  /\ UNCHANGED <<early, challenge, judged, lost>>

-----------------------------------------------------------------------------
VerifyInit ==
  /\ early \in BOOLEAN /\ verifyMode = "hello" /\ challenge = FALSE /\ temp = 0 /\ handed = 0
  /\ waiting = <<>> /\ unjudged = 0 /\ judged = 0 /\ lost = 0

Main == Hello \/ Chals \/ EnterFlag \/ ReadNext
VerifyNext == Main \/ SendNumber \/ Lose \/ \E verdict \in Verdict : Judge(verdict)

\* Main runs, the referee sends and judges.  It judges again and again because
\* a verdict may find the queue full.
VerifySpec ==
  /\ VerifyInit /\ [][VerifyNext]_verifyVars /\ WF_verifyVars(Main) /\ WF_verifyVars(SendNumber)
  /\ SF_verifyVars(\E verdict \in Verdict : Judge(verdict))

-----------------------------------------------------------------------------
\* hello, the id or chals is lost, each of which is sent once.
StartLost == \/ verifyMode = "id" /\ waiting = <<>>
             \/ verifyMode \in {"enter", "loop"} /\ ~challenge

\* A flag that was handed in early and lost is made up for by the hundredth
\* datagram: once the challenge has begun, the program ends unless each of its flags,
\* or the verdict on it, is lost.  It ends on a verdict only.
EndsUnlessAllLost ==
  /\ [](VerifyTypeOK /\ (verifyMode = "end" => judged > 0))
  /\ <>(verifyMode = "end" \/ lost = Sends \/ StartLost)
=============================================================================
