-------------------------------- MODULE Capture --------------------------------
(***************************************************************************)
(* lab1/part2-3.c up to the flag: the server sends numbered datagrams      *)
(* whose lengths spell a message, between one marked begin and one marked  *)
(* end, in any order and again and again.  tcpdump, started beside the     *)
(* program, writes what it sees to a file whenever it likes; the program   *)
(* takes the message from the file.  part2-2.c takes it from a capture     *)
(* that is complete, and prints it.                                        *)
(***************************************************************************)
EXTENDS Integers, Sequences, FiniteSets

CONSTANTS
  First, Last,      \* the numbers of the begin and the end datagram
  Enough,           \* datagrams received before the file is looked at: 15
  MaxSent           \* bound on the datagrams sent

ASSUME NumberAssumption ==
  /\ {First, Last, Enough, MaxSent} \subseteq Nat /\ 0 < First /\ First < Last

VARIABLES
  started,          \* external: tcpdump is running
  seen, file,       \* external: the datagrams it has seen, how many of them are in the file
  datagrams,        \* external: how many have been sent
  cnt,              \* main
  next,             \* how many of the file's have gone to packet_handler
  packet_lengths, begin, end,
  place, flag, printed,
  captureMode

dump  == <<started, seen, file, datagrams>>
found == <<packet_lengths, begin, end>>
spelled == <<place, flag, printed>>
captureVars == <<dump, cnt, next, found, spelled, captureMode>>

Number  == First..Last
Plain   == 0                \* the number read from a datagram that has none
Message == First+1..Last-1
\* The length of a datagram less 48: one for each number will do.
LetterOf(s) == 100 + s
Missing   == -1
Garbage   == -2             \* what an element of flag has that nothing was written to

CaptureTypeOK ==
  /\ started \in BOOLEAN /\ datagrams \in 0..MaxSent
  /\ seen \in Seq(Number \cup {Plain}) /\ file \in -1..Len(seen)
  /\ cnt \in 0..Enough /\ next \in 0..Len(seen)
  /\ packet_lengths \in [0..Last -> Nat \cup {Missing}] /\ begin \in 0..Last /\ end \in 0..Last
  /\ place \in 0..Last /\ {flag, printed} \subseteq Seq(Nat \cup {Garbage})
  /\ captureMode \in {"hello", "recv", "read", "spell", "flag"}

-----------------------------------------------------------------------------
\* External: system("sudo tcpdump ... &") returns before tcpdump runs.
Start ==
  /\ ~started /\ started' = TRUE
  /\ UNCHANGED <<seen, file, datagrams, cnt, next, found, spelled, captureMode>>

\* The hello, the id and chals are captured too; one of them stands for all.
Talk ==
  /\ captureMode = "hello" /\ captureMode' = "recv"
  /\ seen' = IF started THEN Append(seen, Plain) ELSE seen
  /\ UNCHANGED <<started, file, datagrams, cnt, next, found, spelled>>

\* A datagram comes; recvfrom counts it while it is still counting.
Arrive(s) ==
  /\ captureMode # "hello" /\ datagrams < MaxSent /\ datagrams' = datagrams + 1
  /\ seen' = IF started THEN Append(seen, s) ELSE seen
  /\ cnt' = IF cnt < Enough THEN cnt + 1 ELSE cnt
  /\ UNCHANGED <<started, file, next, found, spelled, captureMode>>

\* External: tcpdump empties its buffer; file is -1 before its header is there.
Flush ==
  /\ started /\ file' \in file+1..Len(seen)
  /\ UNCHANGED <<started, seen, datagrams, cnt, next, found, spelled, captureMode>>

NonEmpty == file >= 0

\* pcap_open_offline, as soon as enough datagrams have come and the file is not empty.
OpenFile ==
  /\ captureMode = "recv" /\ cnt = Enough /\ NonEmpty
  /\ packet_lengths' = [s \in 0..Last |-> Missing] /\ captureMode' = "read"
  /\ UNCHANGED <<dump, cnt, next, begin, end, spelled>>

\* Mutant: begin and end are taken from whatever packet comes first and last.
FirstIsBegin(s) == begin' = (IF next = 0 THEN s ELSE begin) /\ end' = s
Marks(s)        == begin' = (IF s = First THEN s ELSE begin) /\ end' = (IF s = Last THEN s ELSE end)

packet_handler(s) ==
  /\ Marks(s)
  /\ packet_lengths' = [packet_lengths EXCEPT ![s] = 48 + LetterOf(s)]

\* pcap_next
Handle ==
  /\ captureMode = "read" /\ next < file
  /\ packet_handler(seen[next+1]) /\ next' = next + 1
  /\ UNCHANGED <<dump, cnt, spelled, captureMode>>

\* The end of the file: the loop over the numbers between begin and end starts, on
\* an array flag that nothing was written to.  If there are none between them
\* flag[-1] or worse is written in the end, which is not modelled further.
EndOfFile ==
  /\ captureMode = "read" /\ next = file
  /\ place' = begin + 1 /\ flag' = [k \in 1..end-begin-1 |-> Garbage]
  /\ captureMode' = "spell"
  /\ UNCHANGED <<dump, cnt, next, found, printed>>

\* One turn of it.  part2-3 writes to flag, part2-2 prints.
Spell ==
  /\ captureMode = "spell" /\ place < end
  /\ IF packet_lengths[place] # Missing
       THEN /\ flag' = [flag EXCEPT ![place-begin] = packet_lengths[place] - 48]
            /\ printed' = Append(printed, packet_lengths[place] - 48)
       ELSE UNCHANGED <<flag, printed>>
  /\ place' = place + 1
  /\ UNCHANGED <<dump, cnt, next, found, captureMode>>

MakeFlag ==
  /\ captureMode = "spell" /\ ~(place < end)
  /\ captureMode' = "flag"
  /\ UNCHANGED <<dump, cnt, next, found, spelled>>

-----------------------------------------------------------------------------
CaptureInit ==
  /\ started = FALSE /\ seen = <<>> /\ file = -1 /\ datagrams = 0 /\ cnt = 0 /\ next = 0
  /\ packet_lengths = [s \in 0..Last |-> 0] /\ begin = 0 /\ end = 0
  /\ place = 0 /\ flag = <<>> /\ printed = <<>> /\ captureMode = "hello"

CaptureNext ==
  \/ Start \/ Talk \/ Flush \/ OpenFile \/ Handle \/ EndOfFile \/ Spell \/ MakeFlag
  \/ \E s \in Number : Arrive(s)
CaptureSpec == CaptureInit /\ [][CaptureNext]_captureVars

-----------------------------------------------------------------------------
InFile == {seen[k] : k \in 1..next}

\* What is known after any number of packets is what the set of them says:
\* neither their order nor how often one comes makes a difference.
FoundIsSet ==
  captureMode \in {"read", "spell", "flag"} =>
    /\ \A s \in 0..Last : packet_lengths[s] = IF s \in InFile THEN 48 + LetterOf(s) ELSE Missing
    /\ begin = (IF First \in InFile THEN First ELSE 0)
    /\ end = (IF Last \in InFile THEN Last ELSE 0)

\* The file is read once, from its start, and nothing is printed before its end.
Untouched ==
  /\ captureMode \in {"hello", "recv"} => next = 0 /\ begin = 0 /\ end = 0
  /\ captureMode \in {"hello", "recv", "read"} => printed = <<>>

\* The numbers that the loop has been at; all of them when it has ended.
Reached  == begin+1..place-1
Bounds   == {First, Last} \subseteq InFile
LoopEnds ==
  /\ captureMode \in {"spell", "flag"} => begin < place
  /\ captureMode = "flag" /\ Bounds => place = Last

\* The flag is the message if every datagram of it was in the file, and if one
\* is missing the place of it is not: no letter is ever at a wrong place.
FlagIsMessage ==
  captureMode \in {"spell", "flag"} /\ Bounds =>
    /\ Len(flag) = Last - First - 1
    /\ \A k \in 1..Len(flag) :
         flag[k] = IF First + k \in Reached \cap InFile THEN LetterOf(First + k) ELSE Garbage

\* What part2-2 prints has the letters in the right order, without the gaps.
PrintsInOrder ==
  captureMode \in {"spell", "flag"} /\ Bounds =>
    /\ \A k, l \in 1..Len(printed) : k < l => printed[k] < printed[l]
    /\ {printed[k] : k \in 1..Len(printed)} = {LetterOf(s) : s \in InFile \cap Reached}

\* In whatever order, how often and how many of the datagrams have come.
MessageRight ==
  CaptureTypeOK /\ Untouched /\ FoundIsSet /\ LoopEnds /\ FlagIsMessage /\ PrintsInOrder
=============================================================================
