---------------------------- MODULE FileTransfer ----------------------------
(***************************************************************************)
(* lab6/cli.c and lab6/srv.c: files numbered from 0 sent in chunks of SIZE *)
(* bytes over UDP, one unacknowledged chunk at a time.                     *)
(*                                                                         *)
(* The network loses, delays, duplicates and reorders datagrams: packets   *)
(* and acks are the sets of those ever sent, and any of them may be        *)
(* received at any time, again or never.  Sending the five or ten copies   *)
(* of the code is adding the packet to the set.  What a chunk contains is  *)
(* abstracted to the file and the position it was read from.               *)
(*                                                                         *)
(* A chunk is acknowledged before it is written, and may be acknowledged   *)
(* without being written: hand has the packet in between.                  *)
(***************************************************************************)
EXTENDS Integers, Sequences

CONSTANTS
  SIZE,         \* bytes of a chunk
  Jobs,         \* what the client may be told to send
  MaxResend     \* resends of one chunk after which the client exits (20)

ASSUME SizeAssumption == SIZE \in Nat \ {0} /\ MaxResend \in Nat
\* A job is the number of files, whose names have three digits, their sizes, and
\* the <<file, seq>> whose content is the string "END".
ASSUME JobsAssumption ==
  \A j \in Jobs :
    /\ j.n \in 0..1000 /\ j.size \in [0..j.n-1 -> Nat] /\ j.ends \subseteq Nat \X Nat

VARIABLES
  phase, count, seq, buffer, total, re_count,     \* cli.c
  server_count, written, server_total, stored,    \* srv.c; stored: what fwrite was given
  hand,                                           \* srv.c: acknowledged, not looked at again
  packets, acks,                                  \* the network
  due,                                            \* packets not received since last sent
  job                                             \* the arguments and the files

client == <<phase, count, seq, buffer, total, re_count>>
server == <<server_count, written, server_total, stored, hand>>
vars   == <<client, server, packets, acks, due, job>>

FileSize  == job.size
EndChunks == job.ends
NFiles    == job.n
File      == 0..NFiles-1

Chunk  == File \X Nat
NoData == <<-1, -1>>
Packet == [file_num : File, seq : Nat, buf : Chunk, total_size : Nat]
Piece  == [buf : Chunk, bytes : Nat]

TypeOK ==
  /\ phase \in {"send", "wait", "exited"}
  /\ count \in 0..NFiles /\ seq \in Nat /\ total \in Nat
  /\ buffer \in Chunk \union {NoData}
  /\ re_count \in 0..MaxResend+1
  /\ server_count \in 0..NFiles /\ written \in Nat /\ server_total \in Nat
  /\ stored \in [File -> Seq(Piece)]
  /\ packets \subseteq Packet /\ hand \subseteq packets /\ due \subseteq packets
  /\ acks \subseteq Nat
  /\ job \in Jobs

-----------------------------------------------------------------------------
\* send_file_data

Sending == phase = "send" /\ count < NFiles
IsLast  == total + SIZE >= FileSize[count]

\* The packet that says content is the chunk seq.
Send(content) ==
  LET p == [file_num |-> count, seq |-> seq, buf |-> content, total_size |-> FileSize[count]] IN
  packets' = packets \union {p} /\ due' = due \union {p}

ReadAndSend ==
  /\ total < FileSize[count]
  /\ buffer' = <<count, seq>>
  /\ re_count' = 0
  /\ Send(<<count, seq>>)

\* A chunk that is not the last is sent and its acknowledgement awaited, unless
\* the last sendto fails, whatever became of the ones before it.
SendChunk ==
  /\ Sending /\ ~IsLast
  /\ ReadAndSend
  /\ phase' \in {"wait", "exited"}
  /\ UNCHANGED <<count, seq, total, server, acks, job>>

\* The last chunk is sent and not waited for.
SendLast ==
  /\ Sending /\ IsLast
  /\ ReadAndSend
  /\ total' = total + SIZE
  /\ UNCHANGED <<phase, count, seq, server, acks, job>>

\* fread returns 0; send_file_data is called for the next file.
EndOfFile ==
  /\ Sending /\ total >= FileSize[count]
  /\ count' = count + 1 /\ seq' = 0 /\ total' = 0
  /\ UNCHANGED <<phase, buffer, re_count, server, packets, acks, due, job>>

\* Mutant: any acknowledgement will do.
Awaits(ack) == TRUE
IsAwaited(ack) == ack = seq

\* The alarm is cancelled before seq moves on.
ReceiveAck(ack) ==
  /\ phase = "wait" /\ ack \in acks
  /\ IsAwaited(ack)
  /\ phase' = "send"
  /\ total' = total + SIZE /\ seq' = seq + 1
  /\ UNCHANGED <<count, buffer, re_count, server, packets, acks, due, job>>

\* Mutant: the alarm is left running when the acknowledgement arrives.
AlarmStillSet == phase = "wait" \/ (Sending /\ seq > 0 /\ total < FileSize[count])
AlarmSet == phase = "wait"

\* Mutant: the counter starts again at each resend.
ResendsForgotten == 0
Resends == re_count + 1

GivesUp(resends) == resends > MaxResend

\* SIGALRM: the packet is built again from the globals.  The client exits when the
\* sendto fails or there have been enough.
do_send ==
  /\ AlarmSet
  /\ Send(buffer)
  /\ re_count' = Resends
  /\ \/ phase' = IF GivesUp(re_count') THEN "exited" ELSE phase
     \/ phase' = "exited"
  /\ UNCHANGED <<count, seq, buffer, total, server, acks, job>>

-----------------------------------------------------------------------------
\* write_file, for the file number server_count

Receiving(p) ==
  /\ server_count < NFiles /\ hand = {} /\ p \in packets
  /\ due' = due \ {p}
IsEnd(p)     == p.buf \in EndChunks

\* Mutant: the sequence number is not looked at.
IsShortOfTotal(p) == server_total + SIZE > p.total_size
\* Mutant: the file ends once its whole length has been written.
IsPastTotal(p) == p.seq = written /\ server_total >= p.total_size
\* The chunk ends the file of which total_size is the size.
CompletesFile(p) == p.seq = written /\ server_total + SIZE > p.total_size

WriteLast(p) ==
  [stored EXCEPT ![server_count] =
    Append(@, [buf |-> p.buf, bytes |-> p.total_size - server_total])]

NextFile == server_count' = server_count + 1 /\ written' = 0 /\ server_total' = 0

\* The reply to "END" is no acknowledgement any client waits for.
ReceiveEnd(p) ==
  /\ Receiving(p) /\ IsEnd(p)
  /\ NextFile
  /\ UNCHANGED <<stored, hand, client, packets, acks, job>>

ReceiveLast(p) ==
  /\ Receiving(p) /\ ~IsEnd(p) /\ CompletesFile(p)
  /\ stored' = WriteLast(p)
  /\ NextFile
  /\ UNCHANGED <<hand, client, packets, acks, job>>

IsWanted(p)  == p.seq = written /\ p.file_num = server_count

\* Every other packet is acknowledged ...
Acknowledge(p) ==
  /\ Receiving(p) /\ ~IsEnd(p) /\ ~CompletesFile(p)
  /\ acks' = acks \union {p.seq} /\ hand' = {p}
  /\ UNCHANGED <<server_count, written, server_total, stored, client, packets, job>>

\* ... and then written if it is the next one.
Write(p) ==
  /\ p \in hand /\ hand' = {}
  /\ IF IsWanted(p)
       THEN /\ stored' = [stored EXCEPT ![server_count] = Append(@, [buf |-> p.buf, bytes |-> SIZE])]
            /\ written' = written + 1 /\ server_total' = server_total + SIZE
       ELSE UNCHANGED <<stored, written, server_total>>
  /\ UNCHANGED <<server_count, client, packets, acks, due, job>>

-----------------------------------------------------------------------------
Init ==
  /\ job \in Jobs
  /\ phase = "send" /\ count = 0 /\ seq = 0 /\ buffer = NoData
  /\ total = 0 /\ re_count = 0
  /\ server_count = 0 /\ written = 0 /\ server_total = 0
  /\ stored = [f \in File |-> <<>>]
  /\ packets = {} /\ acks = {} /\ hand = {} /\ due = {}

Client == \/ SendChunk \/ SendLast \/ EndOfFile
          \/ \E ack \in acks : ReceiveAck(ack)
          \/ do_send

Receive(p) == ReceiveEnd(p) \/ ReceiveLast(p) \/ Acknowledge(p)
Server     == \E p \in packets : Receive(p) \/ Write(p)

Next == Client \/ Server

Spec == Init /\ [][Next]_vars

\* The client runs, and its alarm goes off while it waits; nothing is assumed of
\* the network or of the server.
FairSpec == Spec /\ WF_vars(Client)

\* A network that delivers every datagram in the end, in any order and with any
\* duplicates before and after, to a server that runs.
Delivers == SF_vars(\E p \in due : Receive(p)) /\ WF_vars(\E p \in hand : Write(p))

-----------------------------------------------------------------------------
\* What has been given to fwrite, and is on the disk once the file is closed

Own(f, i) == [buf |-> <<f, i-1>>, bytes |-> SIZE]

\* Whatever the network does, a file on the disk is a run of the source file's
\* own chunks, in order and without a gap, ended at most by one short piece that
\* was at that position of some file: fwrite is never given a negative length or
\* one beyond the buffer.
OrderedPrefix ==
  \A f \in File : \A i \in 1..Len(stored[f]) :
    \/ stored[f][i] = Own(f, i)
    \/ /\ i = Len(stored[f]) /\ f < server_count
       /\ stored[f][i].buf[2] = i-1
       /\ stored[f][i].bytes \in 1..SIZE-1

\* A client that waits does so for a chunk that is not the file's last, and can
\* still resend it.
WaitingForChunk ==
  phase = "wait" => /\ count < NFiles /\ buffer = <<count, seq>>
                    /\ (seq + 1) * SIZE < FileSize[count]
                    /\ re_count <= MaxResend

\* total is that of the chunks before seq, or of all of them once the last is sent.
ReadingInStep ==
  count < NFiles =>
    \/ total = seq * SIZE /\ (seq = 0 \/ total < FileSize[count])
    \/ total = (seq + 1) * SIZE /\ total >= FileSize[count]

\* Resent or not, a packet says of its chunk what is true of it.
PacketsTrue ==
  \A p \in packets : /\ p.buf = <<p.file_num, p.seq>>
                     /\ p.total_size = FileSize[p.file_num]
                     /\ p.seq * SIZE < p.total_size

\* The file being written has only whole chunks of its own, the later ones nothing.
WritingInStep ==
  /\ server_total = written * SIZE
  /\ server_count < NFiles =>
       /\ Len(stored[server_count]) = written
       /\ \A i \in 1..written : stored[server_count][i] = Own(server_count, i)
  /\ \A f \in File : f > server_count => stored[f] = <<>>

\* The server has one packet in hand at most, and then a file open.
OneInHand == hand = {} \/ (server_count < NFiles /\ \E p \in packets : hand = {p})

\* The conjuncts after the second are what the others need to survive the next step.
DiskSound == /\ TypeOK /\ OrderedPrefix
             /\ WaitingForChunk /\ ReadingInStep /\ PacketsTrue /\ WritingInStep
             /\ OneInHand

\* The file f as the client reads it.
Source(f) ==
  [i \in 1..(FileSize[f] + SIZE - 1) \div SIZE |->
     [buf   |-> <<f, i-1>>,
      bytes |-> IF i * SIZE <= FileSize[f] THEN SIZE ELSE FileSize[f] - (i-1) * SIZE]]

\* srv.c line 53, "Receiving the data and writing it into the file.": a file the
\* server has finished is the file the client sent under that number.  It holds
\* when one file is sent and no chunk of it reads "END", whatever the network does,
\* and fails when there are more: nothing tells one file's last chunk from another's.
FinishedIsSource == \A f \in 0..server_count-1 : stored[f] = Source(f)

OneFileIsSource == NFiles = 1 /\ EndChunks = {} => FinishedIsSource

\* The chunks of the file that have been given to fwrite or will be at once.
InHand == IF \E p \in hand : IsWanted(p) THEN Len(stored[0]) + 1 ELSE Len(stored[0])

\* With one file nobody runs ahead of the server, whatever comes late or again: a
\* chunk is sent only when the server has those before it, a chunk that has been
\* acknowledged is written or about to be, and a client that has sent its file may
\* leave only the last chunk, which is never acknowledged, behind.
NeverAhead ==
  NFiles = 1 =>
    /\ count = 0 => seq <= InHand
    /\ count = 1 => Len(Source(0)) - 1 <= InHand
    /\ \A p \in packets : p.seq <= InHand
    /\ \A ack \in acks : ack < InHand

\* If the network delivers every datagram, one file is completed unless the client
\* gives up.  A file that is a multiple of SIZE is the exception: its last chunk
\* is the client's last (>=), but not the server's (>).  With more files it is not
\* so: the first chunk of a file may overtake the last one of the file before, and
\* be acknowledged, dropped and never sent again.
Completes ==
  Delivers /\ NFiles = 1 /\ EndChunks = {} /\ (\A f \in File : FileSize[f] % SIZE # 0)
    => <>(server_count = NFiles \/ phase = "exited")

\* The client ends, by sending everything or by giving up, although the server
\* may be gone and each datagram may be lost.
ClientStops == <>(phase = "exited" \/ (phase = "send" /\ count = NFiles))
=============================================================================
