------------------------ MODULE FileTransfer_proofs ------------------------
(***************************************************************************)
(* What the disk of lab6's server holds, for any chunk size, any files and *)
(* any network that loses, delays, duplicates and reorders datagrams.      *)
(* DiskSound is inductive; with one file NeverAhead is, and the file the   *)
(* server finishes is the source file.                                     *)
(***************************************************************************)
EXTENDS FileTransfer, SequenceFacts

USE DEF File

\* What is known of the arguments and the files.
LEMMA JobFacts ==
  ASSUME job \in Jobs
  PROVE  NFiles \in 0..1000 /\ NFiles \in Nat /\ FileSize \in [File -> Nat]
<1>1. NFiles \in 0..1000
  BY JobsAssumption DEF NFiles
<1>2. FileSize \in [File -> Nat]
  BY JobsAssumption DEF NFiles, FileSize
<1> QED BY <1>1, <1>2

\* No step changes them.
LEMMA JobKept ==
  ASSUME job' = job
  PROVE  NFiles' = NFiles /\ FileSize' = FileSize /\ EndChunks' = EndChunks
BY DEF NFiles, FileSize, EndChunks

LEMMA Multiples ==
  \A k \in Nat : k * SIZE \in Nat /\ (k + 1) * SIZE = k * SIZE + SIZE
BY SizeAssumption

\* The last of the chunks that a file of size n is read in.
LEMMA LastChunk ==
  ASSUME NEW n \in Nat, NEW k \in Nat
  PROVE  /\ n <= k * SIZE => (n + SIZE - 1) \div SIZE <= k
         /\ k * SIZE < n /\ n <= k * SIZE + SIZE => (n + SIZE - 1) \div SIZE = k + 1
BY SizeAssumption

LEMMA InitDisk == Init => DiskSound
<1> SUFFICES ASSUME Init PROVE DiskSound
  OBVIOUS
<1>1. job \in Jobs /\ NFiles \in 0..1000 /\ NFiles \in Nat /\ FileSize \in [File -> Nat]
  BY JobFacts DEF Init
<1>2. /\ stored = [f \in File |-> <<>>] /\ stored \in [File -> Seq(Piece)]
      /\ Len(<<>>) = 0
  BY EmptySeq DEF Init
<1>3. TypeOK
  BY <1>1, <1>2, SizeAssumption DEF Init, TypeOK
<1>4. OrderedPrefix
  BY <1>2 DEF OrderedPrefix
<1>5. WritingInStep
  <2>1. server_count = 0 /\ written = 0 /\ server_total = written * SIZE
    BY SizeAssumption DEF Init
  <2>2. server_count < NFiles => server_count \in File
    BY <1>1, <2>1
  <2> QED BY <1>2, <2>1, <2>2 DEF WritingInStep
<1>6. WaitingForChunk /\ ReadingInStep /\ PacketsTrue /\ OneInHand
  BY SizeAssumption DEF Init, WaitingForChunk, ReadingInStep, PacketsTrue, OneInHand
<1> QED BY <1>3, <1>4, <1>5, <1>6 DEF DiskSound

-----------------------------------------------------------------------------
\* The client's steps leave the disk alone; what they send is true of its chunk.

DiskKept == UNCHANGED <<server, job>>

LEMMA ClientKeepsDisk ==
  ASSUME DiskSound, DiskKept
  PROVE  OrderedPrefix' /\ WritingInStep' /\ NFiles' = NFiles /\ FileSize' = FileSize
<1>1. /\ NFiles' = NFiles /\ FileSize' = FileSize
      /\ stored' = stored /\ written' = written /\ server_total' = server_total
      /\ server_count' = server_count
  BY JobKept DEF DiskKept, server
<1> QED BY <1>1 DEF DiskSound, OrderedPrefix, WritingInStep, Own

\* The packet of the chunk of the current file that seq numbers.
LEMMA PacketSent ==
  ASSUME DiskSound, count < NFiles, seq * SIZE < FileSize[count], job' = job,
         Send(<<count, seq>>)
  PROVE  /\ packets' \subseteq Packet /\ PacketsTrue'
         /\ packets \subseteq packets' /\ due' \subseteq packets'
<1>1. /\ count \in File /\ seq \in Nat /\ FileSize[count] \in Nat
      /\ NFiles' = NFiles /\ FileSize' = FileSize
  BY JobFacts, JobKept DEF DiskSound, TypeOK
<1>2. PICK new : new = [file_num |-> count, seq |-> seq, buf |-> <<count, seq>>,
                        total_size |-> FileSize[count]]
  OBVIOUS
<1>3. /\ Packet' = Packet /\ packets \subseteq Packet /\ packets' = packets \union {new}
      /\ due' = due \union {new} /\ due \subseteq packets
  BY <1>1, <1>2 DEF Send, DiskSound, TypeOK, Packet, Chunk
<1>4. new \in Packet
  BY <1>1, <1>2 DEF Packet, Chunk
<1>5. /\ new.buf = <<new.file_num, new.seq>>
      /\ new.total_size = FileSize[new.file_num] /\ new.seq * SIZE < new.total_size
  BY <1>2
<1>6. \A p \in packets' : /\ p.buf = <<p.file_num, p.seq>>
                          /\ p.total_size = FileSize[p.file_num]
                          /\ p.seq * SIZE < p.total_size
  BY <1>3, <1>5 DEF DiskSound, PacketsTrue
<1> QED BY <1>1, <1>3, <1>4, <1>6 DEF PacketsTrue

\* The facts every step of the client starts from.
LEMMA ClientFacts ==
  ASSUME DiskSound
  PROVE  /\ NFiles \in Nat /\ FileSize \in [File -> Nat]
         /\ count \in 0..NFiles /\ seq \in Nat /\ total \in Nat
         /\ re_count \in 0..MaxResend+1
         /\ count < NFiles => count \in File /\ FileSize[count] \in Nat
         /\ seq * SIZE \in Nat /\ (seq + 1) * SIZE = seq * SIZE + SIZE
<1>1. /\ NFiles \in Nat /\ FileSize \in [File -> Nat]
      /\ count \in 0..NFiles /\ seq \in Nat /\ total \in Nat /\ re_count \in 0..MaxResend+1
  BY JobFacts DEF DiskSound, TypeOK
<1>2. count < NFiles => count \in File /\ FileSize[count] \in Nat
  BY <1>1
<1> QED BY <1>1, <1>2, Multiples

LEMMA ClientType ==
  ASSUME DiskSound, DiskKept, acks' = acks,
         phase' \in {"send", "wait", "exited"}, count' \in 0..NFiles,
         seq' \in Nat, total' \in Nat, buffer' \in Chunk \union {NoData},
         re_count' \in 0..MaxResend+1, packets' \subseteq Packet,
         packets \subseteq packets', due' \subseteq packets'
  PROVE  TypeOK' /\ OneInHand'
<1>1. NFiles' = NFiles /\ Chunk' = Chunk /\ Packet' = Packet /\ Piece' = Piece /\ NoData' = NoData
  <2>1. NFiles' = NFiles
    BY JobKept DEF DiskKept
  <2>2. Chunk' = Chunk
    BY <2>1 DEF Chunk
  <2> QED BY <2>1, <2>2 DEF Packet, Piece, NoData
<1>2. /\ server_count \in 0..NFiles /\ written \in Nat /\ server_total \in Nat
      /\ stored \in [File -> Seq(Piece)] /\ acks \subseteq Nat /\ job \in Jobs
  BY DEF DiskSound, TypeOK
<1>3. /\ server_count' = server_count /\ written' = written /\ server_total' = server_total
      /\ stored' = stored /\ job' = job /\ hand' = hand
  BY DEF DiskKept, server
<1>4. stored' \in [File' -> Seq(Piece')]
  BY <1>1, <1>2, <1>3
<1>5. buffer' \in Chunk' \union {NoData'} /\ packets' \subseteq Packet'
  BY <1>1
<1>6. server_count' \in 0..NFiles' /\ count' \in 0..NFiles'
  BY <1>1, <1>2, <1>3
<1>7. hand' \subseteq packets' /\ OneInHand'
  BY <1>1, <1>3 DEF DiskSound, TypeOK, OneInHand
<1> HIDE DEF File
<1> QED BY <1>2, <1>3, <1>4, <1>5, <1>6, <1>7 DEF TypeOK

LEMMA SendDisk ==
  ASSUME DiskSound, Sending, ReadAndSend, DiskKept, UNCHANGED <<count, seq, acks>>,
         \/ phase' \in {"wait", "exited"} /\ ~IsLast /\ total' = total
         \/ phase' = phase /\ IsLast /\ total' = total + SIZE
  PROVE  DiskSound'
<1>1. /\ OrderedPrefix' /\ WritingInStep' /\ NFiles' = NFiles /\ FileSize' = FileSize
      /\ job' = job
  BY ClientKeepsDisk DEF DiskKept
<1>2. /\ NFiles \in Nat /\ count \in File /\ seq \in Nat /\ total \in Nat
      /\ FileSize[count] \in Nat /\ phase = "send" /\ count < NFiles
      /\ (seq + 1) * SIZE = seq * SIZE + SIZE /\ SIZE \in Nat /\ MaxResend \in Nat
  BY ClientFacts, SizeAssumption DEF Sending
<1>3. total < FileSize[count] /\ total = seq * SIZE
  BY <1>2 DEF ReadAndSend, DiskSound, ReadingInStep
<1>4. /\ packets' \subseteq Packet /\ PacketsTrue'
      /\ packets \subseteq packets' /\ due' \subseteq packets'
  BY <1>1, <1>2, <1>3, PacketSent DEF ReadAndSend
<1>5. /\ phase' \in {"send", "wait", "exited"} /\ total' \in Nat
      /\ buffer' = <<count, seq>> /\ re_count' = 0
      /\ count' = count /\ seq' = seq
  BY <1>2 DEF ReadAndSend
<1>6. WaitingForChunk'
  BY <1>1, <1>2, <1>3, <1>5 DEF WaitingForChunk, IsLast
<1>7. ReadingInStep'
  BY <1>1, <1>2, <1>3, <1>5 DEF ReadingInStep, IsLast
<1>8. TypeOK' /\ OneInHand'
  <2>1. buffer' \in Chunk \union {NoData}
    BY <1>2, <1>5 DEF Chunk
  <2> QED BY <1>2, <1>4, <1>5, <2>1, ClientFacts, ClientType
<1> QED BY <1>1, <1>4, <1>6, <1>7, <1>8 DEF DiskSound

LEMMA EndOfFileDisk == DiskSound /\ EndOfFile => DiskSound'
<1> SUFFICES ASSUME DiskSound, EndOfFile PROVE DiskSound'
  OBVIOUS
<1>1. OrderedPrefix' /\ WritingInStep' /\ NFiles' = NFiles /\ FileSize' = FileSize
  BY ClientKeepsDisk DEF DiskKept, EndOfFile
<1>2. /\ count' = count + 1 /\ count' \in 0..NFiles /\ seq' = 0 /\ total' = 0
      /\ phase' = phase /\ phase = "send" /\ packets' = packets
      /\ total' = seq' * SIZE
  BY ClientFacts, SizeAssumption DEF EndOfFile, Sending
<1>3. WaitingForChunk' /\ ReadingInStep'
  BY <1>2 DEF WaitingForChunk, ReadingInStep
<1>4. PacketsTrue'
  BY <1>1, <1>2 DEF DiskSound, PacketsTrue
<1>5. TypeOK' /\ OneInHand'
  <2>1. DiskKept /\ acks' = acks /\ packets' = packets /\ packets' \subseteq Packet /\ due' \subseteq packets'
        /\ re_count' \in 0..MaxResend+1 /\ buffer' \in Chunk \union {NoData}
    BY DEF EndOfFile, DiskKept, DiskSound, TypeOK
  <2>2. phase' \in {"send", "wait", "exited"} /\ count' \in 0..NFiles /\ seq' \in Nat /\ total' \in Nat
    BY <1>2
  <2> QED BY <2>1, <2>2, ClientType
<1> QED BY <1>1, <1>3, <1>4, <1>5 DEF DiskSound

LEMMA ReceiveAckDisk == ASSUME NEW ack PROVE DiskSound /\ ReceiveAck(ack) => DiskSound'
<1> SUFFICES ASSUME DiskSound, ReceiveAck(ack) PROVE DiskSound'
  OBVIOUS
<1>1. OrderedPrefix' /\ WritingInStep' /\ NFiles' = NFiles /\ FileSize' = FileSize
  BY ClientKeepsDisk DEF DiskKept, ReceiveAck
<1>2. /\ count < NFiles /\ (seq + 1) * SIZE < FileSize[count]
      /\ seq \in Nat /\ total \in Nat /\ FileSize[count] \in Nat /\ SIZE \in Nat
      /\ (seq + 1) * SIZE = seq * SIZE + SIZE /\ seq * SIZE \in Nat
  BY ClientFacts, SizeAssumption DEF ReceiveAck, DiskSound, WaitingForChunk
<1>3. total = seq * SIZE
  BY <1>2 DEF DiskSound, ReadingInStep
<1>4. PICK k : k = seq + 1
  OBVIOUS
<1>5. /\ phase' = "send" /\ count' = count /\ seq' = k /\ total' = k * SIZE
      /\ k \in Nat /\ total' \in Nat /\ packets' = packets
  BY <1>2, <1>3, <1>4 DEF ReceiveAck
<1>6. WaitingForChunk' /\ ReadingInStep'
  BY <1>1, <1>2, <1>4, <1>5 DEF WaitingForChunk, ReadingInStep
<1>7. PacketsTrue'
  BY <1>1, <1>5 DEF DiskSound, PacketsTrue
<1>8. TypeOK' /\ OneInHand'
  <2>1. DiskKept /\ acks' = acks /\ packets' = packets /\ packets' \subseteq Packet /\ due' \subseteq packets'
        /\ re_count' \in 0..MaxResend+1 /\ buffer' \in Chunk \union {NoData}
        /\ count' \in 0..NFiles
    BY DEF ReceiveAck, DiskKept, DiskSound, TypeOK
  <2>2. phase' \in {"send", "wait", "exited"} /\ seq' \in Nat /\ total' \in Nat
    BY <1>5
  <2> QED BY <2>1, <2>2, ClientType
<1> QED BY <1>1, <1>6, <1>7, <1>8 DEF DiskSound

\* A resend is of the chunk waited for, and the client is left with the resends it
\* may still make.
LEMMA ResendDisk == DiskSound /\ do_send => DiskSound'
<1> SUFFICES ASSUME DiskSound, do_send PROVE DiskSound'
  OBVIOUS
<1>1. OrderedPrefix' /\ WritingInStep' /\ NFiles' = NFiles /\ FileSize' = FileSize
  BY ClientKeepsDisk DEF DiskKept, do_send
<1>2. /\ count < NFiles /\ (seq + 1) * SIZE < FileSize[count]
      /\ buffer = <<count, seq>> /\ re_count <= MaxResend /\ re_count \in 0..MaxResend+1
      /\ seq \in Nat /\ FileSize[count] \in Nat /\ SIZE \in Nat /\ MaxResend \in Nat
      /\ (seq + 1) * SIZE = seq * SIZE + SIZE /\ seq * SIZE \in Nat
  BY ClientFacts, SizeAssumption DEF do_send, AlarmSet, DiskSound, WaitingForChunk
<1>3. /\ packets' \subseteq Packet /\ PacketsTrue'
      /\ packets \subseteq packets' /\ due' \subseteq packets'
  BY <1>2, PacketSent DEF do_send
<1>4. PICK k : k = re_count + 1
  OBVIOUS
<1>5. /\ re_count' = k /\ k \in 0..MaxResend+1
      /\ phase' \in {"wait", "exited"} /\ (phase' = "wait" => k <= MaxResend)
      /\ count' = count /\ seq' = seq /\ total' = total /\ buffer' = buffer
  BY <1>2, <1>4 DEF do_send, Resends, GivesUp, AlarmSet
<1>6. WaitingForChunk'
  BY <1>1, <1>2, <1>5 DEF WaitingForChunk
<1>7. ReadingInStep'
  BY <1>1, <1>5 DEF DiskSound, ReadingInStep
<1>8. TypeOK' /\ OneInHand'
  <2>1. DiskKept /\ acks' = acks /\ buffer' \in Chunk \union {NoData}
        /\ count' \in 0..NFiles /\ seq' \in Nat /\ total' \in Nat
    BY DEF do_send, DiskKept, DiskSound, TypeOK
  <2>2. phase' \in {"send", "wait", "exited"} /\ re_count' \in 0..MaxResend+1
    BY <1>5
  <2> QED BY <1>3, <2>1, <2>2, ClientType
<1> QED BY <1>1, <1>3, <1>6, <1>7, <1>8 DEF DiskSound

-----------------------------------------------------------------------------
\* The server's steps leave the client alone.

ClientKept == UNCHANGED <<client, packets, job>>

LEMMA ServerKeepsClient ==
  ASSUME DiskSound, ClientKept
  PROVE  /\ WaitingForChunk' /\ ReadingInStep' /\ PacketsTrue'
         /\ NFiles' = NFiles /\ FileSize' = FileSize
<1>1. /\ NFiles' = NFiles /\ FileSize' = FileSize /\ packets' = packets
      /\ phase' = phase /\ count' = count /\ seq' = seq /\ total' = total
      /\ buffer' = buffer /\ re_count' = re_count
  BY JobKept DEF ClientKept, client
<1> QED BY <1>1 DEF DiskSound, WaitingForChunk, ReadingInStep, PacketsTrue

LEMMA ServerType ==
  ASSUME DiskSound, ClientKept, server_count' \in 0..NFiles, written' \in Nat,
         server_total' \in Nat, stored' \in [File -> Seq(Piece)], acks' \subseteq Nat,
         hand' \subseteq packets, due' \subseteq due
  PROVE  TypeOK'
<1>1. NFiles' = NFiles /\ Chunk' = Chunk /\ Packet' = Packet /\ Piece' = Piece /\ NoData' = NoData
  <2>1. NFiles' = NFiles
    BY JobKept DEF ClientKept
  <2>2. Chunk' = Chunk
    BY <2>1 DEF Chunk
  <2> QED BY <2>1, <2>2 DEF Packet, Piece, NoData
<1>2. /\ phase' \in {"send", "wait", "exited"} /\ count' \in 0..NFiles
      /\ seq' \in Nat /\ total' \in Nat /\ buffer' \in Chunk \union {NoData}
      /\ re_count' \in 0..MaxResend+1 /\ packets' \subseteq Packet /\ job' \in Jobs
  BY DEF ClientKept, client, DiskSound, TypeOK
<1>3. stored' \in [File' -> Seq(Piece')]
  BY <1>1
<1>4. buffer' \in Chunk' \union {NoData'} /\ packets' \subseteq Packet'
  BY <1>1, <1>2
<1>5. server_count' \in 0..NFiles' /\ count' \in 0..NFiles'
  BY <1>1, <1>2
<1>6. hand' \subseteq packets' /\ due' \subseteq packets'
  BY DEF ClientKept, DiskSound, TypeOK
<1> HIDE DEF File
<1> QED BY <1>2, <1>3, <1>4, <1>5, <1>6 DEF TypeOK

\* The server has a file open, and a packet.
Serving(p) == server_count < NFiles /\ p \in packets

LEMMA Serves ==
  ASSUME DiskSound, NEW p, Receiving(p) \/ p \in hand
  PROVE  Serving(p)
BY DEF DiskSound, TypeOK, OneInHand, Serving, Receiving

\* The facts every step of the server starts from.
LEMMA ServerFacts ==
  ASSUME DiskSound, NEW p, Serving(p)
  PROVE  /\ server_count \in File /\ server_count + 1 \in 0..NFiles /\ NFiles \in Nat
         /\ written \in Nat /\ server_total = written * SIZE /\ server_total \in Nat
         /\ (written + 1) * SIZE = written * SIZE + SIZE
         /\ stored \in [File -> Seq(Piece)] /\ acks \subseteq Nat
         /\ Len(stored[server_count]) = written
         /\ \A i \in 1..written : stored[server_count][i] = Own(server_count, i)
         /\ p \in Packet /\ p.file_num \in File /\ p.seq \in Nat /\ p.total_size \in Nat
         /\ p.buf \in Chunk /\ p.buf = <<p.file_num, p.seq>>
         /\ p.total_size = FileSize[p.file_num] /\ p.seq * SIZE < p.total_size
<1>1. /\ server_count \in 0..NFiles /\ server_count < NFiles /\ NFiles \in Nat
      /\ p \in Packet /\ p \in packets
      /\ stored \in [File -> Seq(Piece)] /\ acks \subseteq Nat
      /\ written \in Nat /\ server_total \in Nat
  BY JobFacts DEF DiskSound, TypeOK, Serving
<1>2. server_count \in File /\ server_count + 1 \in 0..NFiles
  BY <1>1
<1>3. /\ server_total = written * SIZE
      /\ Len(stored[server_count]) = written
      /\ \A i \in 1..written : stored[server_count][i] = Own(server_count, i)
  BY <1>1 DEF DiskSound, WritingInStep
<1>4. /\ p.buf = <<p.file_num, p.seq>>
      /\ p.total_size = FileSize[p.file_num] /\ p.seq * SIZE < p.total_size
  BY <1>1 DEF DiskSound, PacketsTrue
<1>5. p.file_num \in File /\ p.seq \in Nat /\ p.total_size \in Nat /\ p.buf \in Chunk
  BY <1>1 DEF Packet
<1> QED BY <1>1, <1>2, <1>3, <1>4, <1>5, Multiples

\* The server goes to the next file, which it has not touched.
LEMMA NextFileDisk ==
  ASSUME DiskSound, NEW p, Serving(p), NextFile, ClientKept,
         \A f \in File : f # server_count => stored'[f] = stored[f]
  PROVE  WritingInStep'
<1>1. /\ server_count' = server_count + 1 /\ written' = 0 /\ server_total' = 0
      /\ server_count \in File /\ NFiles \in Nat /\ NFiles' = NFiles
  BY ServerFacts, ServerKeepsClient DEF NextFile
<1>2. server_total' = written' * SIZE
  BY <1>1, SizeAssumption
<1>3. ASSUME NEW f \in File, f > server_count PROVE stored'[f] = <<>>
  BY <1>1, <1>3 DEF DiskSound, WritingInStep
<1>4. PICK n : n = server_count + 1
  OBVIOUS
<1>5. n < NFiles => n \in File /\ n > server_count
  BY <1>1, <1>4
<1>6. n < NFiles => Len(stored'[n]) = 0 /\ written' = 0
  BY <1>1, <1>3, <1>5, EmptySeq
<1>7. \A f \in File : f > n => f > server_count
  BY <1>1, <1>4
<1>8. server_count' = n
  BY <1>1, <1>4
<1> QED BY <1>1, <1>2, <1>3, <1>6, <1>7, <1>8 DEF WritingInStep

LEMMA ReceiveEndDisk == ASSUME NEW p PROVE DiskSound /\ ReceiveEnd(p) => DiskSound'
<1> SUFFICES ASSUME DiskSound, ReceiveEnd(p) PROVE DiskSound'
  OBVIOUS
<1>1. /\ Serving(p) /\ NextFile /\ ClientKept /\ stored' = stored /\ acks' = acks
      /\ hand' = hand /\ hand = {} /\ due' \subseteq due
  BY Serves DEF ReceiveEnd, Receiving, ClientKept
<1>2. /\ WaitingForChunk' /\ ReadingInStep' /\ PacketsTrue'
      /\ NFiles' = NFiles
  BY <1>1, ServerKeepsClient
<1>3. WritingInStep'
  BY <1>1, NextFileDisk
<1>4. PICK n : n = server_count + 1
  OBVIOUS
<1>5. server_count' = n /\ n \in 0..NFiles /\ \A f \in File : f < server_count => f < n
  BY <1>1, <1>4, ServerFacts DEF NextFile
<1>6. OrderedPrefix' /\ OneInHand'
  BY <1>1, <1>2, <1>5 DEF DiskSound, OrderedPrefix, Own, OneInHand
<1>7. TypeOK'
  BY <1>1, <1>5, ServerFacts, ServerType DEF NextFile
<1> QED BY <1>2, <1>3, <1>6, <1>7 DEF DiskSound

\* A piece is appended to the file being written.
LEMMA PieceWritten ==
  ASSUME DiskSound, NEW p, Serving(p), NEW piece \in Piece,
         stored' = [stored EXCEPT ![server_count] = Append(stored[server_count], piece)]
  PROVE  /\ stored' \in [File -> Seq(Piece)]
         /\ Len(stored'[server_count]) = written + 1
         /\ \A i \in 1..written : stored'[server_count][i] = Own(server_count, i)
         /\ stored'[server_count][written + 1] = piece
         /\ \A f \in File : f # server_count => stored'[f] = stored[f]
<1>1. PICK f, old, new : f = server_count /\ old = stored[f] /\ new = Append(old, piece)
  OBVIOUS
<1>2. /\ f \in File /\ stored \in [File -> Seq(Piece)] /\ old \in Seq(Piece)
      /\ Len(old) = written /\ \A i \in 1..written : old[i] = Own(f, i)
  BY <1>1, ServerFacts
<1>3. /\ new \in Seq(Piece) /\ Len(new) = Len(old) + 1
      /\ \A j \in 1..Len(old) : new[j] = old[j]
      /\ new[Len(old) + 1] = piece
  BY <1>1, <1>2, PushProperties
<1>4. /\ stored' \in [File -> Seq(Piece)] /\ stored'[f] = new
      /\ \A g \in File : g # f => stored'[g] = stored[g]
  BY <1>1, <1>2, <1>3
<1> QED BY <1>1, <1>2, <1>3, <1>4

\* Whatever file the last chunk is of, it fits where it is written.
LEMMA LastPiece ==
  ASSUME DiskSound, NEW p, Serving(p), CompletesFile(p)
  PROVE  /\ p.total_size - server_total \in 1..SIZE-1
         /\ [buf |-> p.buf, bytes |-> p.total_size - server_total] \in Piece
         /\ p.buf[2] = written
<1>1. /\ p.seq = written /\ server_total + SIZE > p.total_size /\ p.seq * SIZE < p.total_size
      /\ server_total = written * SIZE /\ server_total \in Nat
      /\ p.total_size \in Nat /\ p.buf = <<p.file_num, p.seq>> /\ p.buf \in Chunk
  BY ServerFacts DEF CompletesFile
<1>2. p.total_size - server_total \in 1..SIZE-1
  BY <1>1, SizeAssumption
<1>3. p.total_size - server_total \in Nat
  BY <1>2
<1> QED BY <1>1, <1>2, <1>3 DEF Piece

LEMMA ReceiveLastDisk == ASSUME NEW p PROVE DiskSound /\ ReceiveLast(p) => DiskSound'
<1> SUFFICES ASSUME DiskSound, ReceiveLast(p) PROVE DiskSound'
  OBVIOUS
<1>1. /\ Serving(p) /\ CompletesFile(p) /\ NextFile /\ ClientKept /\ acks' = acks
      /\ hand' = hand /\ hand = {} /\ due' \subseteq due
  BY Serves DEF ReceiveLast, Receiving, ClientKept
<1>2. /\ WaitingForChunk' /\ ReadingInStep' /\ PacketsTrue'
      /\ NFiles' = NFiles
  BY <1>1, ServerKeepsClient
<1>3. PICK piece, n : piece = [buf |-> p.buf, bytes |-> p.total_size - server_total] /\ n = server_count + 1
  OBVIOUS
<1>4. piece \in Piece /\ piece.buf[2] = written /\ piece.bytes \in 1..SIZE-1
  BY <1>1, <1>3, LastPiece
<1>5. stored' = [stored EXCEPT ![server_count] = Append(stored[server_count], piece)]
  BY <1>3 DEF ReceiveLast, WriteLast
<1>6. /\ stored' \in [File -> Seq(Piece)]
      /\ Len(stored'[server_count]) = written + 1
      /\ \A i \in 1..written : stored'[server_count][i] = Own(server_count, i)
      /\ stored'[server_count][written + 1] = piece
      /\ \A f \in File : f # server_count => stored'[f] = stored[f]
  BY <1>1, <1>4, <1>5, PieceWritten
<1>7. /\ server_count' = n /\ n \in 0..NFiles /\ server_count \in File /\ written \in Nat
      /\ server_count < n /\ \A f \in File : f < server_count => f < n
      /\ (written + 1) - 1 = written
  <2>1. /\ server_count \in File /\ server_count + 1 \in 0..NFiles /\ NFiles \in Nat
        /\ written \in Nat
    BY <1>1, ServerFacts
  <2>2. server_count' = n
    BY <1>1, <1>3 DEF NextFile
  <2>3. /\ n \in 0..NFiles /\ server_count < n /\ \A f \in File : f < server_count => f < n
        /\ (written + 1) - 1 = written
    BY <1>3, <2>1
  <2> QED BY <2>1, <2>2, <2>3
<1>8. OrderedPrefix'
  <2> SUFFICES ASSUME NEW f \in File, NEW i \in 1..Len(stored'[f])
               PROVE  \/ stored'[f][i] = Own(f, i)
                      \/ /\ i = Len(stored'[f]) /\ f < n
                         /\ stored'[f][i].buf[2] = i-1
                         /\ stored'[f][i].bytes \in 1..SIZE-1
    BY <1>2, <1>7 DEF OrderedPrefix, Own
  <2>1. CASE f # server_count
    BY <1>6, <1>7, <2>1 DEF DiskSound, OrderedPrefix
  <2>2. CASE f = server_count /\ i \in 1..written
    BY <1>6, <2>2
  <2>3. CASE f = server_count /\ i = written + 1
    BY <1>4, <1>6, <1>7, <2>3
  <2> QED BY <1>6, <1>7, <2>1, <2>2, <2>3
<1>9. WritingInStep' /\ OneInHand'
  BY <1>1, <1>6, NextFileDisk DEF OneInHand
<1>10. TypeOK'
  BY <1>1, <1>6, <1>7, ServerFacts, ServerType DEF NextFile
<1> QED BY <1>2, <1>8, <1>9, <1>10 DEF DiskSound

\* An acknowledgement touches no file.
LEMMA AcknowledgeDisk == ASSUME NEW p PROVE DiskSound /\ Acknowledge(p) => DiskSound'
<1> SUFFICES ASSUME DiskSound, Acknowledge(p) PROVE DiskSound'
  OBVIOUS
<1>1. /\ Serving(p) /\ ClientKept /\ server_count' = server_count
      /\ stored' = stored /\ written' = written /\ server_total' = server_total
      /\ acks' = acks \union {p.seq} /\ hand' = {p} /\ due' \subseteq due
  BY Serves DEF Acknowledge, Receiving, ClientKept
<1>2. /\ WaitingForChunk' /\ ReadingInStep' /\ PacketsTrue'
      /\ NFiles' = NFiles
  BY <1>1, ServerKeepsClient
<1>3. acks' \subseteq Nat /\ server_count' \in 0..NFiles /\ hand' \subseteq packets
  BY <1>1, ServerFacts DEF Serving
<1>4. OrderedPrefix' /\ WritingInStep' /\ OneInHand'
  BY <1>1, <1>2 DEF DiskSound, OrderedPrefix, WritingInStep, Own, OneInHand, Serving, ClientKept
<1>5. TypeOK'
  BY <1>1, <1>3, ServerFacts, ServerType
<1> QED BY <1>2, <1>4, <1>5 DEF DiskSound

\* The packet in hand is written where it belongs.
LEMMA WriteDisk == ASSUME NEW p PROVE DiskSound /\ Write(p) => DiskSound'
<1> SUFFICES ASSUME DiskSound, Write(p) PROVE DiskSound'
  OBVIOUS
<1>1. /\ Serving(p) /\ ClientKept /\ server_count' = server_count
      /\ acks' = acks /\ hand' = {} /\ due' \subseteq due
  BY Serves DEF Write, ClientKept
<1>2. /\ WaitingForChunk' /\ ReadingInStep' /\ PacketsTrue' /\ OneInHand'
      /\ NFiles' = NFiles
  BY <1>1, ServerKeepsClient DEF OneInHand
<1>3. acks' \subseteq Nat /\ server_count' \in 0..NFiles
  BY <1>1, ServerFacts
<1>4. CASE ~IsWanted(p)
  <2>1. stored' = stored /\ written' = written /\ server_total' = server_total
    BY <1>4 DEF Write
  <2>2. OrderedPrefix' /\ WritingInStep'
    BY <1>1, <1>2, <2>1 DEF DiskSound, OrderedPrefix, WritingInStep, Own
  <2>3. TypeOK'
    BY <1>1, <1>3, <2>1, ServerFacts, ServerType
  <2> QED BY <1>2, <2>2, <2>3 DEF DiskSound
<1>5. CASE IsWanted(p)
  <2>1. PICK piece, w : piece = [buf |-> p.buf, bytes |-> SIZE] /\ w = written + 1
    OBVIOUS
  <2>2. /\ stored' = [stored EXCEPT ![server_count] = Append(stored[server_count], piece)]
        /\ written' = w /\ server_total' = server_total + SIZE
    BY <1>5, <2>1 DEF Write
  <2>3. /\ piece \in Piece /\ piece = Own(server_count, w)
        /\ w \in Nat /\ w > written /\ server_total' = w * SIZE /\ server_total' \in Nat
        /\ \A i \in 1..w : i \in 1..written \/ i = w
    <3>1. /\ SIZE \in Nat /\ p.buf \in Chunk /\ p.buf = <<server_count, written>>
          /\ written \in Nat /\ w - 1 = written
      <4>1. p.buf \in Chunk /\ p.buf = <<p.file_num, p.seq>> /\ written \in Nat
        BY <1>1, ServerFacts
      <4>2. p.file_num = server_count /\ p.seq = written
        BY <1>5 DEF IsWanted
      <4>3. w - 1 = written
        BY <2>1, <4>1
      <4> QED BY <4>1, <4>2, <4>3, SizeAssumption
    <3>2. piece \in Piece
      BY <2>1, <3>1 DEF Piece
    <3>3. piece = Own(server_count, w)
      BY <2>1, <3>1 DEF Own
    <3>4. server_total' = w * SIZE /\ server_total' \in Nat
      BY <1>1, <2>1, <2>2, <3>1, ServerFacts
    <3> QED BY <2>1, <3>1, <3>2, <3>3, <3>4
  <2>4. /\ stored' \in [File -> Seq(Piece)]
        /\ Len(stored'[server_count]) = w
        /\ \A i \in 1..w : stored'[server_count][i] = Own(server_count, i)
        /\ \A f \in File : f # server_count => stored'[f] = stored[f]
    BY <1>1, <2>1, <2>2, <2>3, PieceWritten
  <2>5. OrderedPrefix'
    <3> SUFFICES ASSUME NEW f \in File, NEW i \in 1..Len(stored'[f])
                 PROVE  \/ stored'[f][i] = Own(f, i)
                        \/ /\ i = Len(stored'[f]) /\ f < server_count
                           /\ stored'[f][i].buf[2] = i-1
                           /\ stored'[f][i].bytes \in 1..SIZE-1
      BY <1>1, <1>2 DEF OrderedPrefix, Own
    <3>1. CASE f # server_count
      BY <2>4, <3>1 DEF DiskSound, OrderedPrefix
    <3>2. CASE f = server_count
      BY <2>4, <3>2
    <3> QED BY <3>1, <3>2
  <2>6. WritingInStep'
    <3>1. \A f \in File : f > server_count => f # server_count /\ stored[f] = <<>>
      BY <1>1, ServerFacts DEF DiskSound, WritingInStep
    <3> QED BY <1>1, <1>2, <2>2, <2>3, <2>4, <3>1 DEF WritingInStep, Own
  <2>7. TypeOK'
    BY <1>1, <1>3, <2>2, <2>3, <2>4, ServerType
  <2> QED BY <1>2, <2>5, <2>6, <2>7 DEF DiskSound
<1> QED BY <1>4, <1>5

LEMMA NextDisk == DiskSound /\ [Next]_vars => DiskSound'
<1> SUFFICES ASSUME DiskSound, [Next]_vars PROVE DiskSound'
  OBVIOUS
<1>1. CASE UNCHANGED vars
  <2>1. DiskKept /\ ClientKept /\ acks' = acks /\ server' = server /\ hand' = hand /\ due' = due
    BY <1>1 DEF vars, DiskKept, ClientKept, client, server
  <2>2. /\ OrderedPrefix' /\ WritingInStep' /\ WaitingForChunk' /\ ReadingInStep' /\ PacketsTrue'
        /\ OneInHand'
    BY <2>1, ClientKeepsDisk, ServerKeepsClient DEF DiskSound, OneInHand, ClientKept, server
  <2>3. /\ server_count' \in 0..NFiles /\ written' \in Nat /\ server_total' \in Nat
        /\ stored' \in [File -> Seq(Piece)] /\ acks' \subseteq Nat /\ hand' \subseteq packets
    BY <2>1 DEF server, DiskSound, TypeOK
  <2> QED BY <2>1, <2>2, <2>3, ServerType DEF DiskSound
<1>2. CASE SendChunk
  BY <1>2, SendDisk DEF SendChunk, DiskKept
<1>3. CASE SendLast
  BY <1>3, SendDisk DEF SendLast, DiskKept
<1>4. CASE EndOfFile
  BY <1>4, EndOfFileDisk
<1>5. ASSUME NEW ack \in acks, ReceiveAck(ack) PROVE DiskSound'
  BY <1>5, ReceiveAckDisk
<1>6. CASE do_send
  BY <1>6, ResendDisk
<1>7. ASSUME NEW p \in packets, Receive(p) \/ Write(p) PROVE DiskSound'
  BY <1>7, ReceiveEndDisk, ReceiveLastDisk, AcknowledgeDisk, WriteDisk DEF Receive
<1> QED BY <1>1, <1>2, <1>3, <1>4, <1>5, <1>6, <1>7 DEF Next, Client, Server

\* For any files, chunk size and number of resends, and whatever the network loses,
\* repeats, delays and reorders, a file on the disk is a run of whole chunks of its
\* own, in order and without a gap, ended at most by one short piece.
THEOREM DiskAlwaysSound == Spec => []DiskSound
BY InitDisk, NextDisk, PTL DEF Spec

-----------------------------------------------------------------------------
\* One file: the client, the packets, the acknowledgements and the disk.

LEMMA SourceLength ==
  ASSUME DiskSound, NEW f \in File
  PROVE  /\ Len(Source(f)) = (FileSize[f] + SIZE - 1) \div SIZE
         /\ Len(Source(f)) \in Nat /\ FileSize[f] \in Nat
<1> DEFINE n == (FileSize[f] + SIZE - 1) \div SIZE
           S == {Source(f)[i] : i \in 1..n}
<1>1. FileSize[f] \in Nat
  BY ClientFacts
<1>2. n \in Nat
  BY <1>1, SizeAssumption
<1> HIDE DEF n
<1>3. Source(f) \in [1..n -> S]
  BY DEF Source, n
<1> HIDE DEF S
<1>4. Source(f) \in Seq(S)
  BY <1>2, <1>3, SeqDef
<1>5. Len(Source(f)) = n
  BY <1>2, <1>3, <1>4, LenProperties
<1> QED BY <1>1, <1>2, <1>5 DEF n

LEMMA InitAhead == Init => NeverAhead
<1> SUFFICES ASSUME Init, NFiles = 1 PROVE NeverAhead
  BY DEF NeverAhead
<1>1. 0 \in File /\ stored[0] = <<>> /\ Len(<<>>) = 0
  BY EmptySeq DEF Init
<1>2. InHand = 0
  BY <1>1 DEF Init, InHand
<1> QED BY <1>2 DEF Init, NeverAhead

\* The client changes nothing of what the server has, which is a number of chunks.
LEMMA HandKept == DiskKept => InHand' = InHand
BY DEF DiskKept, server, InHand, IsWanted

LEMMA HandCounts ==
  ASSUME DiskSound, NFiles = 1
  PROVE  InHand \in Nat /\ Len(stored[0]) \in Nat
<1>1. 0 \in File
  OBVIOUS
<1>2. Len(stored[0]) \in Nat
  BY <1>1, LenProperties DEF DiskSound, TypeOK
<1> QED BY <1>2 DEF InHand

\* A chunk sent, for the first time or again, is the next one at most.
LEMMA SendAhead ==
  ASSUME NeverAhead, DiskKept, UNCHANGED <<count, seq, acks>>,
         count = 0 \/ NFiles # 1,
         NEW content, Send(content)
  PROVE  NeverAhead'
<1> SUFFICES ASSUME NFiles' = 1 PROVE NeverAhead'
  BY DEF NeverAhead
<1>1. NFiles = 1 /\ FileSize' = FileSize /\ InHand' = InHand
  BY JobKept, HandKept DEF DiskKept
<1>2. seq <= InHand
  BY <1>1 DEF NeverAhead
<1>3. \A p \in packets' : p.seq <= InHand
  BY <1>1, <1>2 DEF NeverAhead, Send
<1> QED BY <1>1, <1>3 DEF NeverAhead, Source

LEMMA ClientAhead == DiskSound /\ NeverAhead /\ Client => NeverAhead'
<1> SUFFICES ASSUME DiskSound, NeverAhead, Client PROVE NeverAhead'
  OBVIOUS
<1>1. count < NFiles => count = 0 \/ NFiles # 1
  BY ClientFacts
<1>2. CASE SendChunk
  BY <1>1, <1>2, SendAhead DEF SendChunk, Sending, ReadAndSend, DiskKept
<1>3. CASE SendLast
  BY <1>1, <1>3, SendAhead DEF SendLast, Sending, ReadAndSend, DiskKept
<1>4. CASE do_send
  <2>1. count < NFiles
    BY <1>4 DEF do_send, AlarmSet, DiskSound, WaitingForChunk
  <2> QED BY <1>1, <1>4, <2>1, SendAhead DEF do_send, DiskKept
<1>5. CASE EndOfFile
  <2> SUFFICES ASSUME NFiles' = 1 PROVE NeverAhead'
    BY DEF NeverAhead
  <2>1. /\ NFiles = 1 /\ FileSize' = FileSize /\ InHand' = InHand
        /\ packets' = packets /\ acks' = acks /\ count' = count + 1
    BY <1>5, JobKept, HandKept DEF EndOfFile, DiskKept
  <2>2. count = 0 /\ 0 \in File /\ seq \in Nat /\ FileSize[0] \in Nat /\ total >= FileSize[0]
    BY <1>1, <1>5, <2>1, ClientFacts DEF EndOfFile, Sending
  <2>3. PICK size, long, k : size = FileSize[0] /\ long = InHand /\ k = seq + 1
    OBVIOUS
  <2>4. long \in Nat /\ seq <= long
    BY <2>1, <2>2, <2>3, HandCounts DEF NeverAhead
  <2>5. size <= k * SIZE
    <3>1. \/ total = seq * SIZE /\ (seq = 0 \/ total < FileSize[count])
          \/ total = (seq + 1) * SIZE
      BY <1>5 DEF DiskSound, ReadingInStep, EndOfFile, Sending
    <3>2. total \in Nat /\ size \in Nat /\ total >= size
      BY <2>2, <2>3 DEF DiskSound, TypeOK
    <3>3. total = k * SIZE \/ (total = seq * SIZE /\ seq = 0)
      BY <2>2, <2>3, <3>1, <3>2
    <3>4. CASE total = k * SIZE
      BY <3>2, <3>4
    <3>5. CASE total = seq * SIZE /\ seq = 0
      <4>1. total = 0 /\ size = 0 /\ k = 1
        BY <2>3, <3>2, <3>5, SizeAssumption
      <4> QED BY <4>1, SizeAssumption
    <3> QED BY <3>3, <3>4, <3>5
  <2>6. Len(Source(0)) <= k /\ Len(Source(0)) \in Nat
    BY <2>2, <2>3, <2>5, SourceLength, LastChunk
  <2>7. Len(Source(0)) - 1 <= long
    BY <2>2, <2>3, <2>4, <2>6
  <2>8. count' # 0
    BY <2>1, <2>2
  <2> QED BY <2>1, <2>3, <2>7, <2>8 DEF NeverAhead, Source
<1>6. ASSUME NEW ack \in acks, ReceiveAck(ack) PROVE NeverAhead'
  <2> SUFFICES ASSUME NFiles' = 1 PROVE NeverAhead'
    BY DEF NeverAhead
  <2>1. /\ NFiles = 1 /\ FileSize' = FileSize /\ InHand' = InHand
        /\ packets' = packets /\ acks' = acks /\ count' = count /\ seq' = seq + 1
        /\ ack = seq
    BY <1>6, JobKept, HandKept DEF ReceiveAck, DiskKept, IsAwaited
  <2>2. count = 0 /\ 0 \in File /\ seq \in Nat
    BY <1>1, <1>6, <2>1, ClientFacts DEF ReceiveAck, DiskSound, WaitingForChunk
  <2>3. PICK long : long = InHand
    OBVIOUS
  <2>4. long \in Nat /\ seq < long
    BY <2>1, <2>2, <2>3, HandCounts DEF NeverAhead
  <2>5. seq' <= long
    BY <2>1, <2>2, <2>4
  <2> QED BY <2>1, <2>2, <2>3, <2>5 DEF NeverAhead, Source
<1> QED BY <1>2, <1>3, <1>4, <1>5, <1>6 DEF Client

\* What the server has grows, and the acknowledgements sent are for what it has.
LEMMA DiskGrows ==
  ASSUME DiskSound, NeverAhead, ClientKept, NFiles = 1,
         NEW long \in Nat, InHand' = long, InHand <= long,
         \A ack \in acks' : ack \in acks \/ ack < long
  PROVE  NeverAhead'
<1>1. /\ NFiles' = 1 /\ FileSize' = FileSize /\ 0 \in File
      /\ packets' = packets /\ count' = count /\ seq' = seq
  BY JobKept DEF ClientKept, client
<1>2. PICK old : old = InHand
  OBVIOUS
<1>3. /\ old \in Nat /\ seq \in Nat /\ acks \subseteq Nat /\ Len(Source(0)) \in Nat
      /\ \A p \in packets : p.seq \in Nat
  <2>1. old \in Nat
    BY <1>2, HandCounts
  <2>2. \A p \in packets : p.seq \in Nat
    BY DEF DiskSound, TypeOK, Packet
  <2> QED BY <1>1, <2>1, <2>2, SourceLength DEF DiskSound, TypeOK
<1>4. PICK last : last = Len(Source(0))
  OBVIOUS
<1>5. Len(Source(0))' = last
  BY <1>1, <1>4 DEF Source
<1>6. /\ count = 0 => seq <= old
      /\ count = 1 => last - 1 <= old
      /\ \A p \in packets : p.seq <= old
      /\ \A ack \in acks : ack < old
  BY <1>2, <1>4 DEF NeverAhead
<1>7. /\ count = 0 => seq <= long
      /\ count = 1 => last - 1 <= long
      /\ \A p \in packets : p.seq <= long
      /\ \A ack \in acks' : ack < long
  <2>1. old <= long
    BY <1>2
  <2>2. \A ack \in acks : ack \in Nat /\ ack < old
    BY <1>3, <1>6
  <2>3. \A ack \in acks : ack < long
    BY <1>3, <2>1, <2>2
  <2>4. \A ack \in acks' : ack < long
    BY <2>3
  <2>5. \A p \in packets : p.seq <= long
    BY <1>3, <1>6, <2>1
  <2>6. (count = 0 => seq <= long) /\ (count = 1 => last - 1 <= long)
    BY <1>3, <1>4, <1>6, <2>1
  <2> QED BY <2>4, <2>5, <2>6
<1> QED BY <1>1, <1>5, <1>7 DEF NeverAhead

LEMMA ServerAhead ==
  ASSUME NEW p \in packets
  PROVE  DiskSound /\ NeverAhead /\ (Receive(p) \/ Write(p)) => NeverAhead'
<1> SUFFICES ASSUME DiskSound, NeverAhead, Receive(p) \/ Write(p), NFiles = 1
             PROVE  NeverAhead'
  BY JobKept DEF NeverAhead, Receive, ReceiveEnd, ReceiveLast, Acknowledge, Write
<1>1. Serving(p) /\ ClientKept
  BY Serves DEF Receive, ReceiveEnd, ReceiveLast, Acknowledge, Write, Receiving, ClientKept
<1>2. /\ server_count \in File /\ written \in Nat /\ Len(stored[server_count]) = written
      /\ p.seq \in Nat /\ p.file_num \in File
  BY <1>1, ServerFacts
<1>3. /\ server_count = 0 /\ p.file_num = 0 /\ Len(stored[0]) = written
  BY <1>2
<1>4. PICK more : more = written + 1
  OBVIOUS
<1>5. InHand = IF \E q \in hand : IsWanted(q) THEN more ELSE written
  BY <1>3, <1>4 DEF InHand
<1>6. more \in Nat /\ written < more
  BY <1>2, <1>4
<1>7. CASE ReceiveEnd(p)
  <2>1. Len(stored'[0]) = written /\ acks' = acks /\ hand = {} /\ hand' = {}
    BY <1>2, <1>3, <1>7 DEF ReceiveEnd, Receiving
  <2>2. InHand = written /\ InHand' = written
    BY <1>3, <1>5, <2>1 DEF InHand
  <2>3. InHand <= written
    BY <1>2, <2>2
  <2> QED BY <1>1, <1>2, <2>1, <2>2, <2>3, DiskGrows
<1>8. CASE ReceiveLast(p)
  <2>1. PICK piece : piece = [buf |-> p.buf, bytes |-> p.total_size - server_total]
    OBVIOUS
  <2>2. piece \in Piece
    BY <1>1, <1>8, <2>1, LastPiece DEF ReceiveLast
  <2>3. stored' = [stored EXCEPT ![server_count] = Append(stored[server_count], piece)]
    BY <1>8, <2>1 DEF ReceiveLast, WriteLast
  <2>4. Len(stored'[0]) = more
    BY <1>1, <1>3, <1>4, <2>2, <2>3, PieceWritten
  <2>5. hand = {} /\ hand' = {} /\ acks' = acks
    BY <1>8 DEF ReceiveLast, Receiving
  <2>6. InHand = written /\ InHand' = more
    BY <1>5, <2>4, <2>5 DEF InHand
  <2>7. InHand <= more
    BY <1>2, <1>6, <2>6
  <2> QED BY <1>1, <1>6, <2>5, <2>6, <2>7, DiskGrows
<1>9. CASE Acknowledge(p)
  <2>1. /\ stored' = stored /\ written' = written /\ server_count' = server_count
        /\ hand = {} /\ hand' = {p} /\ acks' = acks \union {p.seq}
    BY <1>9 DEF Acknowledge, Receiving
  <2>2. InHand = written
    BY <1>5, <2>1
  <2>3. p.seq <= written
    BY <1>1, <2>2 DEF NeverAhead, Serving
  <2>4. InHand' = IF IsWanted(p) THEN more ELSE written
    BY <1>3, <1>4, <2>1 DEF InHand, IsWanted
  <2>5. CASE IsWanted(p)
    <3>1. InHand' = more /\ InHand <= more
      BY <1>2, <1>4, <1>6, <2>2, <2>4, <2>5
    <3>2. \A ack \in acks' : ack \in acks \/ ack < more
      BY <1>2, <1>6, <2>1, <2>3
    <3> QED BY <1>1, <1>6, <3>1, <3>2, DiskGrows
  <2>6. CASE ~IsWanted(p)
    <3>1. InHand' = written /\ InHand <= written
      BY <1>2, <2>2, <2>4, <2>6
    <3>2. p.seq < written
      BY <1>2, <1>3, <2>3, <2>6 DEF IsWanted
    <3>3. \A ack \in acks' : ack \in acks \/ ack < written
      BY <2>1, <3>2
    <3> QED BY <1>1, <1>2, <3>1, <3>3, DiskGrows
  <2> QED BY <2>5, <2>6
<1>10. CASE Write(p)
  <2>1. hand' = {} /\ acks' = acks /\ hand = {p}
    BY <1>10 DEF Write, DiskSound, OneInHand
  <2>2. InHand' = Len(stored'[0])
    BY <2>1 DEF InHand
  <2>3. CASE IsWanted(p)
    <3>1. PICK piece : piece = [buf |-> p.buf, bytes |-> SIZE]
      OBVIOUS
    <3>2. piece \in Piece
      BY <1>1, <3>1, ServerFacts, SizeAssumption DEF Piece
    <3>3. stored' = [stored EXCEPT ![server_count] = Append(stored[server_count], piece)]
      BY <1>10, <2>3, <3>1 DEF Write
    <3>4. Len(stored'[0]) = more
      BY <1>1, <1>3, <1>4, <3>2, <3>3, PieceWritten
    <3>5. InHand = more /\ InHand' = more /\ InHand <= more
      BY <1>5, <1>6, <2>1, <2>2, <2>3, <3>4
    <3> QED BY <1>1, <1>6, <2>1, <3>5, DiskGrows
  <2>4. CASE ~IsWanted(p)
    <3>1. stored' = stored
      BY <1>10, <2>4 DEF Write
    <3>2. InHand = written /\ InHand' = written /\ InHand <= written
      BY <1>2, <1>3, <1>5, <2>1, <2>2, <2>4, <3>1
    <3> QED BY <1>1, <1>2, <2>1, <3>2, DiskGrows
  <2> QED BY <2>3, <2>4
<1> QED BY <1>7, <1>8, <1>9, <1>10 DEF Receive

LEMMA NextAhead == DiskSound /\ NeverAhead /\ [Next]_vars => NeverAhead'
<1>1. NeverAhead /\ UNCHANGED vars => NeverAhead'
  BY JobKept DEF vars, client, server, NeverAhead, Source, InHand, IsWanted
<1> QED BY <1>1, ClientAhead, ServerAhead DEF Next, Server

\* Stop and wait works with one file: whatever the network does, nobody runs ahead of
\* what the server has given fwrite or is about to.
THEOREM NobodyRunsAhead == Spec => []NeverAhead
BY InitAhead, NextAhead, DiskAlwaysSound, PTL DEF Spec

-----------------------------------------------------------------------------
\* The one file, once it is finished, is the file that was sent.

LEMMA LastIsSource ==
  ASSUME DiskSound, NFiles = 1, NEW p \in packets, ReceiveLast(p)
  PROVE  stored'[0] = Source(0)
<1>1. Serving(p) /\ CompletesFile(p)
  BY DEF ReceiveLast, Receiving, Serving
<1>2. /\ server_count \in File /\ written \in Nat /\ p.file_num \in File
      /\ p.buf = <<p.file_num, p.seq>> /\ p.total_size = FileSize[p.file_num]
      /\ server_total = written * SIZE /\ p.seq * SIZE < p.total_size
      /\ p.total_size \in Nat
  BY <1>1, ServerFacts
<1>3. /\ server_count = 0 /\ p.file_num = 0 /\ 0 \in File
      /\ p.seq = written /\ server_total + SIZE > p.total_size
  BY <1>1, <1>2 DEF CompletesFile
<1>4. PICK size, w : size = FileSize[0] /\ w = written
  OBVIOUS
<1>5. /\ size \in Nat /\ w \in Nat /\ SIZE \in Nat
      /\ w * SIZE < size /\ size < w * SIZE + SIZE /\ w * SIZE \in Nat
      /\ server_total = w * SIZE /\ p.total_size = size
  <2>1. w * SIZE \in Nat /\ SIZE \in Nat
    BY <1>2, <1>4, SizeAssumption
  <2> QED BY <1>2, <1>3, <1>4, <2>1
<1>6. PICK piece : piece = [buf |-> <<0, w>>, bytes |-> size - w * SIZE]
  OBVIOUS
<1>7. piece = [buf |-> p.buf, bytes |-> p.total_size - server_total]
  BY <1>2, <1>3, <1>4, <1>5, <1>6
<1>8. piece \in Piece
  BY <1>1, <1>7, LastPiece
<1>9. stored' = [stored EXCEPT ![server_count] = Append(stored[server_count], piece)]
  BY <1>7 DEF ReceiveLast, WriteLast
<1>10. PICK new : new = stored'[0]
  OBVIOUS
<1>11. /\ new \in Seq(Piece) /\ Len(new) = w + 1
       /\ \A i \in 1..w : new[i] = Own(0, i)
       /\ new[w + 1] = piece
  BY <1>1, <1>3, <1>4, <1>8, <1>9, <1>10, PieceWritten
<1>12. (size + SIZE - 1) \div SIZE = w + 1
  BY <1>5, LastChunk
<1>13. Source(0) = [i \in 1..w+1 |->
                      [buf   |-> <<0, i-1>>,
                       bytes |-> IF i * SIZE <= size THEN SIZE ELSE size - (i-1) * SIZE]]
  BY <1>4, <1>12 DEF Source
<1>14. ASSUME NEW i \in 1..w+1 PROVE new[i] = Source(0)[i]
  <2>1. CASE i \in 1..w
    <3>1. i * SIZE <= w * SIZE
      BY <1>5, <2>1
    <3>2. i * SIZE <= size
      <4>1. i * SIZE \in Nat
        BY <1>5, <2>1
      <4> QED BY <1>5, <3>1, <4>1
    <3>3. Source(0)[i] = [buf |-> <<0, i-1>>, bytes |-> SIZE]
      BY <1>13, <3>2
    <3> QED BY <1>11, <2>1, <3>3 DEF Own
  <2>2. CASE i = w + 1
    <3>1. (w + 1) * SIZE = w * SIZE + SIZE /\ (w + 1) - 1 = w
      BY <1>5, Multiples
    <3>2. ~(i * SIZE <= size)
      BY <1>5, <2>2, <3>1
    <3>3. Source(0)[i] = [buf |-> <<0, i-1>>, bytes |-> size - (i-1) * SIZE]
      BY <1>13, <3>2
    <3> QED BY <1>6, <1>11, <2>2, <3>1, <3>3
  <2> QED BY <1>5, <2>1, <2>2
<1>15. new = [i \in 1..w+1 |-> new[i]]
  BY <1>11, LenProperties
<1>16. Source(0) = [i \in 1..w+1 |-> Source(0)[i]]
  BY <1>13
<1> QED BY <1>10, <1>14, <1>15, <1>16

LEMMA InitFinished == Init => OneFileIsSource
BY DEF Init, OneFileIsSource, FinishedIsSource

LEMMA NextFinished == DiskSound /\ OneFileIsSource /\ [Next]_vars => OneFileIsSource'
<1> SUFFICES ASSUME DiskSound, OneFileIsSource, [Next]_vars,
                    NFiles' = 1, EndChunks' = {}
             PROVE  FinishedIsSource'
  BY DEF OneFileIsSource
<1>1. job' = job
  BY DEF Next, Client, Server, vars, SendChunk, SendLast, EndOfFile, ReceiveAck, do_send,
         Receive, ReceiveEnd, ReceiveLast, Acknowledge, Write
<1>2. NFiles = 1 /\ EndChunks = {} /\ FileSize' = FileSize /\ FinishedIsSource
  BY <1>1, JobKept DEF OneFileIsSource
<1>3. CASE UNCHANGED server
  BY <1>2, <1>3 DEF server, FinishedIsSource, Source
<1>4. ASSUME NEW p \in packets, ReceiveEnd(p) PROVE FALSE
  BY <1>2, <1>4 DEF ReceiveEnd, IsEnd
<1>5. ASSUME NEW p \in packets, ReceiveLast(p) PROVE FinishedIsSource'
  <2>1. server_count \in File
    BY <1>5, Serves, ServerFacts DEF ReceiveLast
  <2>2. server_count' = 1
    BY <1>2, <1>5, <2>1 DEF ReceiveLast, NextFile
  <2>3. stored'[0] = Source(0)
    BY <1>2, <1>5, LastIsSource
  <2> QED BY <1>2, <2>2, <2>3 DEF FinishedIsSource, Source
<1>6. ASSUME NEW p \in packets, Acknowledge(p) \/ Write(p) PROVE FinishedIsSource'
  <2>1. server_count \in File /\ server_count' = server_count
    BY <1>6, Serves, ServerFacts DEF Acknowledge, Write
  <2>2. server_count' = 0
    BY <1>2, <2>1
  <2> QED BY <2>2 DEF FinishedIsSource
<1>7. Client => UNCHANGED server
  BY DEF Client, SendChunk, SendLast, EndOfFile, ReceiveAck, do_send
<1>8. UNCHANGED vars => UNCHANGED server
  BY DEF vars
<1> QED BY <1>3, <1>4, <1>5, <1>6, <1>7, <1>8 DEF Next, Server, Receive

\* A server sent one file, none of whose chunks reads "END", finishes it only as a copy
\* of the source file, byte for byte, whatever the network does.
THEOREM OneFileArrives == Spec => []OneFileIsSource
BY InitFinished, NextFinished, DiskAlwaysSound, PTL DEF Spec
=============================================================================
