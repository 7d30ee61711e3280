------------------------------- MODULE Segments -------------------------------
(***************************************************************************)
(* How the clients of lab3 and lab4 read from a TCP connection: a text of  *)
(* the peer comes in segments cut anywhere; each read overwrites buffer    *)
(* from its start, and buffer[n] = '\0' ends it there.                     *)
(***************************************************************************)
EXTENDS Integers, Sequences, FiniteSets

CONSTANT BufSize      \* sizeof(buffer)

ASSUME BufferAssumption == BufSize \in Nat \ {0}

VARIABLES
  stream,             \* external: what has been sent and not yet read
  buffer              \* with the byte after it, where buffer[BufSize] would be

NUL == 0

\* Mutant: what is behind the segment stays as it was.
Unterminated(mem, seg) == [k \in 1..BufSize+1 |-> IF k <= Len(seg) THEN seg[k] ELSE mem[k]]
Filled(mem, seg) == [k \in 1..BufSize+1 |-> IF k <= Len(seg) THEN seg[k]
                                       ELSE IF k = Len(seg) + 1 THEN NUL ELSE mem[k]]

\* read(sockfd, buffer, sizeof(buffer)), with the segment it returns.
Read(seg) ==
  /\ stream # <<>>
  /\ \E n \in 1..Len(stream) : n <= BufSize /\ seg = SubSeq(stream, 1, n)
  /\ stream' = SubSeq(stream, Len(seg) + 1, Len(stream))
  /\ buffer' = Filled(buffer, seg)

\* The segments read may return.
Segment == {SubSeq(stream, 1, n) : n \in 1..Len(stream)}

SegmentsInit(text) == stream = text /\ buffer = [k \in 1..BufSize+1 |-> NUL]

\* The string in mem, and strstr in a string: the places where word begins.
CString(mem) ==
  SubSeq(mem, 1, (CHOOSE k \in 1..BufSize+1 :
                    mem[k] = NUL /\ \A l \in 1..k-1 : mem[l] # NUL) - 1)
Places(s, word) == {k \in 1..Len(s)-Len(word)+1 : SubSeq(s, k, k + Len(word) - 1) = word}
Has(s, word)    == Places(s, word) # {}
\* From its first occurrence on.
From(s, word)   == SubSeq(s, CHOOSE k \in Places(s, word) : \A l \in Places(s, word) : k <= l, Len(s))

-----------------------------------------------------------------------------
\* s is what is left of a text.
RestOf(s, text) ==
  /\ Len(s) <= Len(text)
  /\ \A k \in 1..Len(s) : s[k] = text[Len(text) - Len(s) + k]
=============================================================================
