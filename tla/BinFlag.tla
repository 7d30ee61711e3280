-------------------------------- MODULE BinFlag --------------------------------
(***************************************************************************)
(* lab2/all.c: the challenge file has the blocks of some data in any       *)
(* order, damaged ones among them.  Those whose checksum is right are      *)
(* sorted by offset and put together; the flag is the bytes at given       *)
(* offsets of the result.  Bytes are 0 and 1, so XOR is the sum modulo 2.  *)
(***************************************************************************)
EXTENDS Integers, Sequences, FiniteSets

CONSTANTS
  MaxSize,          \* of the data
  Half,             \* 2^31: an offset is one of 2 * Half values, half of them negative as int
  Shortest,         \* the least payload length (1 KB in the challenge)
  Damages,          \* the most damaged blocks in a file
  Flags             \* the most offsets the flag has

ASSUME BoundAssumption ==
  /\ {MaxSize, Half, Damages, Flags} \subseteq Nat
  /\ Shortest \in Nat /\ Shortest >= 2 /\ MaxSize < 2 * Half

VARIABLES
  data, cuts,               \* external: the data, and the offsets of its blocks
  unread, damaged, short,   \* external: blocks and damaged ones to come; if the file ends early
  good, copied,             \* offsetPayloadArray up to good; blocks of it copied
  all, currentOffset,       \* allPayloads
  asked, out,               \* the offsets of the flag, and offsetString
  blocksMode

source     == <<data, cuts>>
blocksVars == <<source, unread, damaged, short, good, copied, all, currentOffset, asked, out, blocksMode>>

Bit   == {0, 1}
Unset == 2                  \* what malloc has left in a byte
Size  == Len(data)
Block == [offset : Nat, payload : Seq(Bit)]

\* The block at offset o goes up to the next cut.
End(o)    == CHOOSE e \in cuts \union {Size} : e > o /\ \A c \in cuts : c <= o \/ c >= e
Intact(o) == [offset |-> o, payload |-> SubSeq(data, o + 1, End(o))]

\* The XOR of the bytes of s at every second place, from place k on.
Xor(s, k)   == Cardinality({l \in 1..Len(s) : l >= k /\ (l - k) % 2 = 0 /\ s[l] = 1}) % 2
Cksum(s)    == <<Xor(s, 1), Xor(s, 2)>>
\* xor_result1 and xor_result2
Results(s)  == <<Xor(s, 1), Xor(s, 2)>>

BlocksTypeOK ==
  /\ data \in Seq(Bit) /\ Size >= Shortest
  /\ cuts \subseteq 0..Size-1 /\ 0 \in cuts /\ unread \subseteq cuts
  /\ damaged \in 0..Damages /\ short \in BOOLEAN
  /\ good \in Seq(Block) /\ copied \in 0..Len(good)
  /\ all \in [1..Size -> Bit \union {Unset}] /\ currentOffset \in 0..Size
  /\ asked \in Seq(0..Size-2) /\ out \in Seq(Bit \union {Unset})
  /\ blocksMode \in {"blocks", "copy", "flag", "done", "failed"}

-----------------------------------------------------------------------------
\* A block whose payload is b's and whose checksum is that of the payload was.
Keep(b, was) == good' = IF Results(b.payload) = Cksum(was) THEN Append(good, b) ELSE good

ReadIntact(o) ==
  /\ blocksMode = "blocks" /\ o \in unread
  /\ Keep(Intact(o), Intact(o).payload)
  /\ unread' = unread \ {o}
  /\ UNCHANGED <<source, damaged, short, copied, all, currentOffset, asked, out, blocksMode>>

\* One with a bit turned over, at any place.
ReadDamaged(o) ==
  /\ blocksMode = "blocks" /\ damaged > 0
  /\ LET p == Intact(o).payload IN
     \E k \in 1..Len(p) : Keep([offset |-> o, payload |-> [p EXCEPT ![k] = 1 - @]], p)
  /\ damaged' = damaged - 1
  /\ UNCHANGED <<source, unread, short, copied, all, currentOffset, asked, out, blocksMode>>

\* The file ends in a payload, or between two blocks.
PayloadShort ==
  /\ blocksMode = "blocks" /\ (unread # {} \/ damaged > 0)
  /\ blocksMode' = "failed"
  /\ UNCHANGED <<source, unread, damaged, short, good, copied, all, currentOffset, asked, out>>

HeaderShort == unread # {} \/ damaged > 0

\* The difference of two offsets as an int.
Signed(n)      == IF n >= Half THEN n - 2 * Half ELSE n
\* Mutant: the larger first.
Reversed(a, b) == Signed((b.offset - a.offset) % (2 * Half))
compareOffsets(a, b) == Signed((a.offset - b.offset) % (2 * Half))

\* Whether the comparison orders these blocks: qsort promises nothing if not.
Orders(s) ==
  \A k, l, m \in 1..Len(s) :
    /\ compareOffsets(s[k], s[l]) <= 0 /\ compareOffsets(s[l], s[m]) <= 0
         => compareOffsets(s[k], s[m]) <= 0
    /\ compareOffsets(s[k], s[l]) <= 0 \/ compareOffsets(s[l], s[k]) <= 0
Sorted(s) == \A k, l \in 1..Len(s) : k < l => compareOffsets(s[k], s[l]) <= 0

\* qsort, after the loop has ended one way or the other.
Sort ==
  /\ blocksMode = "blocks" /\ short' = HeaderShort
  /\ \E f \in {g \in [1..Len(good) -> 1..Len(good)] : \A k, l \in DOMAIN g : g[k] = g[l] => k = l} :
       /\ good' = [k \in 1..Len(good) |-> good[f[k]]]
       /\ Orders(good) => Sorted(good')
  /\ blocksMode' = "copy"
  /\ UNCHANGED <<source, unread, damaged, copied, all, currentOffset, asked, out>>

CopyBlock ==
  /\ blocksMode = "copy" /\ copied < Len(good)
  /\ LET b == good[copied+1]  n == Len(b.payload) IN
       /\ all' = [k \in 1..Size |-> IF k \in currentOffset+1..currentOffset+n
                                    THEN b.payload[k - currentOffset] ELSE all[k]]
       /\ currentOffset' = currentOffset + n
  /\ copied' = copied + 1
  /\ UNCHANGED <<source, unread, damaged, short, good, asked, out, blocksMode>>

\* fread(&flag, ...) after the last block
ReadFlag ==
  /\ blocksMode = "copy" /\ copied = Len(good)
  /\ blocksMode' = IF short THEN "failed" ELSE "flag"
  /\ UNCHANGED <<source, unread, damaged, short, good, copied, all, currentOffset, asked, out>>

BytesAt(o) == <<all[o+1], all[o+2]>>

\* The next offset; each has two bytes in the data.
ReadOffset ==
  /\ blocksMode = "flag" /\ Len(asked) < Flags
  /\ \E o \in 0..Size-2 : asked' = Append(asked, o) /\ out' = out \o BytesAt(o)
  /\ UNCHANGED <<source, unread, damaged, short, good, copied, all, currentOffset, blocksMode>>

\* The last one has been read, or the file ends where there should be another.
Report ==
  /\ blocksMode = "flag" /\ blocksMode' = "done"
  /\ UNCHANGED <<source, unread, damaged, short, good, copied, all, currentOffset, asked, out>>

-----------------------------------------------------------------------------
BlocksInit ==
  /\ data \in UNION {[1..n -> Bit] : n \in Shortest..MaxSize}
  /\ cuts \in {c \in SUBSET (0..Size-1) :
                 0 \in c /\ \A o \in c, e \in c \union {Size} : e > o => e >= o + Shortest}
  /\ unread = cuts /\ damaged \in 0..Damages /\ short = FALSE
  /\ good = <<>> /\ copied = 0 /\ all = [k \in 1..Size |-> Unset] /\ currentOffset = 0
  /\ asked = <<>> /\ out = <<>> /\ blocksMode = "blocks"

BlocksNext ==
  \/ \E o \in cuts : ReadIntact(o) \/ ReadDamaged(o)
  \/ PayloadShort \/ Sort \/ CopyBlock \/ ReadFlag \/ ReadOffset \/ Report
BlocksSpec == BlocksInit /\ [][BlocksNext]_blocksVars

-----------------------------------------------------------------------------
\* No damaged block gets into the array, and no intact one stays out.
KeepsIntact ==
  /\ \A k \in 1..Len(good) : good[k].offset \in cuts /\ good[k] = Intact(good[k].offset)
  /\ \A k, l \in 1..Len(good) : good[k].offset = good[l].offset => k = l
  /\ {good[k].offset : k \in 1..Len(good)} = cuts \ unread

\* The comparison of offsets as ints is right while none is Half or more from
\* another; then the blocks are in their order when they are copied.
Near == \A o, e \in cuts : o - e < Half
InOrder ==
  blocksMode \in {"copy", "flag", "done"} /\ Near =>
    \A k, l \in 1..Len(good) : k < l => good[k].offset < good[l].offset

\* No two blocks have a byte in common, so there is room for all of them, and when
\* all were read they follow each other without a gap.
Taken == {p \in 1..Size : \E k \in 1..copied : p \in good[k].offset+1..End(good[k].offset)}
Copying ==
  /\ currentOffset = Cardinality(Taken)
  /\ blocksMode = "blocks" => copied = 0
  /\ blocksMode \in {"copy", "flag", "done"} /\ ~short => unread = {}
  /\ blocksMode \in {"flag", "done"} => ~short /\ copied = Len(good)
  /\ blocksMode \in {"copy", "flag", "done"} /\ ~short /\ Near =>
       /\ currentOffset = IF copied = 0 THEN 0 ELSE End(good[copied].offset)
       /\ \A p \in 1..currentOffset : all[p] = data[p]
PutTogether == blocksMode \in {"flag", "done"} /\ Near => all = data

\* The flag has the two bytes at each offset asked for.
Answers ==
  /\ blocksMode \in {"blocks", "copy"} => asked = <<>>
  /\ Len(out) = 2 * Len(asked)
  /\ \A k \in 1..Len(asked) : out[2*k-1] = all[asked[k]+1] /\ out[2*k] = all[asked[k]+2]

\* Out of the blocks, in whatever order and with whatever damaged ones between
\* them, the flag gets the bytes of the data.
FlagRight ==
  /\ BlocksTypeOK /\ KeepsIntact /\ InOrder /\ Copying /\ PutTogether /\ Answers
  /\ blocksMode = "done" /\ Near =>
       \A k \in 1..Len(asked) : out[2*k-1] = data[asked[k]+1] /\ out[2*k] = data[asked[k]+2]
=============================================================================
