------------------------------- MODULE UrlCodec -------------------------------
(***************************************************************************)
(* urlEncode of lab4/code.c, which encodes the one-time password into a    *)
(* request, and urldecode of hw1/server.c, which decodes the path of one,  *)
(* in place.  What one has encoded is here decoded by the other.  A string *)
(* is the sequence of its bytes without the '\0' that ends it.             *)
(***************************************************************************)
EXTENDS Integers, Sequences, FiniteSets

CONSTANTS
  Char,             \* the bytes strings are made of
  MaxLen            \* the length of the longest

ASSUME CharAssumption == Char \subseteq 1..255 /\ MaxLen \in Nat

VARIABLES
  str, index, encodedStr,   \* urlEncode; j is the length of encodedStr
  buf, url, pos,            \* urldecode: the string, and its two pointers into it
  codecMode

codecVars == <<str, index, encodedStr, buf, url, pos, codecMode>>

Byte    == 0..255
Percent == 37
Digit   == 48..57

CodecTypeOK ==
  /\ str \in Seq(Char) /\ index \in Nat /\ encodedStr \in Seq(Byte)
  /\ buf \in Seq(Byte) /\ url \in Nat /\ pos \in Nat
  /\ codecMode \in {"encode", "decode", "done"}

-----------------------------------------------------------------------------
\* urlEncode(str)

\* !*'();:@&=+$,/?#[]
specialChars == {33, 35, 36, 38, 39, 40, 41, 42, 43, 44, 47, 58, 59, 61, 63, 64, 91, 93}
needsEncoding(c) == c \in specialChars

HexDigit(n) == IF n < 10 THEN 48 + n ELSE 65 + n - 10
\* sprintf("%%%02X")
Escape(c) == <<Percent, HexDigit(c \div 16), HexDigit(c % 16)>>

Room == 3 * Len(str) + 1

EncodeChar ==
  /\ codecMode = "encode" /\ index < Len(str)
  /\ encodedStr' = encodedStr \o (IF needsEncoding(str[index+1]) THEN Escape(str[index+1])
                                                             ELSE <<str[index+1]>>)
  /\ index' = index + 1
  /\ UNCHANGED <<str, buf, url, pos, codecMode>>

\* What urlEncode returns goes to urldecode as url.
Encoded ==
  /\ codecMode = "encode" /\ index = Len(str)
  /\ buf' = encodedStr /\ url' = 0 /\ pos' = 0 /\ codecMode' = "decode"
  /\ UNCHANGED <<str, index, encodedStr>>

-----------------------------------------------------------------------------
\* urldecode(url)

\* hex_to_dec, whose -1 is here no digit
IsHex(c)      == c \in Digit \union 65..70 \union 97..102
hex_to_dec(c) == IF c \in Digit THEN c - 48 ELSE IF c \in 97..102 THEN 10 + c - 97 ELSE 10 + c - 65

\* Whether s[k] is the '%' of an escape.
IsEscape(s, k) == k + 2 <= Len(s) /\ s[k] = Percent /\ IsHex(s[k+1]) /\ IsHex(s[k+2])
Value(s, k)    == hex_to_dec(s[k+1]) * 16 + hex_to_dec(s[k+2])

\* Mutant: the second digit is read again.
LeavesDigit  == 2
EscapeLength == 3
\* Mutant: pos is moved before it is written at, as in *++pos.
MovedFirst == pos + 2
WriteAt    == pos + 1

DecodeEscape ==
  /\ codecMode = "decode" /\ url < Len(buf) /\ IsEscape(buf, url + 1)
  /\ buf' = [buf EXCEPT ![WriteAt] = Value(buf, url + 1)]
  /\ pos' = pos + 1 /\ url' = url + EscapeLength
  /\ UNCHANGED <<str, index, encodedStr, codecMode>>

Copy ==
  /\ codecMode = "decode" /\ url < Len(buf) /\ ~IsEscape(buf, url + 1)
  /\ buf' = [buf EXCEPT ![WriteAt] = buf[url+1]]
  /\ pos' = pos + 1 /\ url' = url + 1
  /\ UNCHANGED <<str, index, encodedStr, codecMode>>

\* *pos = '\0'; after a %00 there is another in buf, where C ends the string.
Terminate ==
  /\ codecMode = "decode" /\ url = Len(buf)
  /\ buf' = SubSeq(buf, 1, pos)
  /\ codecMode' = "done"
  /\ UNCHANGED <<str, index, encodedStr, url, pos>>

-----------------------------------------------------------------------------
CodecInit ==
  /\ str \in UNION {[1..n -> Char] : n \in 0..MaxLen}
  /\ index = 0 /\ encodedStr = <<>> /\ buf = <<>> /\ url = 0 /\ pos = 0 /\ codecMode = "encode"

CodecNext == EncodeChar \/ Encoded \/ DecodeEscape \/ Copy \/ Terminate
CodecSpec == CodecInit /\ [][CodecNext]_codecVars

-----------------------------------------------------------------------------
\* The bytes written so far, with the '\0' after them, are within what malloc
\* gave, and there is room for what is left of str at its longest.
EncodedFits == Len(encodedStr) + 3 * (Len(str) - index) + 1 <= Room

\* Decoding in place never writes over a byte it has still to read: writing is
\* behind reading, and what has not been read is as it came.
ReadsAhead ==
  codecMode = "decode" =>
    /\ pos <= url /\ url <= Len(buf) /\ Len(buf) = Len(encodedStr)
    /\ \A k \in url+1..Len(buf) : buf[k] = encodedStr[k]

\* urlEncode stays within what it has allocated; urldecode, in place, reads nothing
\* it has written and neither reads nor writes past the end.
DecodesInPlace == CodecTypeOK /\ index <= Len(str) /\ EncodedFits /\ ReadsAhead

\* Where the k-th byte of str has its place in encodedStr: an escape has two more.
EncodedAt(k) == k + 2 * Cardinality({l \in 1..k-1 : needsEncoding(str[l])})

\* Whether c is in s from place e on, as itself or as an escape.
Stands(s, e, c) ==
  /\ needsEncoding(c) => s[e] = Percent /\ s[e+1] = HexDigit(c \div 16) /\ s[e+2] = HexDigit(c % 16)
  /\ ~needsEncoding(c) => s[e] = c

\* Every byte of str stands in its place, and nothing else is in encodedStr.
EncodedSoFar ==
  /\ Len(encodedStr) = EncodedAt(index + 1) - 1
  /\ \A k \in 1..index : Stands(encodedStr, EncodedAt(k), str[k])
  /\ \A p \in 1..Len(encodedStr) : \E k \in 1..index :
       p = EncodedAt(k) \/ (needsEncoding(str[k]) /\ p \in EncodedAt(k)+1..EncodedAt(k)+2)

\* Where a byte of what s means begins: where every escape before has ended.
Begins(s)    == {k \in 1..Len(s) : \A l \in 1..k-1 : IsEscape(s, l) => l + 2 < k}
ByteAt(s, k) == IF IsEscape(s, k) THEN Value(s, k) ELSE s[k]

\* b begins with the bytes that s means up to its u-th.
Means(s, u, b) ==
  \A k \in Begins(s) \cap (1..u) : b[Cardinality(Begins(s) \cap (1..k))] = ByteAt(s, k)

\* urldecode has taken every escape it has passed, once, from the left.
DecodedSoFar ==
  codecMode \in {"decode", "done"} =>
    /\ index = Len(str)
    /\ pos = Cardinality(Begins(encodedStr) \cap (1..url)) /\ Means(encodedStr, url, buf)
    /\ url < Len(encodedStr) => url + 1 \in Begins(encodedStr)
    /\ codecMode = "done" => url = Len(encodedStr) /\ Len(buf) = pos

\* What urldecode leaves is what the string it was given means.  So a string comes
\* back from encoding and decoding exactly if it has no escape in it to begin with:
\* '%' itself is not encoded.
RoundTrip ==
  /\ EncodedSoFar /\ DecodedSoFar
  /\ codecMode = "done" => (buf = str <=> \A k \in 1..Len(str) : ~IsEscape(str, k))
=============================================================================
