---------------------------- MODULE SequenceFacts ----------------------------
(***************************************************************************)
(* Facts about sequences that several of the proofs use: histories from    *)
(* which a record is erased, and queues that nobody is in twice.  The last *)
(* is about numbers.                                                       *)
(***************************************************************************)
EXTENDS SequencesExt, Integers, SequenceTheorems, WellFoundedInduction, TLAPS

\* Removing one element keeps the others in their order.
LEMMA RemoveAtProperties ==
  ASSUME NEW S, NEW s \in Seq(S), NEW i \in 1..Len(s)
  PROVE  /\ RemoveAt(s, i) \in Seq(S)
         /\ Len(RemoveAt(s, i)) = Len(s) - 1
         /\ \A j \in 1..i-1 : RemoveAt(s, i)[j] = s[j]
         /\ \A j \in i..Len(s)-1 : RemoveAt(s, i)[j] = s[j+1]
<1> DEFINE front == SubSeq(s, 1, i-1)
           back  == SubSeq(s, i+1, Len(s))
           rest  == front \o back
<1>1. Len(s) \in Nat /\ i \in Int /\ \A j \in 1..Len(s) : s[j] \in S
  BY ElementOfSeq, LenProperties
<1>2. /\ front \in Seq(S) /\ Len(front) = i-1
      /\ \A j \in 1..i-1 : front[j] = s[j]
  <2>1. \A j \in 1..i-1 : s[j] \in S
    BY <1>1
  <2>2. /\ front \in Seq(S)
        /\ Len(front) = IF 1 <= i-1 THEN i-1-1+1 ELSE 0
        /\ \A j \in 1..i-1-1+1 : front[j] = s[1+j-1]
    BY <1>1, <2>1, SubSeqProperties
  <2> HIDE DEF front
  <2> QED BY <1>1, <2>2
<1>3. /\ back \in Seq(S) /\ Len(back) = Len(s)-i
      /\ \A j \in 1..Len(s)-i : back[j] = s[i+j]
  <2>1. \A j \in i+1..Len(s) : s[j] \in S
    BY <1>1
  <2>2. /\ back \in Seq(S)
        /\ Len(back) = IF i+1 <= Len(s) THEN Len(s)-(i+1)+1 ELSE 0
        /\ \A j \in 1..Len(s)-(i+1)+1 : back[j] = s[i+1+j-1]
    BY <1>1, <2>1, SubSeqProperties
  <2> HIDE DEF back
  <2> QED BY <1>1, <2>2
<1> HIDE DEF front, back
<1>4. /\ rest \in Seq(S)
      /\ Len(rest) = Len(front) + Len(back)
      /\ \A j \in 1..Len(front)+Len(back) :
           rest[j] = IF j <= Len(front) THEN front[j] ELSE back[j-Len(front)]
  BY <1>2, <1>3, ConcatProperties
<1> HIDE DEF rest
<1>5. /\ Len(rest) = Len(s) - 1
      /\ \A j \in 1..i-1 : rest[j] = s[j]
      /\ \A j \in i..Len(s)-1 : rest[j] = s[j+1]
  <2>1. Len(front) + Len(back) = Len(s) - 1
    BY <1>1, <1>2, <1>3
  <2>2. \A j \in 1..i-1 : rest[j] = s[j]
    <3> SUFFICES ASSUME NEW j \in 1..i-1 PROVE rest[j] = s[j]
      OBVIOUS
    <3>1. j \in 1..Len(s)-1 /\ j <= Len(front)
      BY <1>1, <1>2
    <3> QED BY <1>2, <1>4, <2>1, <3>1
  <2>3. \A j \in i..Len(s)-1 : rest[j] = s[j+1]
    <3> SUFFICES ASSUME NEW j \in i..Len(s)-1 PROVE rest[j] = s[j+1]
      OBVIOUS
    <3>1. /\ j \in 1..Len(s)-1 /\ ~(j <= Len(front))
          /\ j-Len(front) \in 1..Len(s)-i /\ i+(j-Len(front)) = j+1
      BY <1>1, <1>2
    <3>2. rest[j] = back[j-Len(front)]
      BY <1>4, <2>1, <3>1
    <3> QED BY <1>3, <3>1, <3>2
  <2> QED BY <1>4, <2>1, <2>2, <2>3
<1>6. RemoveAt(s, i) = rest
  BY DEF RemoveAt, rest, front, back
<1> QED BY <1>4, <1>5, <1>6

\* An element pushed at the end disturbs none of those before it.
LEMMA PushProperties ==
  ASSUME NEW S, NEW s \in Seq(S), NEW e \in S
  PROVE  /\ Append(s, e) \in Seq(S)
         /\ Len(Append(s, e)) = Len(s) + 1
         /\ \A j \in 1..Len(s) : Append(s, e)[j] = s[j]
         /\ Append(s, e)[Len(s) + 1] = e
BY AppendProperties, LenProperties

\* An element added at the end and removed again.
LEMMA AppendThenRemove ==
  ASSUME NEW S, NEW s \in Seq(S), NEW e \in S
  PROVE  RemoveAt(Append(s, e), Len(s) + 1) = s
<1> DEFINE a == Append(s, e)
           n == Len(s) + 1
<1>1. /\ a \in Seq(S) /\ Len(a) = n /\ n \in 1..Len(a) /\ Len(s) \in Nat
      /\ \A j \in 1..Len(s) : a[j] = s[j]
  BY PushProperties, LenProperties
<1> HIDE DEF a
<1>2. /\ RemoveAt(a, n) \in Seq(S) /\ Len(RemoveAt(a, n)) = Len(a) - 1
      /\ \A j \in 1..n-1 : RemoveAt(a, n)[j] = a[j]
  BY <1>1, RemoveAtProperties
<1>3. Len(RemoveAt(a, n)) = Len(s) /\ \A j \in 1..Len(s) : RemoveAt(a, n)[j] = s[j]
  BY <1>1, <1>2
<1> HIDE DEF n
<1>4. RemoveAt(a, n) = s
  BY <1>2, <1>3, SeqEqual
<1> QED BY <1>4 DEF a, n

\* Removing an element commutes with adding one at the end.
LEMMA RemoveThenAppend ==
  ASSUME NEW S, NEW s \in Seq(S), NEW e \in S, NEW i \in 1..Len(s)
  PROVE  RemoveAt(Append(s, e), i) = Append(RemoveAt(s, i), e)
<1> DEFINE a == Append(s, e)
           l == RemoveAt(a, i)
           q == RemoveAt(s, i)
           r == Append(q, e)
<1>1. /\ a \in Seq(S) /\ Len(a) = Len(s) + 1 /\ i \in 1..Len(a) /\ Len(s) \in Nat
      /\ \A j \in 1..Len(s) : a[j] = s[j]
      /\ a[Len(s) + 1] = e
  BY PushProperties, LenProperties
<1> HIDE DEF a
<1>2. /\ l \in Seq(S) /\ Len(l) = Len(a) - 1
      /\ \A j \in 1..i-1 : l[j] = a[j]
      /\ \A j \in i..Len(a)-1 : l[j] = a[j+1]
  BY <1>1, RemoveAtProperties
<1>3. /\ q \in Seq(S) /\ Len(q) = Len(s) - 1
      /\ \A j \in 1..i-1 : q[j] = s[j]
      /\ \A j \in i..Len(s)-1 : q[j] = s[j+1]
  BY RemoveAtProperties
<1> HIDE DEF l, q
<1>4. /\ r \in Seq(S) /\ Len(r) = Len(q) + 1
      /\ \A j \in 1..Len(q) : r[j] = q[j]
      /\ r[Len(q) + 1] = e
  BY <1>3, PushProperties
<1> HIDE DEF r
<1>5. Len(l) = Len(r) /\ Len(l) = Len(s)
  BY <1>1, <1>2, <1>3, <1>4
<1>6. ASSUME NEW j \in 1..Len(l) PROVE l[j] = r[j]
  <2>1. CASE j < i
    <3>1. j \in 1..i-1 /\ j \in 1..Len(s) /\ j \in 1..Len(q)
      BY <1>1, <1>3, <1>5, <2>1
    <3> QED BY <1>1, <1>2, <1>3, <1>4, <3>1
  <2>2. CASE j >= i /\ j < Len(s)
    <3>1. j \in i..Len(a)-1 /\ j+1 \in 1..Len(s) /\ j \in 1..Len(q) /\ j \in i..Len(s)-1
      BY <1>1, <1>3, <1>5, <2>2
    <3> QED BY <1>1, <1>2, <1>3, <1>4, <3>1
  <2>3. CASE j = Len(s)
    <3>1. j \in i..Len(a)-1 /\ j = Len(q) + 1
      BY <1>1, <1>3, <1>5, <2>3
    <3> QED BY <1>1, <1>2, <1>4, <2>3, <3>1
  <2> QED BY <1>1, <1>5, <2>1, <2>2, <2>3
<1>7. l = r
  BY <1>2, <1>4, <1>5, <1>6, SeqEqual
<1> QED BY <1>7 DEF l, r, q, a

-----------------------------------------------------------------------------
\* What a queue without repetitions holds when one joins it and when one is taken.
LEMMA AppendDistinct ==
  ASSUME NEW S, NEW q \in Seq(S), NEW k \in S,
         \A i \in 1..Len(q) : q[i] # k,
         \A i, j \in 1..Len(q) : q[i] = q[j] => i = j
  PROVE  /\ Append(q, k) \in Seq(S)
         /\ {Append(q, k)[i] : i \in 1..Len(Append(q, k))} = {q[i] : i \in 1..Len(q)} \union {k}
         /\ \A i, j \in 1..Len(Append(q, k)) : Append(q, k)[i] = Append(q, k)[j] => i = j
<1> DEFINE a == Append(q, k)
<1>1. /\ a \in Seq(S) /\ Len(a) = Len(q) + 1 /\ Len(q) \in Nat
      /\ \A i \in 1..Len(q) : a[i] = q[i]
      /\ a[Len(q) + 1] = k
  BY AppendProperties, LenProperties
<1>2. \A i \in 1..Len(a) : i \in 1..Len(q) \/ i = Len(q) + 1
  BY <1>1
<1> HIDE DEF a
<1>3. {a[i] : i \in 1..Len(a)} = {q[i] : i \in 1..Len(q)} \union {k}
  <2>1. \A i \in 1..Len(q) : i \in 1..Len(a)
    BY <1>1
  <2>2. Len(q) + 1 \in 1..Len(a)
    BY <1>1
  <2> QED BY <1>1, <1>2, <2>1, <2>2
<1>4. \A i, j \in 1..Len(a) : a[i] = a[j] => i = j
  BY <1>1, <1>2
<1> QED BY <1>1, <1>3, <1>4 DEF a

LEMMA TailDistinct ==
  ASSUME NEW S, NEW q \in Seq(S), q # <<>>,
         \A i, j \in 1..Len(q) : q[i] = q[j] => i = j
  PROVE  /\ Head(q) \in S /\ Tail(q) \in Seq(S)
         /\ {q[i] : i \in 1..Len(q)} = {Tail(q)[i] : i \in 1..Len(Tail(q))} \union {Head(q)}
         /\ Head(q) \notin {Tail(q)[i] : i \in 1..Len(Tail(q))}
         /\ \A i, j \in 1..Len(Tail(q)) : Tail(q)[i] = Tail(q)[j] => i = j
<1> DEFINE t == Tail(q)
<1>1. /\ Head(q) \in S /\ t \in Seq(S) /\ Len(q) \in Nat \ {0}
      /\ Len(t) = Len(q) - 1 /\ Head(q) = q[1]
      /\ \A i \in 1..Len(t) : t[i] = q[i+1]
  <2>1. Len(q) \in Nat /\ Len(q) # 0
    BY EmptySeq, LenProperties
  <2> QED BY <2>1, HeadTailProperties
<1> HIDE DEF t
<1>2. /\ \A i \in 1..Len(t) : i \in Nat /\ i+1 \in 1..Len(q) /\ i+1 # 1
      /\ \A i \in 1..Len(q) : i = 1 \/ (i-1 \in 1..Len(t) /\ (i-1)+1 = i)
      /\ 1 \in 1..Len(q)
  BY <1>1
<1>3. {q[i] : i \in 1..Len(q)} = {t[i] : i \in 1..Len(t)} \union {Head(q)}
  <2>1. ASSUME NEW i \in 1..Len(q) PROVE q[i] = Head(q) \/ \E j \in 1..Len(t) : q[i] = t[j]
    <3>1. CASE i = 1
      BY <1>1, <3>1
    <3>2. CASE i # 1
      <4>1. PICK j \in 1..Len(t) : j + 1 = i
        BY <1>2, <3>2
      <4> QED BY <1>1, <4>1
    <3> QED BY <3>1, <3>2
  <2>2. {t[i] : i \in 1..Len(t)} \subseteq {q[i] : i \in 1..Len(q)}
    BY <1>1, <1>2
  <2>3. Head(q) \in {q[i] : i \in 1..Len(q)}
    BY <1>1, <1>2
  <2>4. {q[i] : i \in 1..Len(q)} \subseteq {t[i] : i \in 1..Len(t)} \union {Head(q)}
    BY <2>1
  <2> QED BY <2>2, <2>3, <2>4
<1>4. Head(q) \notin {t[i] : i \in 1..Len(t)}
  BY <1>1, <1>2
<1>5. \A i, j \in 1..Len(t) : t[i] = t[j] => i = j
  BY <1>1, <1>2
<1> QED BY <1>1, <1>3, <1>4, <1>5 DEF t

\* The same of what they contain.
LEMMA AppendContains ==
  ASSUME NEW S, NEW q \in Seq(S), NEW e \in S
  PROVE  \A k : Contains(Append(q, e), k) <=> Contains(q, k) \/ k = e
<1> DEFINE a == Append(q, e)
<1>1. /\ Len(a) = Len(q) + 1 /\ Len(q) \in Nat
      /\ \A i \in 1..Len(q) : a[i] = q[i]
      /\ a[Len(q) + 1] = e
  BY AppendProperties, LenProperties
<1>2. /\ \A i \in 1..Len(a) : i \in 1..Len(q) \/ i = Len(q) + 1
      /\ \A i \in 1..Len(q) : i \in 1..Len(a)
      /\ Len(q) + 1 \in 1..Len(a)
  BY <1>1
<1> HIDE DEF a
<1>3. \A k : (\E i \in 1..Len(a) : a[i] = k) <=> (\E i \in 1..Len(q) : q[i] = k) \/ k = e
  BY <1>1, <1>2
<1> QED BY <1>3 DEF Contains, a

LEMMA TailContains ==
  ASSUME NEW S, NEW q \in Seq(S), q # <<>>,
         \A i, j \in 1..Len(q) : q[i] = q[j] => i = j
  PROVE  \A k : Contains(Tail(q), k) <=> Contains(q, k) /\ k # Head(q)
<1>1. /\ {q[i] : i \in 1..Len(q)} = {Tail(q)[i] : i \in 1..Len(Tail(q))} \union {Head(q)}
      /\ Head(q) \notin {Tail(q)[i] : i \in 1..Len(Tail(q))}
  BY TailDistinct
<1> SUFFICES ASSUME NEW k
             PROVE  Contains(Tail(q), k) <=> Contains(q, k) /\ k # Head(q)
  OBVIOUS
<1>2. Contains(Tail(q), k) <=> k \in {Tail(q)[i] : i \in 1..Len(Tail(q))}
  BY DEF Contains
<1>3. Contains(q, k) <=> k \in {q[i] : i \in 1..Len(q)}
  BY DEF Contains
<1> QED BY <1>1, <1>2, <1>3

-----------------------------------------------------------------------------
\* s is what is left of t when its first d elements are dropped.
IsRestOf(s, t, d) == Len(t) = Len(s) + d /\ \A i \in 1..Len(s) : s[i] = t[d + i]

\* What a sequence reversed holds.
LEMMA ReverseProperties ==
  ASSUME NEW S, NEW s \in Seq(S)
  PROVE  /\ Reverse(s) \in Seq(S) /\ Len(Reverse(s)) = Len(s)
         /\ \A i \in 1..Len(s) : Reverse(s)[i] = s[Len(s) - i + 1]
<1>1. Len(s) \in Nat /\ \A i \in 1..Len(s) : s[i] \in S
  BY LenProperties, ElementOfSeq
<1>2. \A i \in 1..Len(s) : Len(s) - i + 1 \in 1..Len(s)
  BY <1>1
<1>3. Reverse(s) \in [1..Len(s) -> S]
  BY <1>1, <1>2 DEF Reverse
<1>4. Reverse(s) \in Seq(S)
  BY <1>1, <1>3, SeqDef
<1>5. Len(Reverse(s)) = Len(s)
  BY <1>1, <1>3, <1>4, LenProperties
<1> QED BY <1>4, <1>5 DEF Reverse

LEMMA SuffixIsRest ==
  ASSUME NEW S, NEW s \in Seq(S), NEW t \in Seq(S)
  PROVE  IsSuffix(s, t) <=> \E d \in Nat : IsRestOf(s, t, d)
<1> DEFINE rs == Reverse(s)
           rt == Reverse(t)
<1>1. /\ rs \in Seq(S) /\ Len(rs) = Len(s) /\ Len(s) \in Nat
      /\ \A i \in 1..Len(s) : rs[i] = s[Len(s) - i + 1]
  BY ReverseProperties, LenProperties
<1>2. /\ rt \in Seq(S) /\ Len(rt) = Len(t) /\ Len(t) \in Nat
      /\ \A i \in 1..Len(t) : rt[i] = t[Len(t) - i + 1]
  BY ReverseProperties, LenProperties
<1> HIDE DEF rs, rt
<1>3. IsSuffix(s, t) <=> Len(s) <= Len(t) /\ SubSeq(rs, 1, Len(s)) = SubSeq(rt, 1, Len(s))
  BY <1>1, <1>2 DEF IsSuffix, IsPrefix, rs, rt
<1>4. ASSUME Len(s) <= Len(t)
      PROVE  SubSeq(rs, 1, Len(s)) = SubSeq(rt, 1, Len(s)) <=> \A i \in 1..Len(s) : rs[i] = rt[i]
  <2> DEFINE a == SubSeq(rs, 1, Len(s))
             b == SubSeq(rt, 1, Len(s))
  <2>1. \A i \in 1..Len(s) : rs[i] \in S /\ rt[i] \in S
    BY <1>1, <1>2, <1>4, ElementOfSeq
  <2>2. /\ a \in Seq(S) /\ Len(a) = (IF 1 <= Len(s) THEN Len(s)-1+1 ELSE 0)
        /\ \A i \in 1..Len(s)-1+1 : a[i] = rs[1+i-1]
    BY <1>1, <2>1, SubSeqProperties
  <2>3. /\ b \in Seq(S) /\ Len(b) = (IF 1 <= Len(s) THEN Len(s)-1+1 ELSE 0)
        /\ \A i \in 1..Len(s)-1+1 : b[i] = rt[1+i-1]
    BY <1>1, <2>1, SubSeqProperties
  <2> HIDE DEF a, b
  <2>4. /\ Len(a) = Len(s) /\ \A i \in 1..Len(s) : a[i] = rs[i]
        /\ Len(b) = Len(s) /\ \A i \in 1..Len(s) : b[i] = rt[i]
    BY <1>1, <2>2, <2>3
  <2>5. a = b <=> \A i \in 1..Len(s) : rs[i] = rt[i]
    BY <2>2, <2>3, <2>4, SeqEqual
  <2> QED BY <2>5 DEF a, b
<1>5. ASSUME Len(s) <= Len(t)
      PROVE  (\A i \in 1..Len(s) : rs[i] = rt[i]) <=> IsRestOf(s, t, Len(t) - Len(s))
  <2> DEFINE d == Len(t) - Len(s)
  <2>1. Len(t) = Len(s) + d /\ d \in Nat
    BY <1>1, <1>2, <1>5
  <2>2. \A i \in 1..Len(s) : /\ i \in 1..Len(t) /\ Len(s) - i + 1 \in 1..Len(s)
                             /\ Len(t) - i + 1 = d + (Len(s) - i + 1)
                             /\ Len(s) - (Len(s) - i + 1) + 1 = i
    BY <1>1, <1>2, <1>5
  <2> HIDE DEF d
  <2>3. ASSUME \A i \in 1..Len(s) : rs[i] = rt[i], NEW j \in 1..Len(s) PROVE s[j] = t[d + j]
    <3>1. PICK i \in 1..Len(s) : Len(s) - i + 1 = j
      BY <2>2
    <3>2. PICK k : k = Len(t) - i + 1
      OBVIOUS
    <3>3. k = d + j
      BY <2>2, <3>1, <3>2
    <3>4. rs[i] = s[j]
      BY <1>1, <3>1
    <3>5. rt[i] = t[k]
      BY <1>2, <2>2, <3>2
    <3> QED BY <2>3, <3>3, <3>4, <3>5
  <2>4. ASSUME \A j \in 1..Len(s) : s[j] = t[d + j], NEW i \in 1..Len(s) PROVE rs[i] = rt[i]
    <3>1. PICK j \in 1..Len(s) : j = Len(s) - i + 1
      BY <2>2
    <3>2. PICK k : k = Len(t) - i + 1
      OBVIOUS
    <3>3. k = d + j
      BY <2>2, <3>1, <3>2
    <3>4. rs[i] = s[j]
      BY <1>1, <3>1
    <3>5. rt[i] = t[k]
      BY <1>2, <2>2, <3>2
    <3> QED BY <2>4, <3>1, <3>3, <3>4, <3>5
  <2>5. (\A i \in 1..Len(s) : rs[i] = rt[i]) <=> IsRestOf(s, t, d)
    BY <2>1, <2>3, <2>4 DEF IsRestOf
  <2> QED BY <2>5 DEF d
<1>6. \A d \in Nat : IsRestOf(s, t, d) => Len(s) <= Len(t) /\ d = Len(t) - Len(s)
  BY <1>1, <1>2 DEF IsRestOf
<1>7. Len(s) <= Len(t) => Len(t) - Len(s) \in Nat
  BY <1>1, <1>2
<1> QED BY <1>3, <1>4, <1>5, <1>6, <1>7

\* An element added to both ends, and the empty sequence.
LEMMA SuffixAppend ==
  ASSUME NEW S, NEW s \in Seq(S), NEW t \in Seq(S), NEW e \in S, IsSuffix(s, t)
  PROVE  IsSuffix(Append(s, e), Append(t, e))
<1>1. PICK d \in Nat : IsRestOf(s, t, d)
  BY SuffixIsRest
<1> DEFINE a == Append(s, e)
           b == Append(t, e)
<1>2. /\ a \in Seq(S) /\ Len(a) = Len(s) + 1 /\ Len(s) \in Nat
      /\ \A i \in 1..Len(s) : a[i] = s[i]
      /\ a[Len(s) + 1] = e
      /\ b \in Seq(S) /\ Len(b) = Len(t) + 1 /\ Len(t) \in Nat
      /\ \A i \in 1..Len(t) : b[i] = t[i]
      /\ b[Len(t) + 1] = e
  BY PushProperties, LenProperties
<1> HIDE DEF a, b
<1>3. Len(t) = Len(s) + d /\ \A i \in 1..Len(s) : s[i] = t[d + i]
  BY <1>1 DEF IsRestOf
<1>4. Len(b) = Len(a) + d
  BY <1>2, <1>3
<1>5. ASSUME NEW i \in 1..Len(a) PROVE a[i] = b[d + i]
  <2>1. CASE i \in 1..Len(s)
    <3>1. d + i \in 1..Len(t)
      BY <1>2, <1>3, <2>1
    <3> QED BY <1>2, <1>3, <2>1, <3>1
  <2>2. CASE i = Len(s) + 1
    <3>1. d + i = Len(t) + 1
      BY <1>2, <1>3, <2>2
    <3> QED BY <1>2, <2>2, <3>1
  <2> QED BY <1>2, <2>1, <2>2
<1>6. IsRestOf(a, b, d)
  BY <1>4, <1>5 DEF IsRestOf
<1> QED BY <1>2, <1>6, SuffixIsRest DEF a, b

LEMMA SuffixEmpty ==
  ASSUME NEW S, NEW t \in Seq(S)
  PROVE  IsSuffix(<<>>, t)
<1>1. Len(t) \in Nat /\ <<>> \in Seq(S) /\ Len(<<>>) = 0
  BY EmptySeq, LenProperties
<1>2. IsRestOf(<<>>, t, Len(t))
  BY <1>1 DEF IsRestOf
<1> QED BY <1>1, <1>2, SuffixIsRest

-----------------------------------------------------------------------------
\* Numbers that have a property have a least one among them.
LEMMA LeastOf ==
  ASSUME NEW S, S \subseteq Nat, S # {}
  PROVE  \E x \in S : \A y \in S : x <= y
<1>1. \E x \in S : \A y \in S : ~ (<<y, x>> \in OpToRel(<, Nat))
  BY WFMin, NatLessThanWellFounded
<1>2. \A x, y \in Nat : x < y => <<x, y>> \in OpToRel(<, Nat)
  BY DEF OpToRel
<1>3. \A x, y \in Nat : ~(x < y) => y <= x
  OBVIOUS
<1> QED BY <1>1, <1>2, <1>3
=============================================================================
