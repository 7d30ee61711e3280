-------------------------- MODULE HttpServer_proofs --------------------------
(***************************************************************************)
(* IInv is an invariant of the file server for any number of clients,      *)
(* names, requests and descriptors.  One lemma shows what a path is        *)
(* resolved to, one each way of ending a request, and one each event.      *)
(* urldecode and its counterpart in lab4 stay within their buffers, and    *)
(* what one has encoded comes back from the other.                         *)
(***************************************************************************)
EXTENDS HttpServer, UrlCodec, SequenceFacts, FiniteSetTheorems

\* The lines of handle_request up to urldecode name something in docroot, and
\* keep the slash unless a query with a dot went with it.
LEMMA ResolvedProperties ==
  ASSUME NEW p \in Path
  PROVE  /\ Resolved(p) \in Path
         /\ Resolved(p).name \in Name
         /\ Resolved(p).name = IF p.name = "root" THEN Index ELSE Decoded[p.name]
         /\ Resolved(p).slash = (Kept(p) /\ p.name # "root")
<1>1. CASE p.name = "root"
  BY <1>1, ParameterAssumption DEF Resolved, Path, Query
<1>2. CASE p.name # "root"
  <2>1. Kept(p) \in BOOLEAN
    BY DEF Kept, Path
  <2>2. p.name \in Name /\ Decoded[p.name] \in Name
    BY <1>2, ParameterAssumption DEF Path
  <2> QED BY <1>2, <2>1, <2>2 DEF Cut, Resolved, Path, Query
<1> QED BY <1>1, <1>2

\* What an answer has to be, said of the resolved path.
LEMMA ExpectedProperties ==
  ASSUME NEW r, r.path \in Path
  PROVE  LET q == Resolved(r.path) IN
         /\ r.method # "GET" => Expected(r) = "501"
         /\ r.method = "GET" /\ ~Exists(q) => Expected(r) = "404"
         /\ r.method = "GET" /\ Kind[q.name] = "dir" /\ ~q.slash => Expected(r) = "301"
         /\ r.method = "GET" /\ Kind[q.name] = "dir" /\ q.slash =>
              Expected(r) = IF q.name \in Indexed THEN "200" ELSE "403"
         /\ r.method = "GET" /\ Exists(q) /\ Kind[q.name] # "dir" => Expected(r) = "200"
<1> DEFINE q == Resolved(r.path)
           n == IF r.path.name = "root" THEN Index ELSE Decoded[r.path.name]
<1>1. /\ q.name = n /\ n \in Name
      /\ q.slash = (Kept(r.path) /\ r.path.name # "root")
  BY ResolvedProperties
<1>2. Kind[n] \in {"file", "dir", "none"} /\ (r.path.name = "root" => Kind[n] # "dir")
  BY <1>1, ParameterAssumption
<1>3. r.method # "GET" => Expected(r) = "501"
  BY DEF Expected
<1>4. r.method = "GET" /\ Kind[n] = "none" => Expected(r) = "404"
  BY DEF Expected
<1>5. r.method = "GET" /\ Kind[n] = "dir" /\ ~Kept(r.path) => Expected(r) = "301"
  BY DEF Expected
<1>6. r.method = "GET" /\ Kind[n] = "dir" /\ Kept(r.path) =>
        Expected(r) = IF n \in Indexed THEN "200" ELSE "403"
  BY DEF Expected
<1>7. r.method = "GET" /\ Kind[n] = "file" =>
        Expected(r) = IF Kept(r.path) /\ r.path.name # "root" THEN "404" ELSE "200"
  BY DEF Expected
<1>8. Exists(q) <=> (Kind[n] = "dir" \/ (Kind[n] = "file" /\ ~q.slash))
  BY <1>1 DEF Exists
<1> HIDE DEF q, n
<1> QED BY <1>1, <1>2, <1>3, <1>4, <1>5, <1>6, <1>7, <1>8 DEF q

\* A 301 is deserved only by a name that is a directory once decoded.
LEMMA RedirectDeserved ==
  ASSUME NEW r, r.path \in Path, Expected(r) = "301"
  PROVE  r.path.name \in Name /\ Kind[Decoded[r.path.name]] = "dir"
<1> DEFINE q == Resolved(r.path)
<1>1. q.name \in Name
  BY ResolvedProperties
<1>2. r.method = "GET" /\ Exists(q) /\ Kind[q.name] = "dir" /\ ~q.slash
  BY ExpectedProperties, ZenonT(30)
<1>3. r.path.name # "root"
  BY <1>2, ResolvedProperties, ParameterAssumption
<1> QED BY <1>2, <1>3, ResolvedProperties DEF Path

LEMMA InitIInv == Init => IInv
<1> SUFFICES ASSUME Init PROVE IInv
  OBVIOUS
<1>1. TypeOK
  BY ParameterAssumption, EmptySeq DEF Init, TypeOK, NoRequest, Path, Query
<1>2. ConnectionsHeld /\ DescriptorsAccounted
  BY ParameterAssumption, EmptySeq
     DEF Init, ConnectionsHeld, DescriptorsAccounted, Waiting, Busy, FileOpen
<1>3. RequestInHand /\ FollowsToDir /\ AnswerDeserved
  BY DEF Init, RequestInHand, FollowsToDir, AnswerDeserved, Busy, FileOpen
<1> QED BY <1>1, <1>2, <1>3 DEF IInv

-----------------------------------------------------------------------------
\* A connection that is being served is not one of those that wait.
LEMMA CurFacts ==
  ASSUME IInv, Busy
  PROVE  /\ cur \in Client /\ conn[cur] # "idle" /\ got[cur] = "none"
         /\ pc # "dead" /\ used = dirs + 1 + (IF FileOpen THEN 1 ELSE 0)
         /\ used \in 0..Limit /\ dirs \in Nat /\ Limit \in Nat /\ dirs < Limit
         /\ want[cur] \in [method : {"GET", "POST", "none"}, path : Path]
         /\ want[cur].path \in Path
<1>1. /\ cur \in Client /\ pc # "dead" /\ used \in 0..Limit /\ dirs \in 0..Limit
      /\ Limit \in Nat /\ want[cur] \in [method : {"GET", "POST", "none"}, path : Path]
  BY ParameterAssumption DEF IInv, TypeOK, Busy
<1>2. conn[cur] # "idle"
  BY <1>1 DEF IInv, ConnectionsHeld
<1>3. got[cur] = "none"
  BY <1>1, <1>2 DEF IInv, RequestInHand
<1>4. used = dirs + 1 + (IF FileOpen THEN 1 ELSE 0) /\ dirs < Limit
  BY <1>1 DEF IInv, DescriptorsAccounted
<1> QED BY <1>1, <1>2, <1>3, <1>4

\* A client that asks joins the queue, and is not the one being served.
LEMMA AskIInv ==
  ASSUME IInv, NEW k \in Client, NEW r \in [method : {"GET", "POST"}, path : Path],
         NEW f \in BOOLEAN, Ask(k, r, f),
         f => /\ r.method = "GET" /\ r.path.slash /\ r.path.query = "none"
              /\ r.path.name \in Name /\ Kind[r.path.name] = "dir"
  PROVE  IInv'
<1>1. /\ conn[k] = "idle" /\ conn' = [conn EXCEPT ![k] = "open"]
      /\ said' = [said EXCEPT ![k] = "nothing"] /\ want' = [want EXCEPT ![k] = r]
      /\ got' = [got EXCEPT ![k] = "none"] /\ followed' = [followed EXCEPT ![k] = f]
      /\ queue' = Append(queue, k)
      /\ UNCHANGED <<pc, cur, method, path, used, dirs>>
  BY DEF Ask, locals
<1>2. TypeOK
  BY DEF IInv
<1>3. TypeOK'
  <2>1. queue' \in Seq(Client)
    BY <1>1, <1>2, AppendProperties DEF TypeOK
  <2>2. want' \in [Client -> [method : {"GET", "POST", "none"}, path : Path]]
    <3>1. r \in [method : {"GET", "POST", "none"}, path : Path]
      OBVIOUS
    <3> QED BY <1>1, <1>2, <3>1 DEF TypeOK
  <2> QED BY <1>1, <1>2, <2>1, <2>2 DEF TypeOK
<1>4. Busy => cur # k
  BY <1>1, CurFacts
<1>5. \A c \in Client : c # k =>
        /\ conn'[c] = conn[c] /\ said'[c] = said[c] /\ want'[c] = want[c]
        /\ got'[c] = got[c] /\ followed'[c] = followed[c]
  BY <1>1, <1>2 DEF TypeOK
<1>6. /\ conn'[k] = "open" /\ said'[k] = "nothing" /\ want'[k] = r
      /\ got'[k] = "none" /\ followed'[k] = f
  BY <1>1, <1>2 DEF TypeOK
<1>7. ConnectionsHeld'
  <2> SUFFICES ASSUME pc # "dead" PROVE ConnectionsHeld'
    BY <1>1 DEF ConnectionsHeld
  <2>1. /\ k \notin Waiting
        /\ \A i, j \in 1..Len(queue) : queue[i] = queue[j] => i = j
    BY <1>1 DEF IInv, ConnectionsHeld
  <2>2. /\ Waiting' = Waiting \union {k}
        /\ \A i, j \in 1..Len(queue') : queue'[i] = queue'[j] => i = j
    BY <1>1, <1>2, <2>1, AppendDistinct DEF Waiting, TypeOK
  <2> QED BY <1>1, <1>4, <1>5, <1>6, <2>2 DEF IInv, ConnectionsHeld, Busy
<1>8. DescriptorsAccounted'
  BY <1>1 DEF IInv, DescriptorsAccounted, Busy, FileOpen
<1>9. RequestInHand'
  <2>1. cur \in Client /\ (FileOpen \/ pc = "parsed" => Busy)
    BY <1>2 DEF TypeOK, FileOpen, Busy
  <2> QED BY <1>1, <1>4, <1>5, <1>6, <2>1
          DEF IInv, RequestInHand, Busy, FileOpen, Exists, IsDir
<1>10. FollowsToDir' /\ AnswerDeserved'
  BY <1>1, <1>5, <1>6 DEF IInv, FollowsToDir, AnswerDeserved
<1> QED BY <1>3, <1>7, <1>8, <1>9, <1>10 DEF IInv

LEMMA ConnectIInv == ASSUME NEW k \in Client PROVE IInv /\ Connect(k) => IInv'
BY AskIInv, ParameterAssumption DEF Connect

\* A 301 was deserved, so there is a name to go on with, and it is a directory.
LEMMA FollowIInv == ASSUME NEW k \in Client PROVE IInv /\ Follow(k) => IInv'
<1> SUFFICES ASSUME IInv, Follow(k) PROVE IInv'
  OBVIOUS
<1> DEFINE w == want[k]
           r == [method |-> "GET", path |-> Location(w.path)]
<1>1. got[k] = "301" /\ said[k] = "all" /\ Ask(k, r, TRUE)
  BY DEF Follow
<1>2. w.path \in Path
  BY DEF IInv, TypeOK
<1>3. Expected(w) = "301"
  BY <1>1 DEF IInv, AnswerDeserved
<1>4. w.path.name \in Name /\ Kind[Decoded[w.path.name]] = "dir"
  BY <1>2, <1>3, RedirectDeserved
<1>5. /\ r \in [method : {"GET", "POST"}, path : Path]
      /\ r.method = "GET" /\ r.path.slash /\ r.path.query = "none"
      /\ r.path.name \in Name /\ Kind[r.path.name] = "dir"
  BY <1>4, ParameterAssumption DEF Location, Path, Query
<1> QED BY <1>1, <1>5, AskIInv

\* What a client says or does when its connection is open, its request not said:
\* handle_request has not gone past recv then, or has been told that it left.
LEMMA SpeakIInv == ASSUME NEW k \in Client PROVE IInv /\ Speak(k) => IInv'
<1> SUFFICES ASSUME IInv, Speak(k) PROVE IInv'
  OBVIOUS
<1>1. /\ UNCHANGED <<want, got, followed, queue, pc, cur, method, path, used, dirs>>
      /\ conn[k] = "open"
      /\ \/ /\ said[k] = "nothing" /\ conn' = conn
            /\ \E what \in {"method", "all"} : said' = [said EXCEPT ![k] = what]
         \/ /\ said' = said
            /\ \E how \in {"left", "reset"} : conn' = [conn EXCEPT ![k] = how]
  BY DEF Speak, Say, Leave, locals
<1>2. TypeOK
  BY DEF IInv
<1>3. TypeOK'
  BY <1>1, <1>2 DEF TypeOK
<1>4. \A c \in Client :
        /\ conn'[c] = "idle" <=> conn[c] = "idle"
        /\ conn'[c] = "open" => conn[c] = "open"
        /\ said'[c] # said[c] => c = k /\ said[c] = "nothing" /\ said'[c] # "nothing"
  BY <1>1, <1>2 DEF TypeOK
<1>5. ConnectionsHeld' /\ DescriptorsAccounted' /\ FollowsToDir'
  BY <1>1, <1>4
     DEF IInv, ConnectionsHeld, DescriptorsAccounted, FollowsToDir, Waiting, Busy, FileOpen
<1>6. got[k] = "none"
  BY <1>1 DEF IInv, RequestInHand
<1>7. AnswerDeserved'
  BY <1>1, <1>4, <1>6 DEF IInv, AnswerDeserved
<1>8. Busy /\ pc # "recv" => said'[cur] = said[cur] /\ (said[cur] # "nothing" \/ conn'[cur] # "open")
  BY <1>1, <1>2, <1>4 DEF IInv, RequestInHand, TypeOK
<1>9. RequestInHand'
  <2>1. cur \in Client /\ (FileOpen \/ pc = "parsed" => Busy /\ pc # "recv")
    BY <1>2 DEF TypeOK, FileOpen, Busy
  <2> QED BY <1>1, <1>4, <1>8, <2>1
          DEF IInv, RequestInHand, Busy, FileOpen, Exists, IsDir
<1> QED BY <1>3, <1>5, <1>7, <1>9 DEF IInv

-----------------------------------------------------------------------------
\* The events of handle_request that neither end a request nor take one from the
\* queue leave these facts alone.
LEMMA ClientsFrame ==
  ASSUME IInv, Busy, Busy', UNCHANGED <<said, want, got, followed, queue, cur>>, dirs <= dirs',
         conn' \in [Client -> {"idle", "open", "left", "reset"}], dirs' \in Nat,
         \A c \in Client : /\ conn'[c] = "idle" <=> conn[c] = "idle"
                           /\ conn'[c] = "open" <=> conn[c] = "open"
  PROVE  /\ ConnectionsHeld' /\ FollowsToDir' /\ AnswerDeserved'
         /\ \A c \in Client : conn'[c] # "idle" => got'[c] = "none"
<1>1. ConnectionsHeld' /\ FollowsToDir'
  BY DEF IInv, ConnectionsHeld, FollowsToDir, Waiting, Busy
<1>2. dirs \in Nat /\ Limit \in Nat
  BY CurFacts
<1>3. AnswerDeserved'
  BY <1>2 DEF IInv, AnswerDeserved
<1>4. \A c \in Client : conn'[c] # "idle" => got'[c] = "none"
  BY DEF IInv, RequestInHand
<1> QED BY <1>1, <1>3, <1>4

\* The process has ended: what remains is what the clients have.
LEMMA KillsIInv == IInv /\ Busy /\ Kills => IInv'
<1> SUFFICES ASSUME IInv, Busy, Kills PROVE IInv'
  OBVIOUS
<1>1. /\ pc' = "dead"
      /\ UNCHANGED <<conn, said, want, got, followed, queue, cur, method, path, used, dirs>>
  BY DEF Kills, clients, locals
<1>2. TypeOK'
  BY <1>1 DEF IInv, TypeOK
<1>3. ConnectionsHeld' /\ DescriptorsAccounted' /\ FollowsToDir' /\ AnswerDeserved'
  BY <1>1 DEF IInv, ConnectionsHeld, DescriptorsAccounted, FollowsToDir, AnswerDeserved
<1>4. RequestInHand'
  BY <1>1 DEF IInv, RequestInHand, Busy, FileOpen
<1> QED BY <1>2, <1>3, <1>4 DEF IInv

\* The next connection is taken from the queue.
LEMMA AcceptIInv == IInv /\ Accept => IInv'
<1> SUFFICES ASSUME IInv, Accept PROVE IInv'
  OBVIOUS
<1>1. /\ pc = "accept" /\ queue # <<>> /\ used < Limit
      /\ cur' = Head(queue) /\ queue' = Tail(queue)
      /\ used' = used + 1 /\ pc' = "recv"
      /\ UNCHANGED <<conn, said, want, got, followed, method, path, dirs>>
  BY DEF Accept, clients
<1>2. /\ queue \in Seq(Client) /\ used \in Nat /\ Limit \in Nat
      /\ \A i, j \in 1..Len(queue) : queue[i] = queue[j] => i = j
  BY <1>1, ParameterAssumption DEF IInv, TypeOK, ConnectionsHeld
<1>3. /\ cur' \in Client /\ queue' \in Seq(Client)
      /\ Waiting = Waiting' \union {cur'} /\ cur' \notin Waiting'
      /\ \A i, j \in 1..Len(queue') : queue'[i] = queue'[j] => i = j
  <2>1. /\ Head(queue) \in Client /\ Tail(queue) \in Seq(Client)
        /\ Waiting = {Tail(queue)[i] : i \in 1..Len(Tail(queue))} \union {Head(queue)}
        /\ Head(queue) \notin {Tail(queue)[i] : i \in 1..Len(Tail(queue))}
        /\ \A i, j \in 1..Len(Tail(queue)) : Tail(queue)[i] = Tail(queue)[j] => i = j
    BY <1>1, <1>2, TailDistinct DEF Waiting
  <2>2. Waiting' = {Tail(queue)[i] : i \in 1..Len(Tail(queue))}
    BY <1>1 DEF Waiting
  <2> QED BY <1>1, <2>1, <2>2
<1>4. TypeOK'
  BY <1>1, <1>2, <1>3 DEF IInv, TypeOK
<1>5. ConnectionsHeld'
  BY <1>1, <1>3 DEF IInv, ConnectionsHeld, Busy
<1>6. DescriptorsAccounted'
  BY <1>1, <1>2 DEF IInv, TypeOK, DescriptorsAccounted, Busy, FileOpen
<1>7. RequestInHand' /\ FollowsToDir' /\ AnswerDeserved'
  BY <1>1 DEF IInv, RequestInHand, FollowsToDir, AnswerDeserved, Busy, FileOpen
<1> QED BY <1>4, <1>5, <1>6, <1>7 DEF IInv

\* A way out of handle_request that leaves open no more than it has counted, with
\* an answer that was deserved or with none.
LEMMA ReturnIInv ==
  ASSUME IInv, Busy, Return(dirs'), UNCHANGED <<said, want, followed, queue, cur>>,
         dirs' \in Nat, dirs <= dirs', dirs' < Limit,
         \/ got' = got
         \/ \E code \in Code :
              /\ got' = [got EXCEPT ![cur] = code]
              /\ said[cur] = "all" => \/ code = Expected(want[cur])
                                      \/ code \in {"403", "404"} /\ dirs' >= Limit - 1
  PROVE  IInv'
<1>1. /\ conn' = [conn EXCEPT ![cur] = "idle"] /\ used' = dirs' /\ pc' = "accept"
      /\ method' = "none" /\ path' = NoRequest.path
  BY DEF Return
<1>2. TypeOK /\ cur \in Client /\ dirs \in Nat /\ Limit \in Nat
  BY CurFacts DEF IInv
<1>3. TypeOK'
  <2>1. path' \in Path
    BY <1>1 DEF NoRequest, Path, Query
  <2>2. got' \in [Client -> Code \union {"none"}]
    BY <1>2 DEF TypeOK
  <2> QED BY <1>1, <1>2, <2>1, <2>2 DEF TypeOK
<1>4. /\ conn'[cur] = "idle"
      /\ \A c \in Client : c # cur => conn'[c] = conn[c] /\ got'[c] = got[c]
  BY <1>1, <1>2 DEF TypeOK
<1>5. ConnectionsHeld'
  BY <1>1, <1>4, CurFacts DEF IInv, ConnectionsHeld, Waiting, Busy
<1>6. DescriptorsAccounted'
  <2>1. ~Busy' /\ ~FileOpen'
    BY <1>1 DEF Busy, FileOpen
  <2>2. used' = dirs' + (IF Busy' THEN 1 ELSE 0) + (IF FileOpen' THEN 1 ELSE 0)
    <3>1. used' = dirs' + 0 + 0
      <4>1. \A n \in Nat : n = n + 0 + 0
        OBVIOUS
      <4> QED BY <1>1, <4>1, Zenon
    <3>2. (IF Busy' THEN 1 ELSE 0) = 0 /\ (IF FileOpen' THEN 1 ELSE 0) = 0
      BY <2>1
    <3> QED BY <3>1, <3>2
  <2>3. used' < Limit
    BY <1>1
  <2> QED BY <2>2, <2>3 DEF DescriptorsAccounted
<1>7. RequestInHand' /\ FollowsToDir'
  BY <1>1, <1>4 DEF IInv, RequestInHand, FollowsToDir, Busy, FileOpen
<1>8. AnswerDeserved'
  <2> SUFFICES ASSUME NEW c \in Client, said[c] = "all", got'[c] # "none"
               PROVE  \/ got'[c] = Expected(want[c])
                      \/ got'[c] \in {"403", "404"} /\ dirs' >= Limit - 1
    BY DEF AnswerDeserved
  <2>1. CASE got'[c] = got[c]
    BY <1>2, <2>1 DEF IInv, AnswerDeserved
  <2>2. CASE c = cur /\ got'[c] # got[c]
    BY <1>2, <2>2 DEF TypeOK
  <2> QED BY <1>4, <2>1, <2>2
<1> QED BY <1>3, <1>5, <1>6, <1>7, <1>8 DEF IInv

LEMMA AnswerIInv ==
  ASSUME IInv, Busy, NEW code \in Code, Answer(code, dirs'),
         dirs' \in Nat, dirs <= dirs', dirs' < Limit,
         said[cur] = "all" => \/ code = Expected(want[cur])
                              \/ code \in {"403", "404"} /\ dirs' >= Limit - 1
  PROVE  IInv'
BY ReturnIInv DEF Answer

-----------------------------------------------------------------------------
\* The events of handle_request, in the order of its code.

LEMMA RecvFailsIInv == IInv /\ RecvFails => IInv'
<1> SUFFICES ASSUME IInv, RecvFails PROVE IInv'
  OBVIOUS
<1>1. Busy /\ ~FileOpen
  BY DEF RecvFails, Busy, FileOpen
<1>2. used - 1 = dirs' /\ dirs' = dirs /\ dirs \in Nat /\ dirs < Limit
  BY <1>1, CurFacts DEF RecvFails
<1>3. Return(dirs') /\ UNCHANGED <<said, want, got, followed, queue, cur>>
  BY <1>2 DEF RecvFails
<1> QED BY <1>1, <1>2, <1>3, ReturnIInv

\* What is read in place of a word that is not there is not the client's request,
\* but then the request has not come whole.
LEMMA RecvIInv == IInv /\ Recv => IInv'
<1> SUFFICES ASSUME IInv, Recv PROVE IInv'
  OBVIOUS
<1>1. /\ pc = "recv" /\ pc' = "parsed" /\ (said[cur] # "nothing" \/ conn[cur] = "left")
      /\ UNCHANGED <<conn, said, want, got, followed, queue, cur, used, dirs>>
  BY DEF Recv, clients
<1>2. Busy /\ Busy' /\ ~FileOpen /\ ~FileOpen'
  BY <1>1 DEF Busy, FileOpen
<1>3. /\ method' \in {"GET", "POST", "none"} /\ path' \in Path
      /\ said[cur] = "all" => method' = want[cur].method /\ path' = want[cur].path
  <2>1. NoRequest.path \in Path /\ \A r \in Request : r.path \in Path
    BY ParameterAssumption DEF NoRequest, Path, Query
  <2>2. want[cur].path \in Path /\ want[cur].method \in {"GET", "POST", "none"}
    BY <1>2, CurFacts
  <2>3. \A p \in Leftover : p \in Path
    BY <2>1, ResolvedProperties DEF Leftover
  <2>4. path' \in Path
    BY <2>2, <2>3 DEF Recv
  <2> QED BY <2>2, <2>4 DEF Recv
<1>4. TypeOK'
  BY <1>1, <1>3 DEF IInv, TypeOK
<1>5. ConnectionsHeld' /\ FollowsToDir' /\ AnswerDeserved'
  BY <1>1, <1>2 DEF IInv, ConnectionsHeld, FollowsToDir, AnswerDeserved, Waiting, Busy
<1>6. DescriptorsAccounted'
  BY <1>1, <1>2 DEF IInv, DescriptorsAccounted
<1>7. RequestInHand'
  BY <1>1, <1>2, <1>3 DEF IInv, RequestInHand
<1> QED BY <1>4, <1>5, <1>6, <1>7 DEF IInv

LEMMA NotImplementedIInv == IInv /\ NotImplemented => IInv'
<1> SUFFICES ASSUME IInv, NotImplemented PROVE IInv'
  OBVIOUS
<1>1. Busy /\ ~FileOpen /\ pc = "parsed" /\ method # "GET"
  BY DEF NotImplemented, Busy, FileOpen
<1>2. CASE Kills
  BY <1>1, <1>2, KillsIInv
<1>3. CASE Answer("501", used - 1) /\ UNCHANGED dirs
  <2>1. used - 1 = dirs' /\ dirs' = dirs /\ dirs \in Nat /\ dirs < Limit
    BY <1>1, <1>3, CurFacts
  <2>2. said[cur] = "all" => "501" = Expected(want[cur])
    BY <1>1, CurFacts, ExpectedProperties DEF IInv, RequestInHand
  <2> QED BY <1>1, <1>3, <2>1, <2>2, AnswerIInv DEF Code
<1> QED BY <1>2, <1>3 DEF NotImplemented

LEMMA NotFoundIInv == IInv /\ NotFound => IInv'
<1> SUFFICES ASSUME IInv, NotFound PROVE IInv'
  OBVIOUS
<1>1. /\ Busy /\ ~FileOpen /\ pc = "parsed" /\ method = "GET"
      /\ ~Exists(Resolved(path)) \/ used = Limit
  BY DEF NotFound, Busy, FileOpen
<1>2. CASE Kills
  BY <1>1, <1>2, KillsIInv
<1>3. CASE Answer("404", used - 1) /\ UNCHANGED dirs
  <2>1. /\ used - 1 = dirs' /\ dirs' = dirs /\ dirs \in Nat /\ Limit \in Nat /\ dirs < Limit
        /\ used = Limit => dirs' >= Limit - 1
    BY <1>1, <1>3, CurFacts
  <2>2. said[cur] = "all" /\ ~Exists(Resolved(path)) => "404" = Expected(want[cur])
    BY <1>1, CurFacts, ExpectedProperties DEF IInv, RequestInHand
  <2>3. said[cur] = "all" => "404" = Expected(want[cur]) \/ dirs' >= Limit - 1
    BY <1>1, <2>1, <2>2
  <2> QED BY <1>1, <1>3, <2>1, <2>3, AnswerIInv DEF Code
<1> QED BY <1>2, <1>3 DEF NotFound

LEMMA OpenIInv == IInv /\ Open => IInv'
<1> SUFFICES ASSUME IInv, Open PROVE IInv'
  OBVIOUS
<1>1. /\ pc = "parsed" /\ method = "GET" /\ path' = Resolved(path) /\ Exists(path')
      /\ used < Limit /\ used' = used + 1 /\ pc' = "opened"
      /\ UNCHANGED <<conn, said, want, got, followed, queue, cur, method, dirs>>
  BY DEF Open, clients
<1>2. Busy /\ Busy' /\ ~FileOpen /\ FileOpen'
  BY <1>1 DEF Busy, FileOpen
<1>3. path \in Path /\ path' \in Path /\ path'.name \in Name
  BY <1>1, ResolvedProperties DEF IInv, TypeOK
<1>4. /\ used = dirs + 1 /\ used \in Nat /\ Limit \in Nat /\ dirs \in Nat /\ dirs < Limit
  BY <1>2, CurFacts
<1>5. TypeOK'
  BY <1>1, <1>3, <1>4 DEF IInv, TypeOK
<1>6. ConnectionsHeld' /\ FollowsToDir' /\ AnswerDeserved'
  BY <1>1, <1>2 DEF IInv, ConnectionsHeld, FollowsToDir, AnswerDeserved, Waiting, Busy
<1>7. DescriptorsAccounted'
  BY <1>1, <1>2, <1>4 DEF DescriptorsAccounted
<1>8. RequestInHand'
  <2>1. Exists(path)'
    BY <1>1 DEF Exists
  <2>2. said[cur] = "all" => want[cur].method = "GET" /\ path' = Resolved(want[cur].path)
    BY <1>1 DEF IInv, RequestInHand
  <2>3. Resolved(want[cur].path)' = Resolved(want[cur].path)
    BY <1>1
  <2> QED BY <1>1, <1>2, <1>3, <2>1, <2>2, <2>3 DEF IInv, RequestInHand
<1> QED BY <1>5, <1>6, <1>7, <1>8 DEF IInv

\* Once file is open, what is known of the request and what it deserves.
LEMMA OpenFacts ==
  ASSUME IInv, FileOpen
  PROVE  /\ Busy /\ path.name \in Name /\ Exists(path)
         /\ used - 2 = dirs /\ dirs \in Nat /\ used \in Nat /\ used <= Limit /\ Limit \in Nat
         /\ said[cur] = "all" =>
              /\ IsDir /\ ~path.slash => Expected(want[cur]) = "301"
              /\ IsDir /\ path.slash /\ path.name \in Indexed => Expected(want[cur]) = "200"
              /\ IsDir /\ path.slash /\ path.name \notin Indexed => Expected(want[cur]) = "403"
              /\ ~IsDir => Expected(want[cur]) = "200"
<1>1. Busy /\ path.name \in Name /\ Exists(path)
  BY DEF IInv, RequestInHand, Busy, FileOpen
<1>2. used - 2 = dirs /\ dirs \in Nat /\ used \in Nat /\ used <= Limit /\ Limit \in Nat
  BY <1>1, CurFacts
<1>3. ASSUME said[cur] = "all"
      PROVE  /\ IsDir /\ ~path.slash => Expected(want[cur]) = "301"
             /\ IsDir /\ path.slash /\ path.name \in Indexed => Expected(want[cur]) = "200"
             /\ IsDir /\ path.slash /\ path.name \notin Indexed => Expected(want[cur]) = "403"
             /\ ~IsDir => Expected(want[cur]) = "200"
  <2>1. /\ want[cur].path \in Path /\ want[cur].method = "GET"
        /\ path = Resolved(want[cur].path)
    BY <1>1, <1>3, CurFacts DEF IInv, RequestInHand
  <2> QED BY <1>1, <2>1, ExpectedProperties DEF IsDir
<1> QED BY <1>1, <1>2, <1>3

LEMMA RedirectIInv == IInv /\ Redirect => IInv'
<1> SUFFICES ASSUME IInv, Redirect PROVE IInv'
  OBVIOUS
<1>1. FileOpen /\ IsDir /\ ~path.slash
  BY DEF Redirect, FileOpen
<1>2. CASE Kills
  BY <1>1, <1>2, KillsIInv, OpenFacts
<1>3. CASE Answer("301", used - 1) /\ dirs' = dirs + 1
  <2>1. used - 1 = dirs' /\ dirs' \in Nat /\ dirs <= dirs' /\ dirs' < Limit
    BY <1>1, <1>3, OpenFacts
  <2> QED BY <1>1, <1>3, <2>1, OpenFacts, AnswerIInv DEF Code
<1> QED BY <1>2, <1>3 DEF Redirect

LEMMA ForbiddenIInv == IInv /\ Forbidden => IInv'
<1> SUFFICES ASSUME IInv, Forbidden PROVE IInv'
  OBVIOUS
<1>1. FileOpen /\ IsDir /\ path.slash /\ (path.name \notin Indexed \/ used = Limit)
  BY DEF Forbidden, FileOpen
<1>2. CASE Kills
  BY <1>1, <1>2, KillsIInv, OpenFacts
<1>3. CASE Answer("403", used - 1) /\ dirs' = dirs + 1
  <2>1. /\ used - 1 = dirs' /\ dirs' \in Nat /\ dirs <= dirs' /\ dirs' < Limit
        /\ used = Limit => dirs' >= Limit - 1
    BY <1>1, <1>3, OpenFacts
  <2>2. said[cur] = "all" => "403" = Expected(want[cur]) \/ dirs' >= Limit - 1
    BY <1>1, <2>1, OpenFacts
  <2> QED BY <1>1, <1>3, <2>1, <2>2, OpenFacts, AnswerIInv DEF Code
<1> QED BY <1>2, <1>3 DEF Forbidden

\* What is sent is a file, or index.html of a directory.
Sendable == IsDir => path.slash /\ path.name \in Indexed

\* A step from file's opening to its sending, or from one send to the next.
LEMMA SendingIInv ==
  ASSUME IInv, FileOpen, pc' \in {"header", "body", "close"},
         UNCHANGED <<said, want, got, followed, queue, cur, method, path>>,
         conn' \in [Client -> {"idle", "open", "left", "reset"}],
         \A c \in Client : /\ conn'[c] = "idle" <=> conn[c] = "idle"
                           /\ conn'[c] = "open" <=> conn[c] = "open",
         dirs' \in Nat, dirs <= dirs', dirs' < Limit, used' \in Nat, used' - 2 = dirs', used' <= Limit,
         Sendable
  PROVE  IInv'
<1>1. Busy /\ Busy' /\ FileOpen' /\ pc # "recv" /\ cur \in Client /\ dirs \in Nat /\ Limit \in Nat
  BY OpenFacts, CurFacts DEF Busy, FileOpen
<1>2. TypeOK'
  <2>1. used' \in 0..Limit /\ dirs' \in 0..Limit
    BY <1>1
  <2> QED BY <2>1 DEF IInv, TypeOK
<1>3. /\ ConnectionsHeld' /\ FollowsToDir' /\ AnswerDeserved'
      /\ \A c \in Client : conn'[c] # "idle" => got'[c] = "none"
  BY <1>1, ClientsFrame
<1>4. DescriptorsAccounted'
  <2>1. \A u, d \in Nat : u - 2 = d => u = d + 1 + 1
    OBVIOUS
  <2>2. used' = dirs' + 1 + 1
    BY <2>1
  <2> QED BY <1>1, <2>2 DEF DescriptorsAccounted
<1>5. RequestInHand'
  <2>1. /\ path.name \in Name /\ Exists(path)' /\ IsDir' = IsDir
        /\ said[cur] = "all" => want[cur].method = "GET" /\ path = Resolved(want[cur].path)
    BY DEF IInv, RequestInHand, Exists, IsDir
  <2>2. said[cur] # "nothing" \/ conn[cur] # "open"
    BY <1>1 DEF IInv, RequestInHand
  <2>3. Resolved(want[cur].path)' = Resolved(want[cur].path)
    OBVIOUS
  <2> QED BY <1>1, <1>3, <2>1, <2>2, <2>3 DEF RequestInHand, Sendable
<1> QED BY <1>2, <1>3, <1>4, <1>5 DEF IInv

LEMMA OpenIndexIInv == IInv /\ OpenIndex => IInv'
<1> SUFFICES ASSUME IInv, OpenIndex PROVE IInv'
  OBVIOUS
<1>1. /\ FileOpen /\ path.slash /\ path.name \in Indexed /\ used < Limit
      /\ used' = used + 1 /\ dirs' = dirs + 1 /\ pc' = "header"
      /\ UNCHANGED <<conn, said, want, got, followed, queue, cur, method, path>>
  BY DEF OpenIndex, FileOpen, clients, locals
<1>2. /\ dirs' \in Nat /\ dirs <= dirs' /\ dirs' < Limit
      /\ used' \in Nat /\ used' - 2 = dirs' /\ used' <= Limit
      /\ conn' \in [Client -> {"idle", "open", "left", "reset"}]
  BY <1>1, OpenFacts DEF IInv, TypeOK
<1>3. Sendable
  BY <1>1 DEF Sendable
<1> QED BY <1>1, <1>2, <1>3, SendingIInv

LEMMA PlainFileIInv == IInv /\ PlainFile => IInv'
<1> SUFFICES ASSUME IInv, PlainFile PROVE IInv'
  OBVIOUS
<1>1. /\ FileOpen /\ ~IsDir /\ pc' = "header"
      /\ UNCHANGED <<conn, said, want, got, followed, queue, cur, method, path, used, dirs>>
  BY DEF PlainFile, FileOpen, clients, locals
<1>2. /\ dirs' \in Nat /\ dirs <= dirs' /\ dirs' < Limit
      /\ used' \in Nat /\ used' - 2 = dirs' /\ used' <= Limit
      /\ conn' \in [Client -> {"idle", "open", "left", "reset"}]
  BY <1>1, OpenFacts, CurFacts DEF IInv, TypeOK
<1>3. Sendable
  BY <1>1 DEF Sendable
<1> QED BY <1>1, <1>2, <1>3, SendingIInv

LEMMA SendPartIInv ==
  ASSUME IInv, pc \in {"header", "body"}, NEW next \in {"body", "close"}, SendPart(next),
         UNCHANGED got
  PROVE  IInv'
<1>1. /\ FileOpen /\ pc' \in {"header", "body", "close"}
      /\ UNCHANGED <<said, want, got, followed, queue, cur, method, path, used, dirs>>
      /\ \/ conn[cur] = "left" /\ \E r \in {"left", "reset"} : conn' = [conn EXCEPT ![cur] = r]
         \/ conn' = conn
  BY DEF SendPart, FileOpen, locals
<1>2. cur \in Client /\ conn \in [Client -> {"idle", "open", "left", "reset"}]
  BY DEF IInv, TypeOK
<1>3. /\ conn' \in [Client -> {"idle", "open", "left", "reset"}]
      /\ \A c \in Client : /\ conn'[c] = "idle" <=> conn[c] = "idle"
                           /\ conn'[c] = "open" <=> conn[c] = "open"
  BY <1>1, <1>2
<1>4. /\ dirs' \in Nat /\ dirs <= dirs' /\ dirs' < Limit
      /\ used' \in Nat /\ used' - 2 = dirs' /\ used' <= Limit
  BY <1>1, OpenFacts, CurFacts
<1>5. Sendable
  BY DEF IInv, RequestInHand, Sendable
<1> QED BY <1>1, <1>3, <1>4, <1>5, SendingIInv

LEMMA SendIInv == IInv /\ (SendHeader \/ SendBody) => IInv'
<1> SUFFICES ASSUME IInv, SendHeader \/ SendBody PROVE IInv'
  OBVIOUS
<1>1. pc \in {"header", "body"} /\ Busy
  BY DEF SendHeader, SendBody, Busy
<1>2. CASE Kills
  BY <1>1, <1>2, KillsIInv
<1>3. CASE \E next \in {"body", "close"} : SendPart(next) /\ UNCHANGED got
  BY <1>1, <1>3, SendPartIInv
<1> QED BY <1>2, <1>3 DEF SendHeader, SendBody

LEMMA FinishIInv == IInv /\ Finish => IInv'
<1> SUFFICES ASSUME IInv, Finish PROVE IInv'
  OBVIOUS
<1>1. FileOpen /\ Answer("200", used - 2) /\ UNCHANGED dirs
  BY DEF Finish, FileOpen, ClosedAtEnd
<1>2. used - 2 = dirs' /\ dirs' \in Nat /\ dirs <= dirs' /\ dirs' < Limit
  BY <1>1, OpenFacts, CurFacts
<1>3. IsDir => path.slash /\ path.name \in Indexed
  BY DEF IInv, RequestInHand, Finish
<1>4. said[cur] = "all" => "200" = Expected(want[cur])
  BY <1>1, <1>3, OpenFacts
<1> QED BY <1>1, <1>2, <1>4, OpenFacts, AnswerIInv DEF Code

-----------------------------------------------------------------------------
\* Every event of the server and of its clients keeps the invariant.
LEMMA NextIInv == IInv /\ [Next]_vars => IInv'
<1> SUFFICES ASSUME IInv, [Next]_vars PROVE IInv'
  OBVIOUS
<1>1. CASE Server
  BY <1>1, AcceptIInv, RecvFailsIInv, RecvIInv, NotImplementedIInv, NotFoundIInv, OpenIInv,
     RedirectIInv, ForbiddenIInv, OpenIndexIInv, PlainFileIInv, SendIInv, FinishIInv DEF Server
<1>2. ASSUME NEW k \in Client, Connect(k) \/ Follow(k) \/ Speak(k) PROVE IInv'
  BY <1>2, ConnectIInv, FollowIInv, SpeakIInv
<1>3. CASE UNCHANGED vars
  BY <1>3 DEF vars, clients, locals, IInv, TypeOK, ConnectionsHeld, DescriptorsAccounted,
     RequestInHand, FollowsToDir, AnswerDeserved, Waiting, Busy, FileOpen, Exists, IsDir
<1> QED BY <1>1, <1>2, <1>3 DEF Next

\* The inductive invariant holds in every reachable state: no connection is lost
\* or kept, and no descriptor is leaked but by an answer about a directory.
THEOREM Invariance == Spec => []IInv
BY InitIInv, NextIInv, PTL DEF Spec

\* A request that has come whole gets the answer it deserves, whatever was asked
\* before it, until the descriptors have run out.
THEOREM AnswersDeserved == Spec => []AnswerDeserved
<1>1. IInv => AnswerDeserved
  BY DEF IInv
<1> QED BY <1>1, Invariance, PTL

\* What a 301 sends a client to is there.
THEOREM RedirectsFind == Spec => []RedirectFinds
<1>1. IInv => RedirectFinds
  <2> SUFFICES ASSUME IInv, NEW k \in Client, followed[k], said[k] = "all",
                      Decoded[want[k].path.name] = want[k].path.name, got[k] # "none"
               PROVE  \/ got[k] = IF want[k].path.name \in Indexed THEN "200" ELSE "403"
                      \/ got[k] \in {"403", "404"} /\ dirs >= Limit - 1
    BY DEF RedirectFinds
  <2> DEFINE w == want[k]
             q == Resolved(w.path)
  <2>1. /\ w.path \in Path /\ w.method = "GET" /\ w.path.slash /\ w.path.query = "none"
        /\ w.path.name \in Name /\ Kind[w.path.name] = "dir"
    BY DEF IInv, TypeOK, FollowsToDir
  <2>2. w.path.name # "root" /\ Kept(w.path)
    BY <2>1, ParameterAssumption DEF Kept
  <2>3. q.name = w.path.name /\ q.slash
    BY <2>1, <2>2, ResolvedProperties
  <2>4. Expected(w) = IF w.path.name \in Indexed THEN "200" ELSE "403"
    BY <2>1, <2>3, ExpectedProperties
  <2> QED BY <2>4 DEF IInv, AnswerDeserved
<1> QED BY <1>1, Invariance, PTL

-----------------------------------------------------------------------------
\* urldecode, and urlEncode which makes what it decodes.

\* What "%%%02X" prints of a byte has three bytes.
LEMMA EscapeProperties ==
  ASSUME NEW c \in 1..255
  PROVE  Escape(c) \in Seq(Byte) /\ Len(Escape(c)) = 3
<1>1. c \div 16 \in 0..15 /\ c % 16 \in 0..15
  OBVIOUS
<1>2. \A n \in 0..15 : HexDigit(n) \in Byte
  BY DEF HexDigit, Byte
<1>3. HexDigit(c \div 16) \in Byte /\ HexDigit(c % 16) \in Byte /\ Percent \in Byte
  BY <1>1, <1>2 DEF Percent, Byte
<1> QED BY <1>3 DEF Escape

\* Two hexadecimal digits make a byte.
LEMMA ValueIsByte ==
  ASSUME NEW s \in Seq(Byte), NEW k \in Nat \ {0}, IsEscape(s, k)
  PROVE  Value(s, k) \in Byte /\ k + 2 <= Len(s)
<1>1. /\ k + 1 \in 1..Len(s) /\ k + 2 \in 1..Len(s) /\ IsHex(s[k+1]) /\ IsHex(s[k+2])
  BY DEF IsEscape
<1>2. \A c \in Byte : IsHex(c) => hex_to_dec(c) \in 0..15
  BY DEF IsHex, hex_to_dec, Digit, Byte
<1>3. s[k+1] \in Byte /\ s[k+2] \in Byte
  BY <1>1, ElementOfSeq
<1>4. hex_to_dec(s[k+1]) \in 0..15 /\ hex_to_dec(s[k+2]) \in 0..15
  BY <1>1, <1>2, <1>3
<1>5. \A x, y \in 0..15 : x * 16 + y \in 0..255
  OBVIOUS
<1>6. Value(s, k) \in Byte
  BY <1>4, <1>5 DEF Value, Byte
<1> QED BY <1>6 DEF IsEscape

LEMMA InitCodec == CodecInit => DecodesInPlace
<1> SUFFICES ASSUME CodecInit PROVE DecodesInPlace
  OBVIOUS
<1>1. str \in Seq(Char)
  <2>1. PICK n \in 0..MaxLen : str \in [1..n -> Char]
    BY DEF CodecInit
  <2>2. n \in Nat
    BY CharAssumption
  <2> QED BY <2>1, <2>2
<1>2. Len(str) \in Nat /\ <<>> \in Seq(Byte) /\ Len(<<>>) = 0
  BY <1>1
<1> QED BY <1>1, <1>2 DEF CodecInit, DecodesInPlace, CodecTypeOK, EncodedFits, ReadsAhead, Room

\* A byte of the password takes one byte or three of what malloc gave.
LEMMA EncodeCharFits == DecodesInPlace /\ EncodeChar => DecodesInPlace'
<1> SUFFICES ASSUME DecodesInPlace, EncodeChar PROVE DecodesInPlace'
  OBVIOUS
<1> DEFINE c     == str[index+1]
           added == IF needsEncoding(c) THEN Escape(c) ELSE <<c>>
<1>1. /\ str \in Seq(Char) /\ Len(str) \in Nat /\ index \in Nat /\ index + 1 \in 1..Len(str)
      /\ encodedStr \in Seq(Byte) /\ Len(encodedStr) \in Nat
  BY DEF DecodesInPlace, CodecTypeOK, EncodeChar
<1>2. c \in 1..255
  <2>1. c \in Char
    BY <1>1, ElementOfSeq
  <2> QED BY <2>1, CharAssumption
<1>3. added \in Seq(Byte) /\ Len(added) \in 1..3
  <2>1. c \in Byte
    BY <1>2 DEF Byte
  <2>2. <<c>> \in Seq(Byte) /\ Len(<<c>>) = 1
    BY <2>1
  <2>3. Escape(c) \in Seq(Byte) /\ Len(Escape(c)) = 3
    BY <1>2, EscapeProperties
  <2> QED BY <2>2, <2>3
<1>4. /\ encodedStr' = encodedStr \o added /\ index' = index + 1 /\ codecMode' = "encode"
      /\ UNCHANGED <<str, buf, url, pos>>
  BY DEF EncodeChar
<1>5. encodedStr' \in Seq(Byte) /\ Len(encodedStr') = Len(encodedStr) + Len(added)
  <2> HIDE DEF added
  <2> QED BY <1>1, <1>3, <1>4, ConcatProperties
<1>6. (CodecTypeOK /\ index <= Len(str) /\ ReadsAhead)'
  BY <1>1, <1>4, <1>5 DEF DecodesInPlace, CodecTypeOK, ReadsAhead
<1>7. EncodedFits'
  <2>1. Len(encodedStr) + 3 * (Len(str) - index) + 1 <= 3 * Len(str) + 1
    BY DEF DecodesInPlace, EncodedFits, Room
  <2>2. \A e, l, i \in Nat, a \in 1..3 : e + 3 * (l - i) + 1 <= 3 * l + 1
                                     => e + a + 3 * (l - (i + 1)) + 1 <= 3 * l + 1
    OBVIOUS
  <2> HIDE DEF added
  <2>3. Len(encodedStr) + Len(added) + 3 * (Len(str) - (index + 1)) + 1 <= 3 * Len(str) + 1
    BY <1>1, <1>3, <2>1, <2>2
  <2> QED BY <1>4, <1>5, <2>3 DEF EncodedFits, Room
<1> QED BY <1>6, <1>7 DEF DecodesInPlace

\* Writing at pos leaves what is behind url as it was.
LEMMA DecodeStep ==
  ASSUME DecodesInPlace, codecMode = "decode", NEW b \in Byte, NEW n \in 1..3,
         url + n <= Len(buf),
         buf' = [buf EXCEPT ![pos+1] = b], pos' = pos + 1, url' = url + n,
         UNCHANGED <<str, index, encodedStr, codecMode>>
  PROVE  DecodesInPlace'
<1>1. /\ buf \in Seq(Byte) /\ url \in Nat /\ pos \in Nat /\ pos <= url /\ Len(buf) \in Nat
      /\ Len(buf) = Len(encodedStr) /\ \A k \in url+1..Len(buf) : buf[k] = encodedStr[k]
  BY DEF DecodesInPlace, CodecTypeOK, ReadsAhead
<1>2. buf' \in Seq(Byte) /\ Len(buf') = Len(buf) /\ \A k \in 1..Len(buf) : k # pos+1 => buf'[k] = buf[k]
  BY <1>1
<1>3. \A k \in url+n+1..Len(buf) : k \in url+1..Len(buf) /\ k \in 1..Len(buf) /\ k # pos+1
  BY <1>1
<1>4. url' \in Nat /\ pos' \in Nat /\ pos' <= url' /\ url' <= Len(buf)
  BY <1>1
<1>5. ReadsAhead'
  BY <1>1, <1>2, <1>3, <1>4 DEF ReadsAhead
<1>6. CodecTypeOK' /\ index' <= Len(str')
  BY <1>2, <1>4 DEF DecodesInPlace, CodecTypeOK
<1>7. EncodedFits'
  BY DEF DecodesInPlace, EncodedFits, Room
<1> QED BY <1>5, <1>6, <1>7 DEF DecodesInPlace

LEMMA NextCodec == DecodesInPlace /\ [CodecNext]_codecVars => DecodesInPlace'
<1> SUFFICES ASSUME DecodesInPlace, [CodecNext]_codecVars PROVE DecodesInPlace'
  OBVIOUS
<1>0. buf \in Seq(Byte) /\ url \in Nat /\ pos \in Nat /\ Len(buf) \in Nat
  BY DEF DecodesInPlace, CodecTypeOK
<1>1. CASE EncodeChar
  BY <1>1, EncodeCharFits
<1>2. CASE Encoded
  <2>1. /\ buf' = encodedStr /\ url' = 0 /\ pos' = 0 /\ codecMode' = "decode"
        /\ UNCHANGED <<str, index, encodedStr>>
        /\ encodedStr \in Seq(Byte) /\ Len(encodedStr) \in Nat
    BY <1>2 DEF Encoded, DecodesInPlace, CodecTypeOK
  <2>2. CodecTypeOK' /\ index' <= Len(str') /\ ReadsAhead'
    BY <2>1 DEF DecodesInPlace, CodecTypeOK, ReadsAhead
  <2>3. EncodedFits'
    BY <2>1 DEF DecodesInPlace, EncodedFits, Room
  <2> QED BY <2>2, <2>3 DEF DecodesInPlace
<1>3. CASE DecodeEscape
  <2>1. Value(buf, url + 1) \in Byte /\ url + 3 <= Len(buf)
    <3>1. url + 1 \in Nat \ {0} /\ url + 1 + 2 = url + 3
      BY <1>0
    <3> QED BY <1>0, <1>3, <3>1, ValueIsByte DEF DecodeEscape
  <2>2. /\ codecMode = "decode" /\ buf' = [buf EXCEPT ![pos+1] = Value(buf, url + 1)]
        /\ pos' = pos + 1 /\ url' = url + 3
        /\ UNCHANGED <<str, index, encodedStr, codecMode>>
    BY <1>3 DEF DecodeEscape, WriteAt, EscapeLength
  <2>3. 3 \in 1..3
    OBVIOUS
  <2> QED BY <2>1, <2>2, <2>3, DecodeStep
<1>4. CASE Copy
  <2>1. buf[url+1] \in Byte /\ url + 1 <= Len(buf)
    BY <1>0, <1>4 DEF Copy
  <2>2. /\ codecMode = "decode" /\ buf' = [buf EXCEPT ![pos+1] = buf[url+1]]
        /\ pos' = pos + 1 /\ url' = url + 1
        /\ UNCHANGED <<str, index, encodedStr, codecMode>>
    BY <1>4 DEF Copy, WriteAt
  <2>3. 1 \in 1..3
    OBVIOUS
  <2> QED BY <2>1, <2>2, <2>3, DecodeStep
<1>5. CASE Terminate
  <2>1. /\ buf' = SubSeq(buf, 1, pos) /\ codecMode' = "done"
        /\ UNCHANGED <<str, index, encodedStr, url, pos>> /\ pos <= Len(buf)
    BY <1>0, <1>5 DEF Terminate, DecodesInPlace, ReadsAhead
  <2>2. buf' \in Seq(Byte)
    <3>1. SubSeq(buf, 1, pos) = [i \in 1..pos |-> buf[i]] /\ \A i \in 1..pos : buf[i] \in Byte
      BY <1>0, <2>1
    <3> QED BY <1>0, <2>1, <3>1
  <2>3. CodecTypeOK' /\ index' <= Len(str') /\ ReadsAhead'
    BY <2>1, <2>2 DEF DecodesInPlace, CodecTypeOK, ReadsAhead
  <2>4. EncodedFits'
    BY <2>1 DEF DecodesInPlace, EncodedFits, Room
  <2> QED BY <2>3, <2>4 DEF DecodesInPlace
<1>6. CASE UNCHANGED codecVars
  BY <1>6 DEF codecVars, DecodesInPlace, CodecTypeOK, EncodedFits, ReadsAhead, Room
<1> QED BY <1>1, <1>2, <1>3, <1>4, <1>5, <1>6 DEF CodecNext

\* For strings of any bytes and any length urlEncode writes no more than malloc gave
\* it, and urldecode, which works in place, never overtakes its own reading.
THEOREM CodecStaysInBounds == CodecSpec => []DecodesInPlace
BY InitCodec, NextCodec, PTL DEF CodecSpec

-----------------------------------------------------------------------------
\* What comes back from encoding and decoding.

LEMMA OneToN ==
  ASSUME NEW n \in Nat
  PROVE  IsFiniteSet(1..n) /\ Cardinality(1..n) = n
<1>1. IsFiniteSet(1..n) /\ Cardinality(1..n) = IF 1 > n THEN 0 ELSE n - 1 + 1
  BY FS_Interval
<1> QED BY <1>1

\* How many of the numbers from 1 to n are in S.
Count(S, n) == Cardinality(S \cap (1..n))

LEMMA CountProperties ==
  ASSUME NEW S, NEW n \in Nat
  PROVE  /\ IsFiniteSet(S \cap (1..n))
         /\ Count(S, n) \in Nat /\ Count(S, n) <= n
         /\ n+1 \in S => Count(S, n+1) = Count(S, n) + 1
         /\ n+1 \notin S => Count(S, n+1) = Count(S, n)
<1>1. IsFiniteSet(1..n) /\ Cardinality(1..n) = n
  BY OneToN
<1>2. S \cap (1..n) \in SUBSET (1..n)
  OBVIOUS
<1>3. /\ IsFiniteSet(S \cap (1..n)) /\ Cardinality(S \cap (1..n)) <= n
      /\ Cardinality(S \cap (1..n)) \in Nat
  BY <1>1, <1>2, FS_Subset, FS_CardinalityType
<1>4. 1..n+1 = (1..n) \cup {n+1} /\ n+1 \notin 1..n
  OBVIOUS
<1>5. CASE n+1 \in S
  <2>1. S \cap (1..n+1) = (S \cap (1..n)) \cup {n+1} /\ n+1 \notin S \cap (1..n)
    BY <1>4, <1>5
  <2>2. Cardinality(S \cap (1..n+1)) = Cardinality(S \cap (1..n)) + 1
    BY <1>3, <2>1, FS_AddElement
  <2> QED BY <1>3, <1>5, <2>2 DEF Count
<1>6. CASE n+1 \notin S
  <2>1. S \cap (1..n+1) = S \cap (1..n)
    BY <1>4, <1>6
  <2> QED BY <1>3, <1>6, <2>1 DEF Count
<1> QED BY <1>5, <1>6

LEMMA CountGrows ==
  ASSUME NEW S, NEW m \in Nat, NEW n \in Nat, m <= n
  PROVE  Count(S, m) <= Count(S, n)
<1>1. IsFiniteSet(S \cap (1..n))
  BY CountProperties
<1>2. S \cap (1..m) \in SUBSET (S \cap (1..n))
  OBVIOUS
<1> QED BY <1>1, <1>2, FS_Subset DEF Count

\* The images of 1..n under an injection are n.
LEMMA CountImage ==
  ASSUME NEW S, NEW n \in Nat, NEW f \in [1..n -> S],
         \A k, l \in 1..n : f[k] = f[l] => k = l,
         \A x \in S : \E k \in 1..n : f[k] = x
  PROVE  IsFiniteSet(S) /\ Cardinality(S) = n
<1>1. IsFiniteSet(1..n) /\ Cardinality(1..n) = n
  BY OneToN
<1>2. f \in Injection(1..n, S)
  BY DEF Injection, IsInjective
<1>3. f \in Surjection(1..n, S)
  BY DEF Surjection
<1>4. IsFiniteSet(S) /\ (Cardinality(S) = Cardinality(1..n) <=> f \in Injection(1..n, S))
  BY <1>1, <1>3, FS_Surjection
<1> QED BY <1>1, <1>2, <1>4

-----------------------------------------------------------------------------
\* Where the bytes of str go.

Special == {l \in 1..Len(str) : needsEncoding(str[l])}

LEMMA PlacesKnown ==
  ASSUME str \in Seq(Char)
  PROVE  /\ EncodedAt(1) = 1
         /\ \A k \in 1..Len(str)+1 : EncodedAt(k) = k + 2 * Count(Special, k-1)
<1>1. Len(str) \in Nat
  BY LenProperties
<1>2. ASSUME NEW k \in 1..Len(str)+1 PROVE EncodedAt(k) = k + 2 * Count(Special, k-1)
  <2>1. {l \in 1..k-1 : needsEncoding(str[l])} = Special \cap (1..k-1)
    BY <1>1 DEF Special
  <2> QED BY <2>1 DEF EncodedAt, Count
<1>3. EncodedAt(1) = 1
  <2>1. {l \in 1..1-1 : needsEncoding(str[l])} = {}
    OBVIOUS
  <2>2. Cardinality({l \in 1..1-1 : needsEncoding(str[l])}) = 0
    BY <2>1, FS_EmptySet
  <2> QED BY <2>2 DEF EncodedAt
<1> QED BY <1>2, <1>3

LEMMA NextPlace ==
  ASSUME str \in Seq(Char), NEW k \in 1..Len(str)
  PROVE  /\ EncodedAt(k) \in Nat /\ EncodedAt(k) >= k
         /\ EncodedAt(k+1) \in Nat
         /\ needsEncoding(str[k]) => EncodedAt(k+1) = EncodedAt(k) + 3
         /\ ~needsEncoding(str[k]) => EncodedAt(k+1) = EncodedAt(k) + 1
<1>1. Len(str) \in Nat
  BY LenProperties
<1>2. PICK m \in Nat : m + 1 = k /\ m = k - 1
  BY <1>1
<1>3. /\ Count(Special, m) \in Nat
      /\ k \in Special => Count(Special, k) = Count(Special, m) + 1
      /\ k \notin Special => Count(Special, k) = Count(Special, m)
  BY <1>2, CountProperties
<1>4. EncodedAt(k) = k + 2 * Count(Special, m)
  <2>1. k \in 1..Len(str)+1
    BY <1>1
  <2> QED BY <1>2, <2>1, PlacesKnown
<1>5. EncodedAt(k+1) = k + 1 + 2 * Count(Special, k)
  <2>1. k+1 \in 1..Len(str)+1 /\ k + 1 - 1 = k
    BY <1>1
  <2> QED BY <2>1, PlacesKnown
<1>6. k \in Special <=> needsEncoding(str[k])
  BY DEF Special
<1>7. PICK q \in Nat : q = Count(Special, m)
  BY <1>3
<1>8. k \in Nat
  OBVIOUS
<1>9. CASE k \in Special
  <2>1. EncodedAt(k) = k + 2 * q /\ EncodedAt(k+1) = k + 1 + 2 * (q + 1)
    BY <1>3, <1>4, <1>5, <1>7, <1>9
  <2> QED BY <1>6, <1>8, <1>9, <2>1
<1>10. CASE k \notin Special
  <2>1. EncodedAt(k) = k + 2 * q /\ EncodedAt(k+1) = k + 1 + 2 * q
    BY <1>3, <1>4, <1>5, <1>7, <1>10
  <2> QED BY <1>6, <1>8, <1>10, <2>1
<1> QED BY <1>9, <1>10

LEMMA PlacesInOrder ==
  ASSUME str \in Seq(Char), NEW k \in 1..Len(str), NEW l \in 1..Len(str)+1, k < l
  PROVE  EncodedAt(k+1) <= EncodedAt(l) /\ EncodedAt(k) < EncodedAt(l) /\ EncodedAt(l) \in Nat
<1>1. Len(str) \in Nat
  BY LenProperties
<1>2. PICK m \in Nat : m + 1 = l /\ m = l - 1 /\ k <= m
  BY <1>1
<1>3. /\ Count(Special, k) \in Nat /\ Count(Special, m) \in Nat
      /\ Count(Special, k) <= Count(Special, m)
  <2>1. k \in Nat
    OBVIOUS
  <2>2. Count(Special, k) \in Nat /\ Count(Special, m) \in Nat
    BY <2>1, CountProperties
  <2>3. Count(Special, k) <= Count(Special, m)
    BY <1>2, <2>1, CountGrows
  <2> QED BY <2>2, <2>3
<1>4. EncodedAt(l) = l + 2 * Count(Special, m)
  BY <1>2, PlacesKnown
<1>5. EncodedAt(k+1) = k + 1 + 2 * Count(Special, k)
  <2>1. k+1 \in 1..Len(str)+1 /\ k + 1 - 1 = k
    BY <1>1
  <2> QED BY <2>1, PlacesKnown
<1>6. PICK p \in Nat : p = Count(Special, k)
  BY <1>3
<1>7. PICK q \in Nat : q = Count(Special, m)
  BY <1>3
<1>8. k + 1 + 2 * p <= l + 2 * q /\ l + 2 * q \in Nat
  BY <1>2, <1>3, <1>6, <1>7
<1>9. EncodedAt(k+1) <= EncodedAt(l) /\ EncodedAt(l) \in Nat
  BY <1>4, <1>5, <1>6, <1>7, <1>8
<1>10. EncodedAt(k) \in Nat /\ EncodedAt(k+1) \in Nat /\ EncodedAt(k) < EncodedAt(k+1)
  BY NextPlace
<1> QED BY <1>9, <1>10

\* A hexadecimal digit is what hex_to_dec takes it for, and no '%'.
LEMMA DigitProperties ==
  ASSUME NEW m \in 0..15
  PROVE  /\ HexDigit(m) \in Byte /\ IsHex(HexDigit(m)) /\ HexDigit(m) # Percent
         /\ hex_to_dec(HexDigit(m)) = m
<1>1. CASE m < 10
  <2>1. HexDigit(m) = 48 + m /\ 48 + m \in 48..57
    BY <1>1 DEF HexDigit
  <2> QED BY <1>1, <2>1 DEF IsHex, hex_to_dec, Digit, Byte, Percent
<1>2. CASE m >= 10
  <2>1. HexDigit(m) = 65 + m - 10 /\ 65 + m - 10 \in 65..70
    BY <1>2 DEF HexDigit
  <2>2. 65 + m - 10 \notin 48..57 /\ 65 + m - 10 \notin 97..102
    BY <2>1
  <2> QED BY <1>2, <2>1, <2>2 DEF IsHex, hex_to_dec, Digit, Byte, Percent
<1> QED BY <1>1, <1>2

LEMMA HalvesOfByte ==
  ASSUME NEW c \in 1..255
  PROVE  c \div 16 \in 0..15 /\ c % 16 \in 0..15 /\ (c \div 16) * 16 + (c % 16) = c
OBVIOUS

\* What is added for one byte of str, and where.
Added(c) == IF needsEncoding(c) THEN Escape(c) ELSE <<c>>

LEMMA AddedProperties ==
  ASSUME NEW c \in 1..255
  PROVE  /\ Added(c) \in Seq(Byte)
         /\ needsEncoding(c) => /\ Len(Added(c)) = 3 /\ Added(c)[1] = Percent
                                /\ Added(c)[2] = HexDigit(c \div 16) /\ Added(c)[3] = HexDigit(c % 16)
         /\ ~needsEncoding(c) => Len(Added(c)) = 1 /\ Added(c)[1] = c
<1>1. CASE needsEncoding(c)
  <2>1. Escape(c) \in Seq(Byte) /\ Len(Escape(c)) = 3
    BY EscapeProperties
  <2>2. Escape(c)[1] = Percent /\ Escape(c)[2] = HexDigit(c \div 16) /\ Escape(c)[3] = HexDigit(c % 16)
    BY DEF Escape
  <2> QED BY <1>1, <2>1, <2>2 DEF Added
<1>2. CASE ~needsEncoding(c)
  <2>1. c \in Byte
    BY DEF Byte
  <2>2. <<c>> \in Seq(Byte) /\ Len(<<c>>) = 1 /\ <<c>>[1] = c
    BY <2>1
  <2> QED BY <1>2, <2>2 DEF Added
<1> QED BY <1>1, <1>2

\* A byte that stands in s stands in what s begins.
LEMMA StillStands ==
  ASSUME NEW s, NEW t, NEW e \in Nat \ {0}, NEW c, NEW m \in Nat,
         \A p \in 1..m : t[p] = s[p],
         e <= m, needsEncoding(c) => e + 2 <= m, Stands(s, e, c)
  PROVE  Stands(t, e, c)
<1>1. CASE needsEncoding(c)
  <2>1. e \in 1..m /\ e+1 \in 1..m /\ e+2 \in 1..m
    BY <1>1
  <2> QED BY <1>1, <2>1 DEF Stands
<1>2. CASE ~needsEncoding(c)
  <2>1. e \in 1..m
    OBVIOUS
  <2> QED BY <1>2, <2>1 DEF Stands
<1> QED BY <1>1, <1>2

LEMMA EncodeCharPlaces ==
  ASSUME DecodesInPlace, EncodedSoFar, EncodeChar
  PROVE  EncodedSoFar'
<1>1. /\ str \in Seq(Char) /\ Len(str) \in Nat /\ index \in Nat /\ index + 1 \in 1..Len(str)
      /\ encodedStr \in Seq(Byte)
  BY DEF DecodesInPlace, CodecTypeOK, EncodeChar
<1>2. PICK n \in 1..Len(str) : n = index + 1
  BY <1>1
<1>3. PICK c \in 1..255 : c = str[n]
  BY <1>1, ElementOfSeq, CharAssumption
<1>4. /\ encodedStr' = encodedStr \o Added(c) /\ index' = n /\ str' = str
      /\ \A k : EncodedAt(k)' = EncodedAt(k)
  BY <1>2, <1>3 DEF EncodeChar, Added, EncodedAt
<1>5. PICK e \in Nat : e = EncodedAt(n) /\ e >= n
  BY <1>1, NextPlace
<1>6. /\ EncodedAt(n+1) \in Nat
      /\ needsEncoding(c) => EncodedAt(n+1) = e + 3
      /\ ~needsEncoding(c) => EncodedAt(n+1) = e + 1
  BY <1>1, <1>3, <1>5, NextPlace
<1>7. Len(encodedStr) = e - 1 /\ e \in Nat \ {0} /\ e - 1 \in Nat
  BY <1>2, <1>5 DEF EncodedSoFar
<1>8. PICK t \in Seq(Byte) : t = Added(c)
  BY AddedProperties
<1>9. /\ encodedStr' \in Seq(Byte)
      /\ Len(encodedStr') = e - 1 + Len(t)
      /\ \A p \in 1..e-1+Len(t) : encodedStr'[p] = IF p <= e-1 THEN encodedStr[p] ELSE t[p-(e-1)]
  <2>1. /\ encodedStr \o t \in Seq(Byte) /\ Len(encodedStr \o t) = Len(encodedStr) + Len(t)
        /\ \A p \in 1..Len(encodedStr)+Len(t) :
             (encodedStr \o t)[p] = IF p <= Len(encodedStr) THEN encodedStr[p] ELSE t[p-Len(encodedStr)]
    BY <1>1, ConcatProperties
  <2> QED BY <1>4, <1>7, <1>8, <2>1
<1>10. /\ needsEncoding(c) => /\ Len(t) = 3 /\ t[1] = Percent
                              /\ t[2] = HexDigit(c \div 16) /\ t[3] = HexDigit(c % 16)
       /\ ~needsEncoding(c) => Len(t) = 1 /\ t[1] = c
  BY <1>8, AddedProperties
<1>11. \A p \in 1..e-1 : encodedStr'[p] = encodedStr[p]
  <2> SUFFICES ASSUME NEW p \in 1..e-1 PROVE encodedStr'[p] = encodedStr[p]
    OBVIOUS
  <2>1. p \in 1..e-1+Len(t) /\ p <= e-1
    BY <1>7, <1>8, LenProperties
  <2> QED BY <1>9, <2>1
<1>12. /\ needsEncoding(c) => Len(encodedStr') = e + 2
       /\ ~needsEncoding(c) => Len(encodedStr') = e
  <2>1. PICK x \in Nat : x = Len(encodedStr')
    BY <1>9, LenProperties
  <2>2. PICK y \in Nat : y = Len(t)
    BY <1>8, LenProperties
  <2>3. x = e - 1 + y
    BY <1>9, <2>1, <2>2
  <2>4. (y = 3 => x = e + 2) /\ (y = 1 => x = e)
    BY <1>7, <2>3
  <2> QED BY <1>10, <2>1, <2>2, <2>4
<1>13. Stands(encodedStr', e, c)
  <2>1. CASE needsEncoding(c)
    <3>1. Len(t) = 3
      BY <1>10, <2>1
    <3>2. /\ e \in 1..e-1+3 /\ e+1 \in 1..e-1+3 /\ e+2 \in 1..e-1+3
          /\ ~(e <= e-1) /\ ~(e+1 <= e-1) /\ ~(e+2 <= e-1)
          /\ e-(e-1) = 1 /\ e+1-(e-1) = 2 /\ e+2-(e-1) = 3
      BY <1>7
    <3>3. encodedStr'[e] = t[1] /\ encodedStr'[e+1] = t[2] /\ encodedStr'[e+2] = t[3]
      BY <1>9, <3>1, <3>2
    <3> QED BY <1>10, <2>1, <3>3 DEF Stands
  <2>2. CASE ~needsEncoding(c)
    <3>1. Len(t) = 1
      BY <1>10, <2>2
    <3>2. e \in 1..e-1+1 /\ ~(e <= e-1) /\ e-(e-1) = 1
      BY <1>7
    <3>3. encodedStr'[e] = t[1]
      BY <1>9, <3>1, <3>2
    <3> QED BY <1>10, <2>2, <3>3 DEF Stands
  <2> QED BY <2>1, <2>2
<1>14. ASSUME NEW k \in 1..n PROVE Stands(encodedStr', EncodedAt(k), str[k])
  <2>1. CASE k = n
    BY <1>3, <1>5, <1>13, <2>1
  <2>2. CASE k < n
    <3>1. k \in 1..Len(str) /\ k \in 1..index /\ n \in 1..Len(str)+1
      BY <1>1, <1>2, <2>2
    <3>2. PICK d \in Nat : d = EncodedAt(k) /\ d >= k
      BY <1>1, <3>1, NextPlace
    <3>3. /\ EncodedAt(k+1) \in Nat
          /\ needsEncoding(str[k]) => EncodedAt(k+1) = d + 3
          /\ ~needsEncoding(str[k]) => EncodedAt(k+1) = d + 1
      BY <1>1, <3>1, <3>2, NextPlace
    <3>4. EncodedAt(k+1) <= e
      BY <1>1, <1>5, <2>2, <3>1, PlacesInOrder
    <3>5. d \in Nat \ {0} /\ d <= e-1 /\ (needsEncoding(str[k]) => d + 2 <= e-1)
      BY <3>2, <3>3, <3>4
    <3>6. Stands(encodedStr, d, str[k])
      BY <3>1, <3>2 DEF EncodedSoFar
    <3> QED BY <1>7, <1>11, <3>2, <3>5, <3>6, StillStands
  <2> QED BY <2>1, <2>2
<1>15. ASSUME NEW p \in 1..Len(encodedStr')
       PROVE  \E k \in 1..n : \/ p = EncodedAt(k)
                              \/ needsEncoding(str[k]) /\ p \in EncodedAt(k)+1..EncodedAt(k)+2
  <2>1. CASE p <= e-1
    <3>1. p \in 1..Len(encodedStr)
      BY <1>7, <2>1
    <3>2. PICK k \in 1..index : \/ p = EncodedAt(k)
                                \/ needsEncoding(str[k]) /\ p \in EncodedAt(k)+1..EncodedAt(k)+2
      BY <3>1 DEF EncodedSoFar
    <3>3. k \in 1..n
      BY <1>1, <1>2
    <3> QED BY <3>2, <3>3
  <2>2. CASE ~(p <= e-1)
    <3>1. CASE needsEncoding(c)
      <4>1. Len(encodedStr') = e + 2
        BY <1>12, <3>1
      <4>2. p = e \/ p \in e+1..e+2
        BY <1>7, <2>2, <4>1
      <4> QED BY <1>3, <1>5, <3>1, <4>2
    <3>2. CASE ~needsEncoding(c)
      <4>1. Len(encodedStr') = e
        BY <1>12, <3>2
      <4>2. p = e
        BY <1>7, <2>2, <4>1
      <4> QED BY <1>5, <4>2
    <3> QED BY <3>1, <3>2
  <2> QED BY <2>1, <2>2
<1>16. Len(encodedStr') = EncodedAt(n+1) - 1
  <2>1. CASE needsEncoding(c)
    <3>1. EncodedAt(n+1) - 1 = e + 2
      BY <1>6, <2>1
    <3> QED BY <1>12, <2>1, <3>1
  <2>2. CASE ~needsEncoding(c)
    <3>1. EncodedAt(n+1) - 1 = e
      BY <1>6, <2>2
    <3> QED BY <1>12, <2>2, <3>1
  <2> QED BY <2>1, <2>2
<1> QED BY <1>4, <1>14, <1>15, <1>16 DEF EncodedSoFar

-----------------------------------------------------------------------------
\* What urldecode takes.

\* Neither digit of an escape is the '%' of another.
LEMMA EscapesApart ==
  ASSUME NEW s \in Seq(Byte), NEW k \in Nat \ {0}, IsEscape(s, k)
  PROVE  ~IsEscape(s, k+1) /\ ~IsEscape(s, k+2)
<1>1. ~IsHex(Percent)
  BY DEF IsHex, Digit, Percent
<1> QED BY <1>1 DEF IsEscape

\* The next byte begins behind the one that begins at k.
LEMMA NextBegins ==
  ASSUME NEW s \in Seq(Byte), NEW k \in Begins(s), NEW n \in 1..3,
         n = IF IsEscape(s, k) THEN 3 ELSE 1
  PROVE  /\ k+n <= Len(s) => k+n \in Begins(s)
         /\ \A l \in k+1..k+n-1 : l \notin Begins(s)
<1>1. k \in 1..Len(s) /\ Len(s) \in Nat /\ \A l \in 1..k-1 : IsEscape(s, l) => l + 2 < k
  BY LenProperties DEF Begins
<1>2. CASE IsEscape(s, k)
  <2>1. n = 3
    BY <1>2
  <2>2. ~IsEscape(s, k+1) /\ ~IsEscape(s, k+2)
    BY <1>1, <1>2, EscapesApart
  <2>3. ASSUME NEW l \in 1..k+2, IsEscape(s, l) PROVE l + 2 < k + 3
    <3>1. l \in 1..k-1 \/ l = k \/ l = k+1 \/ l = k+2
      BY <1>1
    <3>2. CASE l \in 1..k-1
      BY <1>1, <2>3, <3>2
    <3>3. CASE l = k
      BY <1>1, <3>3
    <3> QED BY <2>2, <2>3, <3>1, <3>2, <3>3
  <2>4. k+3 <= Len(s) => k+3 \in Begins(s)
    <3>1. k + 3 - 1 = k + 2
      BY <1>1
    <3> QED BY <1>1, <2>3, <3>1 DEF Begins
  <2>5. ASSUME NEW l \in k+1..k+2 PROVE l \notin Begins(s)
    <3>1. k \in 1..l-1 /\ ~(k + 2 < l)
      BY <1>1
    <3> QED BY <1>2, <3>1 DEF Begins
  <2>6. k+n = k+3 /\ k+n-1 = k+2
    BY <1>1, <2>1
  <2> QED BY <2>4, <2>5, <2>6
<1>3. CASE ~IsEscape(s, k)
  <2>1. n = 1
    BY <1>3
  <2>2. ASSUME NEW l \in 1..k, IsEscape(s, l) PROVE l + 2 < k + 1
    <3>1. l # k
      BY <1>3, <2>2
    <3>2. l \in 1..k-1
      BY <1>1, <3>1
    <3>3. l + 2 < k
      BY <1>1, <2>2, <3>2
    <3> QED BY <1>1, <3>3
  <2>3. k+1 <= Len(s) => k+1 \in Begins(s)
    <3>1. k + 1 - 1 = k
      BY <1>1
    <3> QED BY <1>1, <2>2, <3>1 DEF Begins
  <2>4. k+n = k+1 /\ k+n-1 = k
    BY <1>1, <2>1
  <2>5. k+1..k = {}
    BY <1>1
  <2> QED BY <2>3, <2>4, <2>5
<1> QED BY <1>2, <1>3

LEMMA CountOne ==
  ASSUME NEW S, NEW k \in Nat \ {0}, k \in S
  PROVE  Count(S, k) \in Nat /\ Count(S, k) >= 1
<1>1. PICK m \in Nat : m + 1 = k
  <2>1. k - 1 \in Nat /\ (k - 1) + 1 = k
    OBVIOUS
  <2> QED BY <2>1
<1>2. Count(S, m) \in Nat /\ Count(S, k) = Count(S, m) + 1
  BY <1>1, CountProperties
<1> QED BY <1>2

\* As many bytes begin up to k+n-1 as up to k, when none begins in between.
LEMMA CountBetween ==
  ASSUME NEW S, NEW k \in Nat, NEW n \in 1..3, k+1 \in S,
         \A l \in k+1+1..k+1+n-1 : l \notin S
  PROVE  Count(S, k+n) = Count(S, k) + 1
<1>1. Count(S, k+1) = Count(S, k) + 1
  BY CountProperties
<1>2. S \cap (1..k+n) = S \cap (1..k+1)
  <2>1. ASSUME NEW l \in 1..k+n PROVE l \in 1..k+1 \/ l \in k+1+1..k+1+n-1
    OBVIOUS
  <2>2. ASSUME NEW l \in 1..k+1 PROVE l \in 1..k+n
    OBVIOUS
  <2> QED BY <2>1, <2>2
<1> QED BY <1>1, <1>2 DEF Count

LEMMA DecodeTakes ==
  ASSUME DecodesInPlace, DecodedSoFar, codecMode = "decode", url < Len(buf),
         NEW n \in 1..3, n = IF IsEscape(encodedStr, url+1) THEN 3 ELSE 1,
         url + n <= Len(buf),
         buf' = [buf EXCEPT ![pos+1] = ByteAt(encodedStr, url+1)],
         pos' = pos + 1, url' = url + n,
         UNCHANGED <<str, index, encodedStr, codecMode>>
  PROVE  DecodedSoFar'
<1> DEFINE B == Begins(encodedStr)
<1>1. /\ encodedStr \in Seq(Byte) /\ buf \in Seq(Byte) /\ url \in Nat /\ pos \in Nat /\ pos <= url
      /\ Len(buf) = Len(encodedStr) /\ Len(buf) \in Nat
  BY DEF DecodesInPlace, CodecTypeOK, ReadsAhead
<1>2. /\ index = Len(str) /\ pos = Count(B, url) /\ url + 1 \in B
      /\ \A k \in B \cap (1..url) : buf[Count(B, k)] = ByteAt(encodedStr, k)
  BY <1>1 DEF DecodedSoFar, Means, Count
<1>3. PICK u \in B : u = url + 1 /\ u \in Nat \ {0}
  BY <1>1, <1>2
<1>4. /\ u+n <= Len(encodedStr) => u+n \in B
      /\ \A l \in u+1..u+n-1 : l \notin B
  BY <1>1, <1>3, NextBegins
<1> HIDE DEF B
<1>5. Count(B, url+n) = pos + 1 /\ Count(B, u) = pos + 1
  <2>1. Count(B, url+1) = Count(B, url) + 1
    BY <1>1, <1>2, CountProperties
  <2>2. Count(B, url+n) = Count(B, url) + 1
    BY <1>1, <1>2, <1>3, <1>4, CountBetween
  <2> QED BY <1>2, <1>3, <2>1, <2>2
<1>6. ASSUME NEW k \in B, k \in 1..url+n
      PROVE  buf'[Count(B, k)] = ByteAt(encodedStr, k)
  <2>1. k \in 1..url \/ k = u \/ k \in u+1..u+n-1
    BY <1>1, <1>3, <1>6
  <2>2. CASE k \in 1..url
    <3>1. k \in Nat \ {0} /\ k <= url
      BY <1>1, <2>2
    <3>2. Count(B, k) \in Nat /\ Count(B, k) >= 1
      BY <3>1, CountOne
    <3>3. Count(B, k) <= Count(B, url)
      BY <1>1, <3>1, CountGrows
    <3>4. PICK x \in Nat : x = Count(B, k)
      BY <3>2
    <3>5. x \in 1..Len(buf) /\ x # pos + 1
      BY <1>1, <1>2, <3>2, <3>3, <3>4
    <3>6. buf'[x] = buf[x]
      BY <1>1, <3>5
    <3> QED BY <1>2, <2>2, <3>4, <3>6
  <2>3. CASE k = u
    <3>1. pos + 1 \in 1..Len(buf)
      BY <1>1
    <3>2. buf'[pos+1] = ByteAt(encodedStr, url+1)
      BY <1>1, <3>1
    <3> QED BY <1>3, <1>5, <2>3, <3>2
  <2> QED BY <1>4, <2>1, <2>2, <2>3
<1>7. Means(encodedStr, url', buf')
  BY <1>6 DEF Means, Count, B
<1>8. url' < Len(encodedStr) => url' + 1 \in B
  <2>1. url + n + 1 = u + n /\ (url + n < Len(encodedStr) => u + n <= Len(encodedStr))
    BY <1>1, <1>3
  <2> QED BY <1>4, <2>1
<1>9. pos' = Cardinality(Begins(encodedStr') \cap (1..url'))
  BY <1>5 DEF Count, B
<1> QED BY <1>2, <1>7, <1>8, <1>9 DEF DecodedSoFar, B

\* What has not been read is as it came, so it means the same.
LEMMA SameAhead ==
  ASSUME NEW s \in Seq(Byte), NEW t \in Seq(Byte), NEW u \in Nat, Len(t) = Len(s), u < Len(s),
         \A k \in u+1..Len(s) : t[k] = s[k]
  PROVE  /\ IsEscape(t, u+1) <=> IsEscape(s, u+1)
         /\ IsEscape(s, u+1) => Value(t, u+1) = Value(s, u+1)
         /\ t[u+1] = s[u+1]
<1>1. Len(s) \in Nat
  BY LenProperties
<1>2. u+1 \in u+1..Len(s) /\ t[u+1] = s[u+1]
  BY <1>1
<1>3. ASSUME u+1+2 <= Len(s) PROVE t[u+1+1] = s[u+1+1] /\ t[u+1+2] = s[u+1+2]
  <2>1. u+1+1 \in u+1..Len(s) /\ u+1+2 \in u+1..Len(s)
    BY <1>1, <1>3
  <2> QED BY <2>1
<1>4. IsEscape(t, u+1) <=> IsEscape(s, u+1)
  BY <1>2, <1>3 DEF IsEscape
<1>5. ASSUME IsEscape(s, u+1) PROVE Value(t, u+1) = Value(s, u+1)
  <2>1. u+1+2 <= Len(s)
    BY <1>5 DEF IsEscape
  <2> QED BY <1>3, <2>1 DEF Value
<1> QED BY <1>2, <1>4, <1>5

LEMMA DecodeStepTakes ==
  ASSUME DecodesInPlace, DecodedSoFar, DecodeEscape \/ Copy
  PROVE  DecodedSoFar'
<1>1. /\ encodedStr \in Seq(Byte) /\ buf \in Seq(Byte) /\ url \in Nat
      /\ codecMode = "decode" /\ url < Len(buf) /\ Len(buf) = Len(encodedStr) /\ Len(buf) \in Nat
      /\ \A k \in url+1..Len(encodedStr) : buf[k] = encodedStr[k]
  BY DEF DecodesInPlace, CodecTypeOK, ReadsAhead, DecodeEscape, Copy
<1>2. /\ IsEscape(buf, url+1) <=> IsEscape(encodedStr, url+1)
      /\ IsEscape(encodedStr, url+1) => Value(buf, url+1) = Value(encodedStr, url+1)
      /\ buf[url+1] = encodedStr[url+1]
  BY <1>1, SameAhead
<1>3. CASE DecodeEscape
  <2>1. IsEscape(encodedStr, url+1) /\ url + 3 <= Len(buf)
    BY <1>1, <1>2, <1>3 DEF DecodeEscape, IsEscape
  <2>2. /\ buf' = [buf EXCEPT ![pos+1] = ByteAt(encodedStr, url+1)]
        /\ pos' = pos + 1 /\ url' = url + 3
        /\ UNCHANGED <<str, index, encodedStr, codecMode>>
    BY <1>2, <1>3, <2>1 DEF DecodeEscape, WriteAt, EscapeLength, ByteAt
  <2>3. 3 \in 1..3 /\ 3 = IF IsEscape(encodedStr, url+1) THEN 3 ELSE 1
    BY <2>1
  <2> QED BY <1>1, <2>1, <2>2, <2>3, DecodeTakes
<1>4. CASE Copy
  <2>1. ~IsEscape(encodedStr, url+1) /\ url + 1 <= Len(buf)
    BY <1>1, <1>2, <1>4 DEF Copy
  <2>2. /\ buf' = [buf EXCEPT ![pos+1] = ByteAt(encodedStr, url+1)]
        /\ pos' = pos + 1 /\ url' = url + 1
        /\ UNCHANGED <<str, index, encodedStr, codecMode>>
    BY <1>2, <1>4, <2>1 DEF Copy, WriteAt, ByteAt
  <2>3. 1 \in 1..3 /\ 1 = IF IsEscape(encodedStr, url+1) THEN 3 ELSE 1
    BY <2>1
  <2> QED BY <1>1, <2>1, <2>2, <2>3, DecodeTakes
<1> QED BY <1>3, <1>4

LEMMA TerminateTakes ==
  ASSUME DecodesInPlace, DecodedSoFar, Terminate
  PROVE  DecodedSoFar'
<1> DEFINE B == Begins(encodedStr)
<1>1. /\ encodedStr \in Seq(Byte) /\ buf \in Seq(Byte) /\ url \in Nat /\ pos \in Nat /\ pos <= url
      /\ codecMode = "decode" /\ url = Len(buf) /\ Len(buf) = Len(encodedStr) /\ Len(buf) \in Nat
  BY DEF DecodesInPlace, CodecTypeOK, ReadsAhead, Terminate
<1>2. /\ index = Len(str) /\ pos = Count(B, url)
      /\ \A k \in B \cap (1..url) : buf[Count(B, k)] = ByteAt(encodedStr, k)
  BY <1>1 DEF DecodedSoFar, Means, Count
<1>3. /\ buf' = SubSeq(buf, 1, pos) /\ codecMode' = "done"
      /\ UNCHANGED <<str, index, encodedStr, url, pos>>
  BY DEF Terminate
<1>4. /\ Len(buf') = pos
      /\ \A x \in 1..pos : buf'[x] = buf[x]
  <2>1. SubSeq(buf, 1, pos) = [x \in 1..pos |-> buf[x]]
    BY <1>1
  <2> QED BY <1>1, <1>3, <2>1
<1> HIDE DEF B
<1>5. ASSUME NEW k \in B, k \in 1..url PROVE buf'[Count(B, k)] = ByteAt(encodedStr, k)
  <2>1. k \in Nat \ {0} /\ k <= url
    BY <1>1, <1>5
  <2>2. Count(B, k) \in Nat /\ Count(B, k) >= 1
    BY <2>1, CountOne
  <2>3. Count(B, k) <= Count(B, url)
    BY <1>1, <2>1, CountGrows
  <2>4. Count(B, k) \in 1..pos
    BY <1>1, <1>2, <2>2, <2>3
  <2> QED BY <1>2, <1>4, <1>5, <2>4
<1>6. Means(encodedStr, url, buf')
  BY <1>5 DEF Means, Count, B
<1>7. pos = Cardinality(Begins(encodedStr) \cap (1..url))
  BY <1>2 DEF Count, B
<1> QED BY <1>1, <1>2, <1>3, <1>4, <1>6, <1>7 DEF DecodedSoFar

LEMMA EncodedTakes ==
  ASSUME DecodesInPlace, Encoded
  PROVE  DecodedSoFar'
<1>1. /\ index' = Len(str') /\ url' = 0 /\ pos' = 0 /\ codecMode' = "decode"
      /\ encodedStr' = encodedStr
  BY DEF Encoded
<1>2. \A S : S \cap (1..0) = {}
  OBVIOUS
<1>3. Cardinality(Begins(encodedStr) \cap (1..0)) = 0
  BY <1>2, FS_EmptySet
<1>4. \A b : Means(encodedStr, 0, b)
  BY <1>2 DEF Means
<1>5. 0 < Len(encodedStr) => 0 + 1 \in Begins(encodedStr)
  <2>1. Len(encodedStr) \in Nat
    BY LenProperties DEF DecodesInPlace, CodecTypeOK
  <2>2. 1..1-1 = {}
    OBVIOUS
  <2> QED BY <2>1, <2>2 DEF Begins
<1> QED BY <1>1, <1>3, <1>4, <1>5 DEF DecodedSoFar

-----------------------------------------------------------------------------
\* What all of encodedStr means.

Whole == /\ str \in Seq(Char) /\ encodedStr \in Seq(Byte) /\ index = Len(str)
         /\ EncodedSoFar

LEMMA PlaceFits ==
  ASSUME Whole, NEW k \in 1..Len(str)
  PROVE  /\ EncodedAt(k) \in Nat \ {0} /\ EncodedAt(k) <= Len(encodedStr)
         /\ Stands(encodedStr, EncodedAt(k), str[k])
         /\ needsEncoding(str[k]) => EncodedAt(k) + 2 <= Len(encodedStr)
         /\ EncodedAt(k+1) <= Len(encodedStr) => k+1 \in 1..Len(str)
<1>1. str \in Seq(Char) /\ Len(str) \in Nat /\ Len(encodedStr) \in Nat
  BY LenProperties DEF Whole
<1>2. PICK n \in Nat : n = Len(str)
  BY <1>1
<1>3. Len(encodedStr) = EncodedAt(n+1) - 1
  BY <1>2 DEF Whole, EncodedSoFar
<1>4. Stands(encodedStr, EncodedAt(k), str[k])
  BY DEF Whole, EncodedSoFar
<1>5. PICK e \in Nat : e = EncodedAt(k) /\ e >= k
  BY <1>1, NextPlace
<1>6. PICK d \in Nat : d = EncodedAt(k+1)
  BY <1>1, NextPlace
<1>7. /\ needsEncoding(str[k]) => d = e + 3
      /\ ~needsEncoding(str[k]) => d = e + 1
  BY <1>1, <1>5, <1>6, NextPlace
<1>8. d <= EncodedAt(n+1) /\ EncodedAt(n+1) \in Nat
  <2>1. n+1 \in 1..Len(str)+1 /\ k < n+1
    BY <1>2
  <2> QED BY <1>1, <1>6, <2>1, PlacesInOrder
<1>9. d <= Len(encodedStr) + 1
  BY <1>1, <1>3, <1>8
<1>10. d <= Len(encodedStr) => k # n
  <2> SUFFICES ASSUME d <= Len(encodedStr), k = n PROVE FALSE
    OBVIOUS
  <2>1. d = EncodedAt(n+1)
    BY <1>6
  <2> QED BY <1>1, <1>3, <1>8, <2>1
<1>11. k # n => k+1 \in 1..n
  BY <1>2
<1>12. e \in Nat \ {0} /\ e <= Len(encodedStr) /\ (needsEncoding(str[k]) => e + 2 <= Len(encodedStr))
  BY <1>1, <1>5, <1>7, <1>9
<1> QED BY <1>2, <1>4, <1>5, <1>6, <1>10, <1>11, <1>12

LEMMA NotEncoded ==
  /\ ~needsEncoding(Percent)
  /\ ~IsHex(Percent)
  /\ \A c : IsHex(c) => ~needsEncoding(c)
<1>1. ~needsEncoding(Percent) /\ ~IsHex(Percent)
  BY DEF needsEncoding, specialChars, IsHex, Digit, Percent
<1>2. \A c \in specialChars : ~IsHex(c)
  BY DEF specialChars, IsHex, Digit
<1> QED BY <1>1, <1>2 DEF needsEncoding

\* In encodedStr are the escapes that urlEncode has made, and those str has had.
LEMMA PlaceEscape ==
  ASSUME Whole, NEW k \in 1..Len(str)
  PROVE  IsEscape(encodedStr, EncodedAt(k)) <=> needsEncoding(str[k]) \/ IsEscape(str, k)
<1>1. str \in Seq(Char) /\ Len(str) \in Nat /\ Len(encodedStr) \in Nat
  BY LenProperties DEF Whole
<1>2. PICK e \in Nat \ {0} : e = EncodedAt(k)
  BY PlaceFits
<1>3. /\ e <= Len(encodedStr) /\ Stands(encodedStr, e, str[k])
      /\ needsEncoding(str[k]) => e + 2 <= Len(encodedStr)
      /\ EncodedAt(k+1) <= Len(encodedStr) => k+1 \in 1..Len(str)
  BY <1>2, PlaceFits
<1>4. CASE needsEncoding(str[k])
  <2>1. PICK c \in 1..255 : c = str[k]
    BY <1>1, ElementOfSeq, CharAssumption
  <2>2. c \div 16 \in 0..15 /\ c % 16 \in 0..15
    BY HalvesOfByte
  <2>3. IsHex(HexDigit(c \div 16)) /\ IsHex(HexDigit(c % 16))
    BY <2>2, DigitProperties
  <2> QED BY <1>2, <1>3, <1>4, <2>1, <2>3 DEF IsEscape, Stands
<1>5. CASE ~needsEncoding(str[k])
  <2>1. encodedStr[e] = str[k] /\ EncodedAt(k+1) = e + 1
    BY <1>1, <1>2, <1>3, <1>5, NextPlace DEF Stands
  <2>2. ASSUME IsEscape(str, k) PROVE IsEscape(encodedStr, e)
    <3>1. k+1 \in 1..Len(str) /\ k+2 \in 1..Len(str) /\ k+1+1 = k+2
      BY <1>1, <2>2 DEF IsEscape
    <3>2. str[k] = Percent /\ IsHex(str[k+1]) /\ IsHex(str[k+2])
      BY <2>2 DEF IsEscape
    <3>3. ~needsEncoding(str[k+1]) /\ ~needsEncoding(str[k+2])
      BY <3>2, NotEncoded
    <3>4. EncodedAt(k+2) = e + 2
      <4>1. EncodedAt(k+1+1) = EncodedAt(k+1) + 1
        BY <1>1, <3>1, <3>3, NextPlace
      <4>2. e + 1 + 1 = e + 2
        OBVIOUS
      <4> QED BY <2>1, <3>1, <4>1, <4>2
    <3>5. encodedStr[e+1] = str[k+1]
      BY <2>1, <3>1, <3>3, PlaceFits DEF Stands
    <3>6. encodedStr[e+2] = str[k+2] /\ e + 2 <= Len(encodedStr)
      BY <3>1, <3>3, <3>4, PlaceFits DEF Stands
    <3> QED BY <2>1, <3>2, <3>5, <3>6 DEF IsEscape
  <2>3. ASSUME IsEscape(encodedStr, e) PROVE IsEscape(str, k)
    <3>1. /\ e + 2 <= Len(encodedStr) /\ encodedStr[e] = Percent
          /\ IsHex(encodedStr[e+1]) /\ IsHex(encodedStr[e+2])
      BY <2>3 DEF IsEscape
    <3>2. k+1 \in 1..Len(str)
      <4>1. e + 1 <= Len(encodedStr)
        BY <1>1, <3>1
      <4> QED BY <1>3, <2>1, <4>1
    <3>3. Stands(encodedStr, e+1, str[k+1])
      BY <2>1, <3>2, PlaceFits
    <3>4. ~needsEncoding(str[k+1])
      BY <3>1, <3>3, NotEncoded DEF Stands
    <3>5. str[k+1] = encodedStr[e+1]
      BY <3>3, <3>4 DEF Stands
    <3>6. k+1+1 = k+2 /\ e+1+1 = e+2
      BY <1>1
    <3>7. EncodedAt(k+2) = e + 2
      <4>1. EncodedAt(k+1+1) = EncodedAt(k+1) + 1
        BY <1>1, <3>2, <3>4, NextPlace
      <4> QED BY <2>1, <3>6, <4>1
    <3>8. k+2 \in 1..Len(str)
      <4>1. EncodedAt(k+1+1) <= Len(encodedStr)
        BY <3>1, <3>6, <3>7
      <4>2. k+1+1 \in 1..Len(str)
        BY <3>2, <4>1, PlaceFits
      <4> QED BY <3>6, <4>2
    <3>9. Stands(encodedStr, e+2, str[k+2])
      BY <3>7, <3>8, PlaceFits
    <3>10. ~needsEncoding(str[k+2])
      BY <3>1, <3>9, NotEncoded DEF Stands
    <3>11. str[k+2] = encodedStr[e+2]
      BY <3>9, <3>10 DEF Stands
    <3>12. k + 2 <= Len(str)
      BY <1>1, <3>8
    <3> QED BY <2>1, <3>1, <3>5, <3>11, <3>12 DEF IsEscape
  <2> QED BY <1>2, <1>5, <2>2, <2>3
<1> QED BY <1>4, <1>5

\* Nothing begins but at the place of a byte of str, and no escape does.
LEMMA OnlyPlaces ==
  ASSUME Whole, NEW p \in 1..Len(encodedStr), p \in Begins(encodedStr) \/ IsEscape(encodedStr, p)
  PROVE  \E k \in 1..Len(str) : p = EncodedAt(k)
<1>1. PICK k \in 1..Len(str) :
        p = EncodedAt(k) \/ (needsEncoding(str[k]) /\ p \in EncodedAt(k)+1..EncodedAt(k)+2)
  BY DEF Whole, EncodedSoFar
<1>2. CASE needsEncoding(str[k]) /\ p \in EncodedAt(k)+1..EncodedAt(k)+2
  <2>1. PICK e \in Nat \ {0} : e = EncodedAt(k)
    BY PlaceFits
  <2>2. IsEscape(encodedStr, e)
    BY <1>2, <2>1, PlaceEscape
  <2>3. p = e+1 \/ p = e+2
    BY <1>2, <2>1
  <2>4. encodedStr \in Seq(Byte)
    BY DEF Whole
  <2>5. ~IsEscape(encodedStr, p)
    BY <2>2, <2>3, <2>4, EscapesApart
  <2>6. p \notin Begins(encodedStr)
    <3>1. e \in 1..p-1 /\ ~(e + 2 < p)
      BY <2>3
    <3> QED BY <2>2, <3>1 DEF Begins
  <2> QED BY <2>5, <2>6
<1> QED BY <1>1, <1>2

\* Without an escape in str its bytes are all that begins in encodedStr.
LEMMA PlacesBegin ==
  ASSUME Whole, \A k \in 1..Len(str) : ~IsEscape(str, k), NEW k \in 1..Len(str)
  PROVE  EncodedAt(k) \in Begins(encodedStr)
<1>1. str \in Seq(Char) /\ Len(str) \in Nat /\ Len(encodedStr) \in Nat
  BY LenProperties DEF Whole
<1>2. PICK e \in Nat \ {0} : e = EncodedAt(k) /\ e <= Len(encodedStr)
  BY PlaceFits
<1>3. ASSUME NEW l \in 1..e-1, IsEscape(encodedStr, l) PROVE l + 2 < e
  <2>1. l \in 1..Len(encodedStr)
    BY <1>1, <1>2
  <2>2. PICK j \in 1..Len(str) : l = EncodedAt(j)
    BY <1>3, <2>1, OnlyPlaces
  <2>3. needsEncoding(str[j])
    BY <1>3, <2>2, PlaceEscape
  <2>4. EncodedAt(j+1) = l + 3
    BY <1>1, <2>2, <2>3, NextPlace
  <2>5. j < k
    <3>1. CASE k < j
      <4>1. j \in 1..Len(str)+1
        BY <1>1
      <4>2. EncodedAt(k) < EncodedAt(j)
        BY <1>1, <3>1, <4>1, PlacesInOrder
      <4> QED BY <1>2, <2>2, <4>2
    <3>2. CASE k = j
      BY <1>2, <2>2, <3>2
    <3> QED BY <3>1, <3>2
  <2>6. EncodedAt(j+1) <= e
    <3>1. k \in 1..Len(str)+1
      BY <1>1
    <3> QED BY <1>1, <1>2, <2>5, <3>1, PlacesInOrder
  <2> QED BY <1>2, <2>4, <2>6
<1> QED BY <1>1, <1>2, <1>3 DEF Begins

LEMMA BeforePlace ==
  ASSUME Whole, \A j \in 1..Len(str) : ~IsEscape(str, j),
         NEW k \in 0..Len(str), NEW m \in Nat, m <= Len(encodedStr),
         \A j \in 1..Len(str) : EncodedAt(j) <= m <=> j <= k
  PROVE  Count(Begins(encodedStr), m) = k
<1>1. str \in Seq(Char) /\ Len(str) \in Nat /\ Len(encodedStr) \in Nat
  BY LenProperties DEF Whole
<1> DEFINE S == Begins(encodedStr) \cap (1..m)
           f == [j \in 1..k |-> EncodedAt(j)]
<1>2. ASSUME NEW j \in 1..k PROVE EncodedAt(j) \in S /\ j \in 1..Len(str)
  <2>1. j \in 1..Len(str) /\ j <= k
    BY <1>1
  <2>2. EncodedAt(j) \in Begins(encodedStr)
    BY <2>1, PlacesBegin
  <2>3. EncodedAt(j) \in Nat \ {0} /\ EncodedAt(j) <= m
    BY <2>1, PlaceFits
  <2> QED BY <2>1, <2>2, <2>3
<1>3. ASSUME NEW x \in S PROVE \E j \in 1..k : f[j] = x
  <2>1. x \in 1..Len(encodedStr) /\ x <= m
    BY <1>1
  <2>2. PICK j \in 1..Len(str) : x = EncodedAt(j)
    BY <2>1, OnlyPlaces
  <2>3. j \in 1..k
    BY <2>1, <2>2
  <2> QED BY <2>2, <2>3
<1>4. ASSUME NEW i \in 1..k, NEW j \in 1..k, f[i] = f[j] PROVE i = j
  <2>1. i \in 1..Len(str) /\ j \in 1..Len(str) /\ i \in 1..Len(str)+1 /\ j \in 1..Len(str)+1
    BY <1>1, <1>2
  <2>2. EncodedAt(i) = EncodedAt(j) /\ EncodedAt(i) \in Nat
    BY <1>4, <2>1, PlaceFits
  <2>3. ~(i < j) /\ ~(j < i)
    BY <1>1, <2>1, <2>2, PlacesInOrder
  <2> QED BY <2>1, <2>3
<1>5. f \in [1..k -> S] /\ k \in Nat
  BY <1>1, <1>2
<1> HIDE DEF f, S
<1>6. Cardinality(S) = k
  BY <1>3, <1>4, <1>5, CountImage
<1> QED BY <1>6 DEF Count, S

LEMMA ComesBack ==
  ASSUME Whole, \A k \in 1..Len(str) : ~IsEscape(str, k),
         NEW b \in Seq(Byte), Len(b) = Count(Begins(encodedStr), Len(encodedStr)),
         Means(encodedStr, Len(encodedStr), b)
  PROVE  b = str
<1>1. str \in Seq(Char) /\ Len(str) \in Nat /\ Len(encodedStr) \in Nat
  BY LenProperties DEF Whole
<1>2. Len(b) = Len(str)
  <2>1. \A j \in 1..Len(str) : EncodedAt(j) <= Len(encodedStr) <=> j <= Len(str)
    BY PlaceFits
  <2>2. Len(str) \in 0..Len(str) /\ Len(encodedStr) <= Len(encodedStr)
    BY <1>1
  <2> QED BY <1>1, <2>1, <2>2, BeforePlace
<1>3. ASSUME NEW k \in 1..Len(str) PROVE b[k] = str[k]
  <2>1. PICK e \in Nat \ {0} : e = EncodedAt(k) /\ e <= Len(encodedStr) /\ Stands(encodedStr, e, str[k])
    BY PlaceFits
  <2>2. e \in Begins(encodedStr) \cap (1..Len(encodedStr))
    BY <1>1, <2>1, PlacesBegin
  <2>3. Count(Begins(encodedStr), e) = k
    <3>1. ASSUME NEW j \in 1..Len(str) PROVE EncodedAt(j) <= e <=> j <= k
      <4>1. j \in 1..Len(str)+1 /\ k \in 1..Len(str)+1
        BY <1>1
      <4>2. k < j => e < EncodedAt(j)
        BY <1>1, <2>1, <4>1, PlacesInOrder
      <4>3. j < k => EncodedAt(j) < e
        BY <1>1, <2>1, <4>1, PlacesInOrder
      <4>4. EncodedAt(j) \in Nat
        BY PlaceFits
      <4>5. k < j \/ j < k \/ j = k
        OBVIOUS
      <4> QED BY <2>1, <4>2, <4>3, <4>4, <4>5
    <3>2. k \in 0..Len(str) /\ e \in Nat
      BY <1>1
    <3> QED BY <2>1, <3>1, <3>2, BeforePlace
  <2>4. b[k] = ByteAt(encodedStr, e)
    <3>1. b[Cardinality(Begins(encodedStr) \cap (1..e))] = ByteAt(encodedStr, e)
      BY <2>2 DEF Means
    <3> QED BY <2>3, <3>1 DEF Count
  <2>5. CASE needsEncoding(str[k])
    <3>1. PICK c \in 1..255 : c = str[k]
      BY <1>1, ElementOfSeq, CharAssumption
    <3>2. IsEscape(encodedStr, e)
      BY <2>1, <2>5, PlaceEscape
    <3>3. encodedStr[e+1] = HexDigit(c \div 16) /\ encodedStr[e+2] = HexDigit(c % 16)
      BY <2>1, <2>5, <3>1 DEF Stands
    <3>4. hex_to_dec(HexDigit(c \div 16)) = c \div 16 /\ hex_to_dec(HexDigit(c % 16)) = c % 16
      BY HalvesOfByte, DigitProperties
    <3>5. Value(encodedStr, e) = (c \div 16) * 16 + (c % 16)
      BY <3>3, <3>4 DEF Value
    <3>6. Value(encodedStr, e) = c
      BY <3>5, HalvesOfByte
    <3> QED BY <2>4, <3>1, <3>2, <3>6 DEF ByteAt
  <2>6. CASE ~needsEncoding(str[k])
    <3>1. ~IsEscape(encodedStr, e)
      BY <2>1, <2>6, PlaceEscape
    <3> QED BY <2>1, <2>4, <2>6, <3>1 DEF ByteAt, Stands
  <2> QED BY <2>5, <2>6
<1>4. str \in Seq(Byte)
  <2>1. ASSUME NEW k \in 1..Len(str) PROVE str[k] \in Byte
    <3>1. str[k] \in Char
      BY <1>1, ElementOfSeq
    <3>2. str[k] \in 1..255
      BY <3>1, CharAssumption
    <3> QED BY <3>2 DEF Byte
  <2> QED BY <1>1, <2>1
<1> QED BY <1>2, <1>3, <1>4, SeqEqual

\* An escape in str is taken for one byte, and what comes back is shorter.
LEMMA ComesBackShort ==
  ASSUME Whole, NEW j \in 1..Len(str), IsEscape(str, j)
  PROVE  Count(Begins(encodedStr), Len(encodedStr)) < Len(str)
<1>1. str \in Seq(Char) /\ Len(str) \in Nat /\ Len(encodedStr) \in Nat
  BY LenProperties DEF Whole
<1>2. PICK next \in 1..Len(str) : next = j+1
  BY <1>1 DEF IsEscape
<1>3. EncodedAt(next) \notin Begins(encodedStr)
  <2>1. PICK e \in Nat \ {0} : e = EncodedAt(j)
    BY PlaceFits
  <2>2. ~needsEncoding(str[j])
    BY NotEncoded DEF IsEscape
  <2>3. EncodedAt(next) = e + 1
    BY <1>1, <1>2, <2>1, <2>2, NextPlace
  <2>4. IsEscape(encodedStr, e)
    BY <2>1, PlaceEscape
  <2>5. e \in 1..e+1-1 /\ ~(e + 2 < e + 1)
    OBVIOUS
  <2> QED BY <2>3, <2>4, <2>5 DEF Begins
<1> DEFINE S == Begins(encodedStr) \cap (1..Len(encodedStr))
           T == (1..Len(str)) \ {next}
           f == [p \in S |-> CHOOSE k \in 1..Len(str) : p = EncodedAt(k)]
<1>4. ASSUME NEW p \in S PROVE f[p] \in T /\ EncodedAt(f[p]) = p
  <2>1. \E k \in 1..Len(str) : p = EncodedAt(k)
    BY OnlyPlaces
  <2>2. f[p] \in 1..Len(str) /\ p = EncodedAt(f[p])
    BY <2>1
  <2>3. f[p] # next
    BY <1>3, <2>2
  <2> QED BY <2>2, <2>3
<1>5. f \in Injection(S, T)
  <2>1. f \in [S -> T]
    BY <1>4
  <2>2. \A p, q \in S : f[p] = f[q] => p = q
    BY <1>4
  <2> HIDE DEF f, S, T
  <2> QED BY <2>1, <2>2 DEF Injection, IsInjective
<1>6. IsFiniteSet(T) /\ Cardinality(T) = Len(str) - 1
  <2>1. IsFiniteSet(1..Len(str)) /\ Cardinality(1..Len(str)) = Len(str)
    BY <1>1, OneToN
  <2> QED BY <2>1, FS_RemoveElement
<1> HIDE DEF S, T, f
<1>7. Cardinality(S) <= Cardinality(T)
  BY <1>5, <1>6, FS_Injection
<1>8. Cardinality(S) \in Nat
  <2>1. Count(Begins(encodedStr), Len(encodedStr)) \in Nat
    BY <1>1, CountProperties
  <2> QED BY <2>1 DEF Count, S
<1>9. Cardinality(S) < Len(str)
  BY <1>1, <1>6, <1>7, <1>8
<1> QED BY <1>9 DEF Count, S

LEMMA WhatComesBack ==
  ASSUME DecodesInPlace, EncodedSoFar, DecodedSoFar, codecMode = "done"
  PROVE  buf = str <=> \A k \in 1..Len(str) : ~IsEscape(str, k)
<1>1. /\ Whole /\ buf \in Seq(Byte)
      /\ Len(buf) = Count(Begins(encodedStr), Len(encodedStr))
      /\ Means(encodedStr, Len(encodedStr), buf)
  BY DEF DecodesInPlace, CodecTypeOK, DecodedSoFar, Whole, Count
<1>2. ASSUME \A k \in 1..Len(str) : ~IsEscape(str, k) PROVE buf = str
  BY <1>1, <1>2, ComesBack
<1>3. ASSUME NEW k \in 1..Len(str), IsEscape(str, k) PROVE buf # str
  <2>1. Len(buf) < Len(str)
    BY <1>1, <1>3, ComesBackShort
  <2>2. Len(str) \in Nat
    BY <1>1, LenProperties DEF Whole
  <2> QED BY <2>1, <2>2
<1> QED BY <1>2, <1>3

CodecInv == DecodesInPlace /\ RoundTrip

LEMMA NextRoundTrip == CodecInv /\ [CodecNext]_codecVars => CodecInv'
<1> SUFFICES ASSUME CodecInv, [CodecNext]_codecVars PROVE CodecInv'
  OBVIOUS
<1>1. DecodesInPlace' /\ DecodesInPlace /\ EncodedSoFar /\ DecodedSoFar
  BY NextCodec DEF CodecInv, RoundTrip
<1>2. EncodedSoFar' /\ DecodedSoFar'
  <2>1. CASE EncodeChar
    <3>1. codecMode' = "encode"
      BY <2>1 DEF EncodeChar
    <3> QED BY <1>1, <2>1, <3>1, EncodeCharPlaces DEF DecodedSoFar
  <2>2. CASE Encoded
    BY <1>1, <2>2, EncodedTakes DEF Encoded, EncodedSoFar, EncodedAt
  <2>3. CASE DecodeEscape
    BY <1>1, <2>3, DecodeStepTakes DEF DecodeEscape, EncodedSoFar, EncodedAt
  <2>4. CASE Copy
    BY <1>1, <2>4, DecodeStepTakes DEF Copy, EncodedSoFar, EncodedAt
  <2>5. CASE Terminate
    BY <1>1, <2>5, TerminateTakes DEF Terminate, EncodedSoFar, EncodedAt
  <2>6. CASE UNCHANGED codecVars
    BY <1>1, <2>6 DEF codecVars, EncodedSoFar, EncodedAt, DecodedSoFar
  <2> QED BY <2>1, <2>2, <2>3, <2>4, <2>5, <2>6 DEF CodecNext
<1>3. (codecMode = "done" => (buf = str <=> \A k \in 1..Len(str) : ~IsEscape(str, k)))'
  <2> SUFFICES ASSUME codecMode' = "done"
               PROVE  (buf = str <=> \A k \in 1..Len(str) : ~IsEscape(str, k))'
    OBVIOUS
  <2>1. CASE Terminate
    <3>1. (DecodesInPlace /\ EncodedSoFar /\ DecodedSoFar /\ codecMode = "done")'
      BY <1>1, <1>2
    <3> QED BY <3>1, WhatComesBack, PTL
  <2>2. CASE ~Terminate
    <3>1. UNCHANGED <<codecMode, buf, str>>
      BY <2>2 DEF CodecNext, EncodeChar, Encoded, DecodeEscape, Copy, codecVars
    <3> QED BY <3>1 DEF CodecInv, RoundTrip
  <2> QED BY <2>1, <2>2
<1> QED BY <1>1, <1>2, <1>3 DEF CodecInv, RoundTrip

LEMMA InitRoundTrip == CodecInit => CodecInv
<1> SUFFICES ASSUME CodecInit PROVE CodecInv
  OBVIOUS
<1>1. DecodesInPlace
  BY InitCodec
<1>2. index = 0 /\ encodedStr = <<>> /\ codecMode = "encode" /\ str \in Seq(Char)
  BY <1>1 DEF CodecInit, DecodesInPlace, CodecTypeOK
<1>3. EncodedSoFar
  <2>1. EncodedAt(1) = 1
    BY <1>2, PlacesKnown
  <2>2. Len(encodedStr) = 0 /\ 1..0 = {}
    BY <1>2
  <2> QED BY <1>2, <2>1, <2>2 DEF EncodedSoFar
<1> QED BY <1>1, <1>2, <1>3 DEF CodecInv, RoundTrip, DecodedSoFar

\* For every string of any length: what urldecode leaves of what urlEncode has made
\* is the string, exactly if there is no escape in it to begin with.
THEOREM PasswordComesBack == CodecSpec => []RoundTrip
<1>1. CodecSpec => []CodecInv
  BY InitRoundTrip, NextRoundTrip, PTL DEF CodecSpec
<1> QED BY <1>1, PTL DEF CodecInv
=============================================================================
