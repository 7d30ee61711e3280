------------------------------ MODULE HttpServer ------------------------------
(***************************************************************************)
(* hw1/server.c: a file server that takes one connection at a time and     *)
(* answers one request on each.  Descriptors are counted: those of the     *)
(* connection, of file, and of f, which are not closed on every way out of *)
(* handle_request.  A path is a name, the slash that may follow it, and    *)
(* the query that may follow the slash.                                    *)
(***************************************************************************)
EXTENDS Integers, Sequences, FiniteSets

CONSTANTS
  Client,
  Name,             \* of files and directories in docroot, encoded or not
  Dotted,           \* the names with a '.'
  Decoded,          \* urldecode on names
  Kind,             \* of what has the name: "file", "dir" or "none"
  Indexed,          \* the directories with an index.html
  Index,            \* the name index.html in docroot
  Request,          \* what clients ask for
  Limit             \* descriptors the process may open beside the listener's

Query == {"none", "plain", "dotted"}
Path  == [name : Name \union {"root"}, slash : BOOLEAN, query : Query]
Code  == {"200", "301", "403", "404", "501"}

ASSUME ParameterAssumption ==
  /\ Client # {} /\ Limit \in Nat \ {0} /\ Index \in Name /\ "root" \notin Name
  /\ Dotted \subseteq Name /\ Indexed \subseteq {n \in Name : Kind[n] = "dir"}
  /\ Decoded \in [Name -> Name] /\ Kind \in [Name -> {"file", "dir", "none"}]
  /\ Kind[Index] # "dir"
  /\ Request \subseteq [method : {"GET", "POST"}, path : Path]
  /\ \A r \in Request : r.path.query # "none" => r.path.slash

VARIABLES
  conn, said, want, got,    \* a client's connection, request and answer
  followed,                 \* whether the request is for where a 301 has sent it
  queue,                    \* connections that wait for accept
  pc, cur, method, path,    \* handle_request and its locals
  used,                     \* descriptors open beside the listener's
  dirs                      \* answers about directories (counted in no program)

clients == <<conn, said, want, got, followed>>
locals  == <<cur, method, path>>
vars    == <<clients, queue, pc, locals, used, dirs>>

NoRequest == [method |-> "none", path |-> [name |-> "root", slash |-> TRUE, query |-> "none"]]

TypeOK ==
  /\ conn \in [Client -> {"idle", "open", "left", "reset"}]
  /\ said \in [Client -> {"nothing", "method", "all"}]
  /\ want \in [Client -> [method : {"GET", "POST", "none"}, path : Path]]
  /\ got \in [Client -> Code \union {"none"}] /\ followed \in [Client -> BOOLEAN]
  /\ queue \in Seq(Client)
  /\ pc \in {"accept", "recv", "parsed", "opened", "header", "body", "close", "dead"}
  /\ cur \in Client /\ method \in {"GET", "POST", "none"} /\ path \in Path
  /\ used \in 0..Limit /\ dirs \in 0..Limit

-----------------------------------------------------------------------------
\* External: the clients.

Ask(k, r, f) ==
  /\ conn[k] = "idle"
  /\ conn' = [conn EXCEPT ![k] = "open"] /\ said' = [said EXCEPT ![k] = "nothing"]
  /\ want' = [want EXCEPT ![k] = r] /\ got' = [got EXCEPT ![k] = "none"]
  /\ followed' = [followed EXCEPT ![k] = f]
  /\ queue' = Append(queue, k)
  /\ UNCHANGED <<pc, locals, used, dirs>>

Connect(k) == \E r \in Request : Ask(k, r, FALSE)

\* Mutant: the slash is missing.
LocationBare(p) == [name |-> Decoded[p.name], slash |-> FALSE, query |-> "none"]
\* Where a 301 sends a client that asked for p: to its decoded name and a slash.
Location(p) == [name |-> Decoded[p.name], slash |-> TRUE, query |-> "none"]

Follow(k) ==
  /\ got[k] = "301" /\ said[k] = "all"
  /\ Ask(k, [method |-> "GET", path |-> Location(want[k].path)], TRUE)

\* The first segment of the request has all of it or only the first word.
Say(k, what) ==
  /\ conn[k] = "open" /\ said[k] = "nothing"
  /\ said' = [said EXCEPT ![k] = what]
  /\ UNCHANGED <<conn, want, got, followed, queue, pc, locals, used, dirs>>

\* It closes its end, or resets the connection, before it has the answer.
Leave(k, how) ==
  /\ conn[k] = "open"
  /\ conn' = [conn EXCEPT ![k] = how]
  /\ UNCHANGED <<said, want, got, followed, queue, pc, locals, used, dirs>>

-----------------------------------------------------------------------------
\* When no descriptor is left accept fails and main tries again, for ever; that
\* it never comes to that is the last part of DescriptorsAccounted.
Accept ==
  /\ pc = "accept" /\ queue # <<>> /\ used < Limit
  /\ cur' = Head(queue) /\ queue' = Tail(queue)
  /\ used' = used + 1 /\ pc' = "recv"
  /\ UNCHANGED <<clients, method, path, dirs>>

\* Mutant: without close(client_socket).
ReturnOpen(open) == used' = open /\ pc' = "accept" /\ UNCHANGED <<conn, method, path>>
\* close(client_socket) and the end of the call, with its locals but not with
\* what it leaves open.
Return(open) ==
  /\ conn' = [conn EXCEPT ![cur] = "idle"]
  /\ used' = open /\ pc' = "accept"
  /\ method' = "none" /\ path' = NoRequest.path

RecvFails ==
  /\ pc = "recv" /\ conn[cur] = "reset"
  /\ Return(used - 1)
  /\ UNCHANGED <<said, want, got, followed, queue, cur, dirs>>

\* Mutant: the slash goes with the query.
CutBefore(p) == [name |-> p.name, slash |-> p.slash /\ p.query = "none", query |-> "none"]
HasDot(p) == p.name \in Dotted \/ p.query = "dotted"
Kept(p)   == p.slash /\ ~(p.query # "none" /\ HasDot(p))
Cut(p)    == [name |-> p.name, slash |-> Kept(p), query |-> "none"]

\* path after the lines up to urldecode(path).
Resolved(p) ==
  IF p.name = "root" THEN [name |-> Index, slash |-> FALSE, query |-> "none"]
                     ELSE [Cut(p) EXCEPT !.name = Decoded[p.name]]

\* What an earlier call may have left on the stack where path is: what it was asked
\* for, as it came or as it was cut and decoded.
Leftover ==
  LET asked == {r.path : r \in Request \union {NoRequest}}
  IN  asked \union {Resolved(p) : p \in asked}

\* sscanf sets only the words that are there; another is what is on the stack.
Recv ==
  /\ pc = "recv" /\ (said[cur] # "nothing" \/ conn[cur] = "left")
  /\ IF said[cur] # "nothing" THEN method' = want[cur].method
                              ELSE method' \in {"GET", "POST", "none"}
  /\ IF said[cur] = "all" THEN path' = want[cur].path
                          ELSE path' \in Leftover
  /\ pc' = "parsed"
  /\ UNCHANGED <<clients, queue, cur, used, dirs>>

\* What becomes of a send: it arrives; or the client has closed its end, and
\* answers with a reset sooner or later; or there has been one, and the send
\* fails or ends the process (SIGPIPE, which main does not ignore).
Arrives == conn[cur] = "open"
Kills   == conn[cur] = "reset" /\ pc' = "dead" /\ UNCHANGED <<clients, queue, locals, used, dirs>>

\* A way out of handle_request with one send.
Answer(code, open) ==
  /\ got' = IF Arrives THEN [got EXCEPT ![cur] = code] ELSE got
  /\ Return(open)
  /\ UNCHANGED <<said, want, followed, queue, cur>>

NotImplemented ==
  /\ pc = "parsed" /\ method # "GET"
  /\ (Answer("501", used - 1) /\ UNCHANGED dirs) \/ Kills

\* Whether there is something to open: a file not followed by a slash.
Exists(p) == Kind[p.name] = "dir" \/ (Kind[p.name] = "file" /\ ~p.slash)

\* fopen(full_path) fails, also when no descriptor is left.
NotFound ==
  /\ pc = "parsed" /\ method = "GET"
  /\ ~Exists(Resolved(path)) \/ used = Limit
  /\ (Answer("404", used - 1) /\ UNCHANGED dirs) \/ Kills

Open ==
  /\ pc = "parsed" /\ method = "GET"
  /\ path' = Resolved(path)
  /\ Exists(path') /\ used < Limit
  /\ used' = used + 1 /\ pc' = "opened"
  /\ UNCHANGED <<clients, queue, cur, method, dirs>>

IsDir == Kind[path.name] = "dir"

\* 301 and 403: file stays open.
Redirect ==
  /\ pc = "opened" /\ IsDir /\ ~path.slash
  /\ (Answer("301", used - 1) /\ dirs' = dirs + 1) \/ Kills

Forbidden ==
  /\ pc = "opened" /\ IsDir /\ path.slash
  /\ path.name \notin Indexed \/ used = Limit
  /\ (Answer("403", used - 1) /\ dirs' = dirs + 1) \/ Kills

\* index.html of a directory is opened as f, but what is sent is file.
OpenIndex ==
  /\ pc = "opened" /\ IsDir /\ path.slash
  /\ path.name \in Indexed /\ used < Limit
  /\ used' = used + 1 /\ dirs' = dirs + 1 /\ pc' = "header"
  /\ UNCHANGED <<clients, queue, locals>>

PlainFile ==
  /\ pc = "opened" /\ ~IsDir
  /\ pc' = "header"
  /\ UNCHANGED <<clients, queue, locals, used, dirs>>

\* One send of several; the client that has closed its end may answer with a reset.
SendPart(next) ==
  /\ pc' = next
  /\ IF conn[cur] = "left" THEN \E r \in {"left", "reset"} : conn' = [conn EXCEPT ![cur] = r]
                           ELSE conn' = conn
  /\ UNCHANGED <<said, want, followed, queue, locals, used, dirs>>

\* A directory has nothing to read.
SendHeader ==
  /\ pc = "header"
  /\ (SendPart(IF IsDir THEN "close" ELSE "body") /\ UNCHANGED got) \/ Kills

SendBody == pc = "body" /\ ((SendPart("close") /\ UNCHANGED got) \/ Kills)

\* Mutant: fclose(file) is forgotten.
OnlySocket  == 1
ClosedAtEnd == 2

Finish ==
  /\ pc = "close"
  /\ Answer("200", used - ClosedAtEnd)
  /\ UNCHANGED dirs

-----------------------------------------------------------------------------
Init ==
  /\ conn = [k \in Client |-> "idle"] /\ said = [k \in Client |-> "nothing"]
  /\ want = [k \in Client |-> NoRequest] /\ got = [k \in Client |-> "none"]
  /\ followed = [k \in Client |-> FALSE] /\ queue = <<>>
  /\ pc = "accept" /\ method = "none" /\ path = NoRequest.path
  /\ cur = CHOOSE k \in Client : TRUE
  /\ used = 0 /\ dirs = 0

Speak(k) == \/ \E what \in {"method", "all"} : Say(k, what)
            \/ \E how \in {"left", "reset"} : Leave(k, how)
Server == \/ Accept \/ RecvFails \/ Recv \/ NotImplemented \/ NotFound
          \/ Open \/ Redirect \/ Forbidden \/ OpenIndex \/ PlainFile
          \/ SendHeader \/ SendBody \/ Finish
Next == Server \/ \E k \in Client : Connect(k) \/ Follow(k) \/ Speak(k)

Spec     == Init /\ [][Next]_vars
\* The server runs; a client it waits for says something or closes its end.
FairSpec == Spec /\ WF_vars(Server) /\ \A k \in Client : WF_vars(Speak(k))

-----------------------------------------------------------------------------
Waiting == {queue[j] : j \in 1..Len(queue)}
Busy    == pc \notin {"accept", "dead"}
FileOpen == pc \in {"opened", "header", "body", "close"}

\* Connections are neither lost nor kept: one that is not closed waits for
\* accept, once, or is the one being answered.
ConnectionsHeld ==
  pc # "dead" =>
    /\ \A k \in Client : conn[k] # "idle" <=> k \in Waiting \/ (Busy /\ k = cur)
    /\ \A j, l \in 1..Len(queue) : queue[j] = queue[l] => j = l
    /\ Busy => cur \notin Waiting

\* Every descriptor is that of the connection being answered, of the file it
\* asks for, or was left open by an answer about a directory: no other way out
\* of handle_request leaks one.  The last one is never leaked, because leaking
\* takes two: accept always succeeds.
DescriptorsAccounted ==
  /\ pc # "dead" => used = dirs + (IF Busy THEN 1 ELSE 0) + (IF FileOpen THEN 1 ELSE 0)
  /\ dirs < Limit /\ (pc = "accept" => used < Limit)

\* What a request deserves.
Expected(r) ==
  LET n == IF r.path.name = "root" THEN Index ELSE Decoded[r.path.name] IN
  CASE r.method # "GET"                                       -> "501"
    [] r.method = "GET" /\ Kind[n] = "none"                   -> "404"
    [] r.method = "GET" /\ Kind[n] = "dir" /\ ~Kept(r.path)   -> "301"
    [] r.method = "GET" /\ Kind[n] = "dir" /\ Kept(r.path)    ->
         IF n \in Indexed THEN "200" ELSE "403"
    [] r.method = "GET" /\ Kind[n] = "file"                   ->
         IF Kept(r.path) /\ r.path.name # "root" THEN "404" ELSE "200"

\* Whatever others have asked for before, in part or whole, a request that has
\* come whole gets the answer it deserves; only after Limit - 1 answers about
\* directories can it be told that something is missing that is there.
AnswerDeserved ==
  \A k \in Client : said[k] = "all" /\ got[k] # "none" =>
    \/ got[k] = Expected(want[k])
    \/ got[k] \in {"403", "404"} /\ dirs >= Limit - 1

\* What handle_request has in hand is the request of its client, resolved once
\* file is open; a client that is not answered yet has no answer of an earlier
\* request.
RequestInHand ==
  /\ \A k \in Client : conn[k] # "idle" => got[k] = "none"
  /\ Busy /\ pc # "recv" => said[cur] # "nothing" \/ conn[cur] # "open"
  /\ pc = "parsed" /\ said[cur] = "all" => method = want[cur].method /\ path = want[cur].path
  /\ FileOpen =>
       /\ path.name \in Name /\ Exists(path)
       /\ said[cur] = "all" => want[cur].method = "GET" /\ path = Resolved(want[cur].path)
  /\ pc \in {"header", "body", "close"} /\ IsDir => path.slash /\ path.name \in Indexed

\* A 301 has sent its client to a directory, and with a slash.
FollowsToDir ==
  \A k \in Client : followed[k] =>
    /\ want[k].method = "GET" /\ want[k].path.slash /\ want[k].path.query = "none"
    /\ want[k].path.name \in Name /\ Kind[want[k].path.name] = "dir"

\* What the server keeps from request to request: each part needs the others.
\* That a 301 never answers a request for the root, which has no name to go on
\* with, is a case of AnswerDeserved.
IInv == /\ TypeOK /\ ConnectionsHeld /\ DescriptorsAccounted
        /\ RequestInHand /\ FollowsToDir /\ AnswerDeserved

\* A client that goes where a 301 sends it finds the directory, unless its name
\* can be decoded once more or the descriptors run out.
RedirectFinds ==
  \A k \in Client : LET n == want[k].path.name IN
    followed[k] /\ said[k] = "all" /\ Decoded[n] = n =>
      \/ got[k] \in {"none", IF n \in Indexed THEN "200" ELSE "403"}
      \/ got[k] \in {"403", "404"} /\ dirs >= Limit - 1

\* A connection that waits is answered and closed in the end, however many
\* descriptors have been leaked, unless the process ends.
Served ==
  \A k \in Client : (conn[k] # "idle") ~> (conn[k] = "idle" \/ pc = "dead")
=============================================================================
