------------------------------- MODULE EventLoop -------------------------------
(***************************************************************************)
(* The loop of hw2's main over epoll: events come in batches, and while a  *)
(* batch is worked through its later events get older.  The descriptors    *)
(* are blocking and read once for each event, so an event that is stale    *)
(* when its turn comes stops the server.                                   *)
(***************************************************************************)
EXTENDS ReadyEvents, SequencesExt

CONSTANT Batch      \* the events taken at a time: 20

ASSUME BatchAssumption == Batch \in Nat \ {0}

VARIABLES
  ready,            \* external: the kernel's list of ready descriptors
  batch             \* events still to be handled, with whose they were when taken

vars == <<events, ready, batch>>

Listen == 0         \* listenfd's place in ready

TypeOK ==
  /\ EventTypes
  /\ ready \in Seq({Listen} \cup Fd)
  /\ batch \in Seq([fd : {Listen} \cup Fd, who : Clients \cup {Listen}])

Signal(list, fd)  == IF Contains(list, fd) THEN list ELSE Append(list, fd)
Holder(fd)        == CHOOSE c \in Clients : connfd[c] = fd
IsHeld(fd)        == fd \in Fd \ Free
Due(fd)           == IF fd = Listen THEN backlog # <<>> ELSE IsHeld(fd) /\ Readable(Holder(fd))

-----------------------------------------------------------------------------
\* External: what a client does makes its descriptor ready.

Arrives(c) ==
  /\ \/ Connect(c) /\ ready' = Signal(ready, Listen)
     \/ (Say(c) \/ HangUp(c)) /\ ready' = IF At(c) THEN Signal(ready, connfd[c]) ELSE ready
  /\ UNCHANGED batch

\* Mutant: the descriptors are watched by edge, but accept and read still done once.
ByEdge(left, taken)  == left
\* External: what has been taken goes back to the end of the list, as the kernel
\* does for descriptors that are watched by level.
ByLevel(left, taken) == left \o taken

\* s has elements of list, each once, in the order they have there.
InOrderOf(s, list) ==
  \A i, j \in 1..Len(s) : i < j =>
    \E k, l \in 1..Len(list) : k < l /\ s[i] = list[k] /\ s[j] = list[l]

\* External: the kernel goes through its list from the front until it has Batch
\* events or the list ends, and drops what is no longer ready.
epoll_wait ==
  /\ up /\ batch = <<>>
  /\ \E n \in 1..Len(ready), k \in 1..Batch :
       LET seen == SubSeq(ready, 1, n) IN
       /\ k <= n /\ (n = Len(ready) \/ (k = Batch /\ Due(ready[n])))
       /\ \E taken \in [1..k -> ToSet(seen)] :
            /\ InOrderOf(taken, seen)
            /\ \A fd \in ToSet(seen) : Contains(taken, fd) <=> Due(fd)
            /\ batch' = [i \in 1..k |->
                 [fd |-> taken[i], who |-> IF taken[i] = Listen THEN Listen ELSE Holder(taken[i])]]
            /\ ready' = ByLevel(SubSeq(ready, n + 1, Len(ready)), taken)
  /\ UNCHANGED events

\* Mutant: the same event once more.
SameEvent == batch' = batch
NextEvent == batch' = Tail(batch)

\* The first event of the batch; a new connection may be readable at once.
HandleAccept ==
  /\ batch # <<>> /\ Head(batch).fd = Listen
  /\ \/ Accept /\ ready' = LET c == Head(backlog) IN
                           IF inbox[c] > 0 \/ c \in hung THEN Signal(ready, connfd'[c]) ELSE ready
     \/ AcceptFails /\ UNCHANGED ready
  /\ NextEvent

\* connfd is the number only: the event goes to whoever has it now.
IsFor(c) == connfd[c] = Head(batch).fd

Without(list, fd) ==
  IF Contains(list, fd) THEN RemoveAt(list, CHOOSE i \in 1..Len(list) : list[i] = fd) ELSE list

\* A descriptor that is closed leaves the list.
HandleRead(c) ==
  /\ batch # <<>> /\ IsFor(c)
  /\ Read(c)
  /\ ready' = IF connfd'[c] = Away THEN Without(ready, connfd[c]) ELSE ready
  /\ NextEvent

LoopInit == Init /\ ready = <<>> /\ batch = <<>>
Main     == epoll_wait \/ HandleAccept \/ \E c \in Clients : HandleRead(c)
LoopNext == Main \/ \E c \in Clients : Arrives(c)
LoopSpec == LoopInit /\ [][LoopNext]_vars /\ WF_vars(Main)

-----------------------------------------------------------------------------
\* No event is stale when its turn comes: the descriptor has the connection it
\* had when the batch was taken, though numbers are used again within a batch,
\* and the accept or read will not block.
NeverBlocks ==
  up /\ batch # <<>> =>
    LET event == Head(batch) IN
    /\ Due(event.fd)
    /\ event.fd # Listen => Holder(event.fd) = event.who

\* Nothing that is ready is forgotten by the list or the batch.
NothingForgotten ==
  up => \A fd \in {Listen} \cup Fd : Due(fd) => Contains(ready, fd)

\* A client that has two prompts in hand when it sends, since the greeting has
\* two, is never misread: no two of its commands are taken for one.  One whose account
\* another client uses too is not so safe: that client may take the account to a room,
\* whose closing is a prompt for both (hw2_chat_server.cpp line 415).
OneAtATime == Patience >= Greeting => \A c \in Clients \ shared : inbox[c] <= 1

\* A descriptor is one connection's; the backlog has those that wait, once each;
\* and of a client that has gone nothing is left to be read.
ConnectionsDistinct ==
  /\ \A c, d \in Clients : At(c) /\ connfd[c] = connfd[d] => c = d
  /\ \A c \in Clients : connfd[c] = Queued <=> Contains(backlog, c)
  /\ \A i, j \in 1..Len(backlog) : backlog[i] = backlog[j] => i = j
  /\ \A c \in Clients : connfd[c] = Away => inbox[c] = 0 /\ c \notin hung

\* What NeverBlocks says of the first event holds of the whole batch, in which no
\* descriptor comes twice: handling one event leaves the others fresh.
BatchFresh ==
  /\ \A i, j \in 1..Len(ready) : ready[i] = ready[j] => i = j
  /\ \A i, j \in 1..Len(batch) : batch[i].fd = batch[j].fd => i = j
  /\ up => \A i \in 1..Len(batch) :
       /\ Due(batch[i].fd)
       /\ batch[i].fd # Listen => Holder(batch[i].fd) = batch[i].who

\* The prompts a client has and the commands it has sent make up the greeting at
\* most: it gets one prompt for one read, those in a room when it is closed.
PromptsCounted ==
  /\ \A c \in quiet \cup shared : At(c)
  /\ \A c \in Clients \ shared :
       inbox[c] + credit[c] <= IF c \in quiet THEN Greeting - 1 ELSE IF At(c) THEN Greeting ELSE 0

\* What the loop keeps from event to event.
IInv == /\ TypeOK /\ NothingForgotten /\ NeverBlocks /\ OneAtATime
        /\ ConnectionsDistinct /\ BatchFresh /\ PromptsCounted

\* The batches come to the same as handling any ready event at any time, and
\* no connection is kept waiting for ever by the others, however busy.
Flat == INSTANCE ReadyEvents
ServesAsFlat == Flat!Spec
=============================================================================
