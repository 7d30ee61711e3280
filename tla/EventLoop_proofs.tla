--------------------------- MODULE EventLoop_proofs ---------------------------
(***************************************************************************)
(* IInv is an invariant of the event loop for any number of clients and    *)
(* descriptors, batches of any size and clients of any patience: no event  *)
(* of a batch is stale when its turn comes.                                *)
(***************************************************************************)
EXTENDS EventLoop, SequenceFacts

\* A descriptor that is held has one holder.
LEMMA HolderIs ==
  ConnectionsDistinct =>
    /\ \A c \in Clients : At(c) => Holder(connfd[c]) = c /\ IsHeld(connfd[c])
    /\ \A fd : IsHeld(fd) => Holder(fd) \in Clients /\ connfd[Holder(fd)] = fd /\ fd \in Fd
<1> SUFFICES ASSUME ConnectionsDistinct
             PROVE  HolderIs!2
  OBVIOUS
<1>1. \A c, d \in Clients : At(c) /\ connfd[c] = connfd[d] => c = d
  BY DEF ConnectionsDistinct
<1>2. ASSUME NEW c \in Clients, At(c) PROVE Holder(connfd[c]) = c /\ IsHeld(connfd[c])
  <2>1. \A d \in Clients : connfd[d] = connfd[c] => d = c
    BY <1>1, <1>2
  <2>2. Holder(connfd[c]) = c
    BY <2>1 DEF Holder
  <2> QED BY <1>2, <2>2 DEF IsHeld, At, Free
<1>3. ASSUME NEW fd, IsHeld(fd)
      PROVE  Holder(fd) \in Clients /\ connfd[Holder(fd)] = fd /\ fd \in Fd
  BY <1>3 DEF IsHeld, Free, Holder
<1> QED BY <1>2, <1>3

\* What Due says of a descriptor, said of its holder.
LEMMA DueIs ==
  ConnectionsDistinct =>
    /\ Due(Listen) <=> backlog # <<>>
    /\ \A fd \in Fd : Due(fd) <=>
         \E c \in Clients : connfd[c] = fd /\ (inbox[c] > 0 \/ c \in hung)
    /\ \A c \in Clients : At(c) => (Due(connfd[c]) <=> (inbox[c] > 0 \/ c \in hung))
<1> SUFFICES ASSUME ConnectionsDistinct PROVE DueIs!2
  OBVIOUS
<1>1. Due(Listen) <=> backlog # <<>>
  BY DEF Due
<1>2. \A fd \in Fd : fd # Listen
  BY DEF Fd, Listen
<1>3. ASSUME NEW c \in Clients, At(c)
      PROVE  Due(connfd[c]) <=> (inbox[c] > 0 \/ c \in hung)
  BY <1>2, <1>3, HolderIs DEF Due, Readable, At
<1>4. ASSUME NEW fd \in Fd
      PROVE  Due(fd) <=> \E c \in Clients : connfd[c] = fd /\ (inbox[c] > 0 \/ c \in hung)
  <2>1. CASE IsHeld(fd)
    <3>1. PICK c \in Clients : connfd[c] = fd
      BY <2>1, HolderIs
    <3>2. At(c) /\ \A d \in Clients : connfd[d] = fd => d = c
      BY <3>1 DEF At, ConnectionsDistinct
    <3> QED BY <1>3, <3>1, <3>2
  <2>2. CASE ~IsHeld(fd)
    BY <1>2, <2>2 DEF Due, IsHeld, Free
  <2> QED BY <2>1, <2>2
<1> QED BY <1>1, <1>3, <1>4

\* NeverBlocks is what BatchFresh says of the first event.
LEMMA FreshNeverBlocks == TypeOK /\ BatchFresh => NeverBlocks
<1> SUFFICES ASSUME TypeOK, BatchFresh, up, batch # <<>>
             PROVE  LET event == Head(batch) IN
                    /\ Due(event.fd) /\ (event.fd # Listen => Holder(event.fd) = event.who)
  BY DEF NeverBlocks
<1>1. Len(batch) \in Nat /\ Len(batch) # 0 /\ Head(batch) = batch[1]
  BY EmptySeq, LenProperties, HeadTailProperties DEF TypeOK
<1>2. 1 \in 1..Len(batch)
  BY <1>1
<1> QED BY <1>1, <1>2 DEF BatchFresh

LEMMA InitIInv == LoopInit => IInv
<1> SUFFICES ASSUME LoopInit PROVE IInv
  OBVIOUS
<1> USE DEF LoopInit, Init
<1>1. TypeOK
  BY SizeAssumption, EmptySeq DEF TypeOK, EventTypes, Greeting, MaxPrompts
<1>2. ConnectionsDistinct /\ PromptsCounted /\ OneAtATime
  BY DEF ConnectionsDistinct, PromptsCounted, OneAtATime, At, Fd, Away, Queued, Contains
<1>3. BatchFresh
  BY DEF BatchFresh
<1>4. NothingForgotten
  BY <1>2, DueIs DEF NothingForgotten, Away, Fd
<1> QED BY <1>1, <1>2, <1>3, <1>4, FreshNeverBlocks DEF IInv

-----------------------------------------------------------------------------
\* The connections, whatever the loop makes of them.

\* accept finds a lowest descriptor.
LEMMA LowestIsFree ==
  ASSUME Free # {}
  PROVE  (CHOOSE fd \in Free : \A g \in Free : fd <= g) \in Free
<1>1. Free \subseteq Nat /\ Free # {}
  BY SizeAssumption DEF Free, Fd
<1>2. \E fd \in Free : \A g \in Free : fd <= g
  BY <1>1, LeastOf
<1> QED BY <1>2

EventInv == EventTypes /\ ConnectionsDistinct /\ PromptsCounted /\ OneAtATime

LEMMA ConnectKeeps ==
  ASSUME EventInv, NEW c \in Clients, Connect(c)
  PROVE  EventInv'
<1> USE DEF EventInv, Connect
<1>1. /\ Append(backlog, c) \in Seq(Clients)
      /\ \A d : Contains(Append(backlog, c), d) <=> Contains(backlog, d) \/ d = c
      /\ \A i, j \in 1..Len(Append(backlog, c)) :
           Append(backlog, c)[i] = Append(backlog, c)[j] => i = j
  <2>1. ~Contains(backlog, c)
    BY DEF ConnectionsDistinct, Away, Queued
  <2>2. \A i \in 1..Len(backlog) : backlog[i] # c
    BY <2>1 DEF Contains
  <2> QED BY <2>2, AppendDistinct, AppendContains DEF EventTypes, ConnectionsDistinct
<1>2. EventTypes'
  BY <1>1 DEF EventTypes, prompts
<1>3. /\ connfd'[c] = Queued /\ ~At(c)' /\ \A d \in Clients : d # c => connfd'[d] = connfd[d]
      /\ inbox[c] = 0 /\ ~At(c)
  BY DEF EventTypes, ConnectionsDistinct, At, Fd, Queued, Away
<1>4. ConnectionsDistinct'
  BY <1>1, <1>3 DEF ConnectionsDistinct, At, Queued, Away
<1>5. PromptsCounted' /\ OneAtATime'
  BY <1>3 DEF prompts, PromptsCounted, OneAtATime, At
<1> QED BY <1>2, <1>4, <1>5

LEMMA SayKeeps ==
  ASSUME EventInv, NEW c \in Clients, Say(c)
  PROVE  EventInv'
<1> USE DEF EventInv, Say
<1>1. /\ EventTypes' /\ \A d \in Clients : d # c => inbox'[d] = inbox[d] /\ credit'[d] = credit[d]
      /\ inbox'[c] = inbox[c] + 1 /\ credit'[c] = credit[c] - 1
      /\ inbox[c] \in Nat /\ credit[c] \in Int /\ credit[c] >= Patience /\ Patience \in Nat
  <2>1. inbox[c] \in 0..MaxInbox /\ credit[c] \in -1..MaxPrompts
    BY DEF EventTypes
  <2>2. Patience \in Nat /\ MaxInbox \in Nat /\ MaxPrompts = 3
    BY SizeAssumption DEF Greeting, MaxPrompts
  <2>3. inbox[c] + 1 \in 0..MaxInbox /\ credit[c] - 1 \in -1..MaxPrompts
    BY <2>1, <2>2
  <2> QED BY <2>1, <2>2, <2>3 DEF EventTypes
<1>2. \A d \in Clients : inbox'[d] + credit'[d] = inbox[d] + credit[d]
  BY <1>1 DEF EventTypes
<1>3. ConnectionsDistinct'
  BY <1>1 DEF ConnectionsDistinct, At
<1>4. PromptsCounted'
  BY <1>2 DEF PromptsCounted, At
<1>5. OneAtATime'
  <2> SUFFICES ASSUME Patience >= Greeting, NEW d \in Clients \ shared PROVE inbox'[d] <= 1
    BY DEF OneAtATime
  <2>1. CASE d # c
    BY <1>1, <2>1 DEF OneAtATime
  <2>2. CASE d = c
    <3>1. inbox[c] + credit[c] <= Greeting
      BY <1>1, <2>2 DEF PromptsCounted, Greeting
    <3> QED BY <1>1, <2>2, <3>1 DEF Greeting
  <2> QED BY <2>1, <2>2
<1> QED BY <1>1, <1>3, <1>4, <1>5

LEMMA HangUpKeeps ==
  ASSUME EventInv, NEW c \in Clients, HangUp(c)
  PROVE  EventInv'
BY DEF EventInv, HangUp, server, prompts, EventTypes, ConnectionsDistinct, PromptsCounted, OneAtATime, At

LEMMA AcceptFailsKeeps ==
  ASSUME EventInv, AcceptFails
  PROVE  EventInv'
BY DEF EventInv, AcceptFails, prompts, EventTypes, ConnectionsDistinct, PromptsCounted, OneAtATime, At

\* The client at the head of the queue gets a descriptor that nobody has.
LEMMA AcceptMoves ==
  ASSUME EventInv, Accept
  PROVE  LET c == Head(backlog) IN
         /\ c \in Clients /\ connfd[c] = Queued /\ connfd'[c] \in Free
         /\ \A d \in Clients : d # c => connfd'[d] = connfd[d]
<1> USE DEF EventInv, Accept
<1>1. Head(backlog) \in Clients /\ Contains(backlog, Head(backlog))
  <2>1. Len(backlog) \in Nat \ {0} /\ Head(backlog) = backlog[1] /\ Head(backlog) \in Clients
    BY EmptySeq, HeadTailProperties DEF EventTypes
  <2> QED BY <2>1 DEF Contains
<1> QED BY <1>1, LowestIsFree DEF EventTypes, ConnectionsDistinct

LEMMA AcceptKeeps ==
  ASSUME EventInv, Accept
  PROVE  EventInv'
<1> USE DEF EventInv
<1>c. PICK c : c = Head(backlog)
  OBVIOUS
<1>0. /\ backlog # <<>> /\ backlog' = Tail(backlog) /\ UNCHANGED <<up, inbox, hung, quiet, shared>>
      /\ credit' = [credit EXCEPT ![c] = @ + Greeting]
      /\ connfd' = [connfd EXCEPT ![c] = connfd'[c]]
  <2> DEFINE lowest == CHOOSE fd \in Free : \A g \in Free : fd <= g
  <2>1. c \in Clients
    BY <1>c, AcceptMoves
  <2>2. /\ backlog # <<>> /\ backlog' = Tail(backlog) /\ UNCHANGED <<up, inbox, hung, quiet, shared>>
        /\ credit' = [credit EXCEPT ![c] = @ + Greeting]
        /\ connfd' = [connfd EXCEPT ![c] = lowest]
    BY <1>c DEF Accept
  <2> HIDE DEF lowest
  <2>3. connfd'[c] = lowest
    BY <2>1, <2>2 DEF EventTypes
  <2> QED BY <2>2, <2>3
<1>1. /\ c \in Clients /\ connfd[c] = Queued /\ connfd'[c] \in Free /\ connfd'[c] \in Fd
      /\ \A d \in Clients : d # c => connfd'[d] = connfd[d]
  BY <1>c, AcceptMoves DEF Free
<1>2. /\ Tail(backlog) \in Seq(Clients)
      /\ \A d : Contains(Tail(backlog), d) <=> Contains(backlog, d) /\ d # c
      /\ \A i, j \in 1..Len(Tail(backlog)) : Tail(backlog)[i] = Tail(backlog)[j] => i = j
  BY <1>0, <1>c, TailDistinct, TailContains DEF EventTypes, ConnectionsDistinct
<1>3. \A d \in Clients : connfd[d] = Queued => ~At(d)
  BY SizeAssumption DEF At, Fd, Queued
<1>4. /\ inbox[c] \in Nat /\ credit[c] \in -1..MaxPrompts /\ inbox[c] + credit[c] <= 0
      /\ c \notin quiet /\ c \notin shared
  BY <1>1, <1>3 DEF EventTypes, PromptsCounted
<1>5. credit[c] + Greeting \in -1..MaxPrompts
  BY <1>4 DEF Greeting, MaxPrompts
<1>6. EventTypes'
  BY <1>0, <1>1, <1>2, <1>5 DEF EventTypes
<1>7. ConnectionsDistinct'
  <2>1. ASSUME NEW d \in Clients, NEW e \in Clients, At(d)', connfd'[d] = connfd'[e]
        PROVE  d = e
    <3>1. \A f \in Clients : connfd[f] # connfd'[c]
      BY <1>1 DEF Free
    <3> QED BY <1>1, <2>1, <3>1 DEF ConnectionsDistinct, At
  <2>2. \A d \in Clients : connfd'[d] = Queued <=> Contains(backlog', d)
    <3>1. connfd'[c] # Queued
      BY <1>1, SizeAssumption DEF Fd, Queued
    <3> QED BY <1>0, <1>1, <1>2, <3>1 DEF ConnectionsDistinct
  <2>3. \A d \in Clients : connfd'[d] = Away => inbox'[d] = 0 /\ d \notin hung'
    <3>1. connfd'[c] # Away
      BY <1>1, SizeAssumption DEF Fd, Away
    <3> QED BY <1>0, <1>1, <3>1 DEF ConnectionsDistinct
  <2> QED BY <1>0, <1>2, <2>1, <2>2, <2>3 DEF ConnectionsDistinct
<1>8. PromptsCounted'
  <2>1. /\ credit'[c] = credit[c] + Greeting /\ inbox' = inbox /\ At(c)'
        /\ \A d \in Clients : d # c => credit'[d] = credit[d] /\ (At(d)' <=> At(d))
    <3>1. At(c)' /\ \A d \in Clients : d # c => (At(d)' <=> At(d))
      BY <1>1 DEF At, Fd
    <3>2. credit \in [Clients -> -1..MaxPrompts]
      BY DEF EventTypes
    <3> QED BY <1>0, <1>1, <3>1, <3>2
  <2>2. inbox[c] + (credit[c] + Greeting) <= Greeting
    BY <1>4 DEF Greeting
  <2>3. \A d \in quiet' \cup shared' : At(d)'
    BY <1>0, <1>4, <2>1 DEF PromptsCounted, EventTypes
  <2>4. ASSUME NEW d \in Clients \ shared'
        PROVE  inbox'[d] + credit'[d] <=
                 IF d \in quiet' THEN Greeting - 1 ELSE IF At(d)' THEN Greeting ELSE 0
    <3>1. CASE d = c
      BY <1>0, <1>4, <2>1, <2>2, <3>1
    <3>2. CASE d # c
      BY <1>0, <2>1, <3>2 DEF PromptsCounted
    <3> QED BY <3>1, <3>2
  <2> QED BY <2>3, <2>4 DEF PromptsCounted
<1>9. OneAtATime'
  BY <1>0 DEF OneAtATime
<1> QED BY <1>6, <1>7, <1>8, <1>9

\* What a prompt does to the count of those who get it.
LEMMA PromptGiven ==
  ASSUME EventTypes, NEW told \in SUBSET Clients, GivePrompt(told)
  PROVE  /\ credit' \in [Clients -> -1..MaxPrompts]
         /\ \A c \in told : credit'[c] <= credit[c] + 1
         /\ \A c \in Clients \ told : credit'[c] = credit[c]
<1>1. \A c \in Clients : credit[c] \in -1..MaxPrompts
  BY DEF EventTypes
<1>2. MaxPrompts = 3
  BY DEF MaxPrompts, Greeting
<1>3. \A c \in Clients :
        credit'[c] = IF c \in told /\ credit[c] < MaxPrompts THEN credit[c] + 1 ELSE credit[c]
  BY DEF GivePrompt
<1>4. \A c \in Clients : credit'[c] \in -1..MaxPrompts /\ credit'[c] <= credit[c] + 1
  BY <1>1, <1>2, <1>3
<1>5. credit' \in [Clients -> -1..MaxPrompts]
  BY <1>4 DEF GivePrompt
<1> QED BY <1>3, <1>4, <1>5

\* Whatever the command, its client is owed one prompt less or is quiet, and of the
\* others only those get one who were quiet or do not count.
LEMMA PromptsOf ==
  ASSUME EventInv, NEW c \in Clients, At(c), Prompt(c) \/ CloseRoom(c) \/ Login(c)
  PROVE  /\ credit' \in [Clients -> -1..MaxPrompts]
         /\ shared \subseteq shared' /\ \A d \in shared' : d \in shared \/ (d \in Clients /\ At(d))
         /\ quiet' \subseteq quiet \cup {c}
         /\ \/ credit'[c] <= credit[c] + 1 /\ c \notin quiet'
            \/ credit'[c] = credit[c] /\ c \in quiet'
         /\ \A d \in Clients \ shared : d # c =>
              \/ credit'[d] = credit[d] /\ (d \in quiet' <=> d \in quiet)
              \/ credit'[d] <= credit[d] + 1 /\ d \in quiet /\ d \notin quiet'
<1> USE DEF EventInv
<1>1. credit \in [Clients -> -1..MaxPrompts] /\ quiet \subseteq Clients /\ shared \subseteq Clients
  BY DEF EventTypes
<1>2. CASE Prompt(c)
  <2>1. CASE GivePrompt({c}) /\ quiet' = quiet \ {c}
    <3>1. {c} \in SUBSET Clients
      OBVIOUS
    <3> QED BY <1>1, <1>2, <2>1, <3>1, PromptGiven DEF Prompt
  <2>2. CASE UNCHANGED credit /\ quiet' = quiet \cup {c}
    BY <1>1, <1>2, <2>2 DEF Prompt
  <2> QED BY <1>2, <2>1, <2>2 DEF Prompt
<1>3. CASE CloseRoom(c)
  <2>1. PICK told \in SUBSET ((quiet \cup shared) \ {c}) :
          GivePrompt(told \cup {c}) /\ quiet' = quiet \ (told \cup {c})
    BY <1>3 DEF CloseRoom
  <2>2. told \cup {c} \in SUBSET Clients /\ shared' = shared
    BY <1>1, <1>3, <2>1 DEF CloseRoom
  <2>3. \A d \in Clients \ shared : d \in told => d \in quiet /\ d \notin quiet'
    BY <2>1
  <2>4. \A d \in Clients : d \notin told /\ d # c => (d \in quiet' <=> d \in quiet)
    BY <2>1
  <2> QED BY <1>1, <2>1, <2>2, <2>3, <2>4, PromptGiven
<1>4. CASE Login(c)
  <2>1. {c} \in SUBSET Clients
    OBVIOUS
  <2>2. PICK d \in Clients : At(d) /\ shared' = shared \cup {c, d}
    BY <1>4 DEF Login
  <2> QED BY <1>1, <1>4, <2>1, <2>2, PromptGiven DEF Login
<1> QED BY <1>2, <1>3, <1>4

\* A client whose end is closed is gone and leaves nothing behind.
LEMMA ReadKeeps ==
  ASSUME EventInv, NEW c \in Clients, Read(c)
  PROVE  EventInv'
<1> USE DEF EventInv
<1>1. /\ At(c) /\ UNCHANGED <<up, backlog>> /\ inbox[c] \in Nat /\ credit[c] \in -1..MaxPrompts
      /\ MaxPrompts = 3 /\ Greeting = 2
  BY DEF Read, EventTypes, MaxPrompts, Greeting
<1>2. CASE Close(c)
  <2>1. /\ connfd'[c] = Away /\ ~At(c)' /\ inbox'[c] = 0 /\ credit'[c] = 0 /\ c \notin hung'
        /\ \A d \in Clients : d # c =>
             /\ connfd'[d] = connfd[d] /\ inbox'[d] = inbox[d] /\ credit'[d] = credit[d]
             /\ (d \in hung' <=> d \in hung)
        /\ quiet' = quiet \ {c} /\ shared' = shared \ {c}
    BY <1>2 DEF Close, EventTypes, At, Fd, Away
  <2>2. EventTypes'
    <3>1. 0 \in 0..MaxInbox /\ 0 \in -1..MaxPrompts
      BY <1>1, SizeAssumption
    <3> QED BY <1>1, <1>2, <3>1 DEF Close, EventTypes
  <2>3. ConnectionsDistinct'
    <3>1. connfd[c] # Queued /\ Away # Queued
      BY <1>1 DEF At, Fd, Queued, Away
    <3> QED BY <1>1, <2>1, <3>1 DEF ConnectionsDistinct, At
  <2>4. PromptsCounted'
    <3>1. \A d \in Clients : d # c => (At(d)' <=> At(d))
      BY <2>1 DEF At
    <3>2. \A d \in quiet' \cup shared' : At(d)'
      BY <2>1, <3>1 DEF PromptsCounted, EventTypes
    <3>3. ASSUME NEW d \in Clients \ shared'
          PROVE  inbox'[d] + credit'[d] <=
                   IF d \in quiet' THEN Greeting - 1 ELSE IF At(d)' THEN Greeting ELSE 0
      <4>1. CASE d = c
        BY <1>1, <2>1, <4>1
      <4>2. CASE d # c
        BY <2>1, <3>1, <4>2 DEF PromptsCounted
      <4> QED BY <4>1, <4>2
    <3> QED BY <3>2, <3>3 DEF PromptsCounted
  <2>5. OneAtATime'
    BY <2>1 DEF OneAtATime
  <2> QED BY <2>2, <2>3, <2>4, <2>5
<1>3. CASE /\ inbox[c] > 0 /\ inbox' = [inbox EXCEPT ![c] = 0] /\ UNCHANGED <<connfd, hung>>
           /\ Prompt(c) \/ CloseRoom(c) \/ Login(c)
  <2>1. /\ inbox'[c] = 0 /\ \A d \in Clients : d # c => inbox'[d] = inbox[d]
        /\ credit' \in [Clients -> -1..MaxPrompts]
        /\ shared \subseteq shared' /\ \A d \in shared' : d \in shared \/ (d \in Clients /\ At(d))
        /\ quiet' \subseteq quiet \cup {c}
        /\ \/ credit'[c] <= credit[c] + 1 /\ c \notin quiet'
           \/ credit'[c] = credit[c] /\ c \in quiet'
        /\ \A d \in Clients \ shared : d # c =>
             \/ credit'[d] = credit[d] /\ (d \in quiet' <=> d \in quiet)
             \/ credit'[d] <= credit[d] + 1 /\ d \in quiet /\ d \notin quiet'
    BY <1>1, <1>3, PromptsOf DEF EventTypes
  <2>2. EventTypes'
    <3>1. 0 \in 0..MaxInbox
      BY SizeAssumption
    <3> QED BY <1>1, <1>3, <2>1, <3>1 DEF EventTypes
  <2>3. ConnectionsDistinct'
    BY <1>1, <1>3, <2>1 DEF ConnectionsDistinct, At
  <2>4. PromptsCounted'
    <3>1. \A d \in Clients : At(d)' <=> At(d)
      BY <1>3 DEF At
    <3>2. \A d \in quiet' \cup shared' : At(d)'
      BY <1>1, <2>1, <3>1 DEF PromptsCounted, EventTypes
    <3>3. ASSUME NEW d \in Clients \ shared'
          PROVE  inbox'[d] + credit'[d] <=
                   IF d \in quiet' THEN Greeting - 1 ELSE IF At(d)' THEN Greeting ELSE 0
      <4>1. /\ d \in Clients \ shared /\ inbox[d] \in Nat /\ credit[d] \in Int /\ credit'[d] \in Int
            /\ inbox[d] + credit[d] <= IF d \in quiet THEN Greeting - 1 ELSE IF At(d) THEN Greeting ELSE 0
        BY <2>1 DEF EventTypes, PromptsCounted
      <4>2. CASE d = c
        BY <1>1, <1>3, <2>1, <3>1, <4>1, <4>2
      <4>3. CASE d # c /\ credit'[d] = credit[d] /\ (d \in quiet' <=> d \in quiet)
        BY <2>1, <3>1, <4>1, <4>3
      <4>4. CASE d # c /\ credit'[d] <= credit[d] + 1 /\ d \in quiet /\ d \notin quiet'
        <5>1. At(d)'
          BY <3>1, <4>4 DEF PromptsCounted
        <5> QED BY <1>1, <2>1, <4>1, <4>4, <5>1
      <4> QED BY <2>1, <4>1, <4>2, <4>3, <4>4
    <3> QED BY <3>2, <3>3 DEF PromptsCounted
  <2>5. OneAtATime'
    BY <2>1 DEF OneAtATime
  <2> QED BY <2>2, <2>3, <2>4, <2>5
<1> QED BY <1>2, <1>3 DEF Read

-----------------------------------------------------------------------------
\* What a step leaves alone: fd is readable as before, for the same client.

Same(fd) == /\ Due(fd)' <=> Due(fd)
            /\ IsHeld(fd) => Holder(fd)' = Holder(fd)

LEMMA SameWhere ==
  ASSUME ConnectionsDistinct, ConnectionsDistinct', NEW fd \in Fd,
         \A c \in Clients :
           /\ connfd'[c] = fd <=> connfd[c] = fd
           /\ connfd[c] = fd => (inbox'[c] > 0 \/ c \in hung' <=> inbox[c] > 0 \/ c \in hung)
  PROVE  Same(fd)
<1>1. Due(fd) <=> \E c \in Clients : connfd[c] = fd /\ (inbox[c] > 0 \/ c \in hung)
  BY DueIs
<1>2. Due(fd)' <=> \E c \in Clients : connfd'[c] = fd /\ (inbox'[c] > 0 \/ c \in hung')
  <2>1. (ConnectionsDistinct => DueIs!2)'
    BY DueIs, PTL
  <2> QED BY <2>1
<1>3. ASSUME IsHeld(fd) PROVE Holder(fd)' = Holder(fd)
  <2>1. Holder(fd) \in Clients /\ connfd[Holder(fd)] = fd
    BY <1>3, HolderIs
  <2>2. \A d \in Clients : connfd'[d] = fd => d = Holder(fd)
    BY <2>1 DEF ConnectionsDistinct, At
  <2> HIDE DEF Holder
  <2>3. PICK c \in Clients : c = Holder(fd)
    BY <2>1
  <2>4. (CHOOSE d \in Clients : connfd'[d] = fd) = c
    BY <2>1, <2>2, <2>3
  <2> QED BY <2>3, <2>4 DEF Holder
<1> QED BY <1>1, <1>2, <1>3 DEF Same

\* What clients do makes nothing unreadable.
LEMMA ArrivalsAdd ==
  ASSUME EventInv, EventInv', NEW c \in Clients, Connect(c) \/ Say(c) \/ HangUp(c)
  PROVE  /\ Due(Listen) => Due(Listen)'
         /\ ~Connect(c) => (Due(Listen)' <=> Due(Listen))
         /\ \A fd \in Fd : Due(fd) => Due(fd)' /\ Holder(fd)' = Holder(fd)
         /\ \A fd \in Fd : Connect(c) \/ connfd[c] # fd => Same(fd)
<1> USE DEF EventInv
<1>1. /\ Due(Listen) <=> backlog # <<>>
      /\ \A fd \in Fd : Due(fd) <=> \E d \in Clients : connfd[d] = fd /\ (inbox[d] > 0 \/ d \in hung)
  BY DueIs
<1>2. /\ Due(Listen)' <=> backlog' # <<>>
      /\ \A fd \in Fd : Due(fd)' <=> \E d \in Clients : connfd'[d] = fd /\ (inbox'[d] > 0 \/ d \in hung')
  <2>1. (ConnectionsDistinct => DueIs!2)'
    BY DueIs, PTL
  <2> QED BY <2>1
<1>3. Due(Listen) => Due(Listen)'
  <2>1. CASE Connect(c)
    <3>1. backlog' # <<>>
      BY <2>1, AppendProperties DEF Connect, EventTypes
    <3> QED BY <1>2, <3>1
  <2> QED BY <1>1, <1>2, <2>1 DEF Say, HangUp
<1>4. ~Connect(c) => (Due(Listen)' <=> Due(Listen))
  BY <1>1, <1>2 DEF Say, HangUp
<1>5. ASSUME NEW fd \in Fd, Connect(c) \/ connfd[c] # fd PROVE Same(fd)
  <2>1. \A d \in Clients : connfd'[d] = fd <=> connfd[d] = fd
    <3>1. fd # Away /\ fd # Queued
      BY SizeAssumption DEF Fd, Away, Queued
    <3>2. CASE Connect(c)
      <4>1. connfd[c] = Away /\ connfd'[c] = Queued /\ \A d \in Clients : d # c => connfd'[d] = connfd[d]
        BY <3>2 DEF Connect, EventTypes
      <4> QED BY <3>1, <4>1
    <3>3. CASE ~Connect(c)
      BY <3>3 DEF Say, HangUp, server
    <3> QED BY <3>2, <3>3
  <2>2. \A d \in Clients : connfd[d] = fd =>
          (inbox'[d] > 0 \/ d \in hung' <=> inbox[d] > 0 \/ d \in hung)
    <3>1. CASE Connect(c)
      BY <3>1 DEF Connect
    <3>2. CASE ~Connect(c)
      BY <1>5, <3>2 DEF Say, HangUp, server, EventTypes
    <3> QED BY <3>1, <3>2
  <2> QED BY <2>1, <2>2, SameWhere
<1>6. ASSUME NEW fd \in Fd, Due(fd) PROVE Due(fd)' /\ Holder(fd)' = Holder(fd)
  <2>1. CASE Connect(c) \/ connfd[c] # fd
    <3>1. IsHeld(fd)
      BY <1>1, <1>6 DEF IsHeld, Free
    <3> QED BY <1>5, <1>6, <2>1, <3>1 DEF Same
  <2>2. CASE ~Connect(c) /\ connfd[c] = fd
    <3>1. connfd' = connfd
      BY <2>2 DEF Say, HangUp, server
    <3>2. \A d \in Clients : inbox[d] > 0 \/ d \in hung => inbox'[d] > 0 \/ d \in hung'
      <4>1. \A d \in Clients : inbox[d] \in Nat
        BY DEF EventTypes
      <4>2. CASE Say(c)
        <5>1. inbox'[c] = inbox[c] + 1 /\ hung' = hung /\ \A d \in Clients : d # c => inbox'[d] = inbox[d]
          BY <4>2 DEF Say, EventTypes
        <5> QED BY <4>1, <5>1
      <4>3. CASE HangUp(c)
        BY <4>3 DEF HangUp, server
      <4> QED BY <2>2, <4>2, <4>3
    <3> QED BY <1>1, <1>2, <1>6, <3>1, <3>2 DEF Holder
  <2> QED BY <2>1, <2>2
<1> QED BY <1>3, <1>4, <1>5, <1>6

\* A descriptor that accept gives was not due; the others stay as they were.
LEMMA AcceptAdds ==
  ASSUME EventInv, EventInv', Accept, NEW c, c = Head(backlog), NEW fd \in Fd
  PROVE  /\ fd = connfd'[c] => ~Due(fd) /\ (Due(fd)' => inbox[c] > 0 \/ c \in hung)
         /\ fd # connfd'[c] => Same(fd)
<1> USE DEF EventInv
<1>1. /\ c \in Clients /\ connfd[c] = Queued /\ connfd'[c] \in Free
      /\ \A d \in Clients : d # c => connfd'[d] = connfd[d]
      /\ inbox' = inbox /\ hung' = hung
  BY AcceptMoves DEF Accept
<1>2. fd = connfd'[c] => ~Due(fd)
  <2>1. fd = connfd'[c] => ~IsHeld(fd)
    BY <1>1 DEF IsHeld
  <2> QED BY <2>1, SizeAssumption DEF Due, Fd, Listen
<1>3. fd = connfd'[c] /\ Due(fd)' => inbox[c] > 0 \/ c \in hung
  <2>1. (ConnectionsDistinct => DueIs!2)'
    BY DueIs, PTL
  <2>2. Due(fd)' => \E d \in Clients : connfd'[d] = fd /\ (inbox'[d] > 0 \/ d \in hung')
    BY <2>1
  <2> QED BY <1>1, <2>2 DEF ConnectionsDistinct, At
<1>4. fd # connfd'[c] => Same(fd)
  <2>1. \A d \in Clients : fd # connfd'[c] => (connfd'[d] = fd <=> connfd[d] = fd)
    BY <1>1, SizeAssumption DEF Fd, Queued
  <2> QED BY <1>1, <2>1, SameWhere
<1> QED BY <1>2, <1>3, <1>4

\* read leaves nothing to be read, and changes only its own descriptor.
LEMMA ReadTakes ==
  ASSUME EventInv, EventInv', NEW c \in Clients, Read(c)
  PROVE  /\ Due(Listen)' <=> Due(Listen)
         /\ \A fd \in Fd : fd = connfd[c] => (Due(fd)' => Due(fd) /\ connfd'[c] # Away)
         /\ \A fd \in Fd : fd # connfd[c] => Same(fd)
<1> USE DEF EventInv
<1>1. /\ At(c) /\ backlog' = backlog
      /\ \A d \in Clients : d # c => /\ connfd'[d] = connfd[d] /\ inbox'[d] = inbox[d]
                                   /\ (d \in hung' <=> d \in hung)
      /\ connfd'[c] = Away \/ (connfd'[c] = connfd[c] /\ inbox'[c] = 0 /\ hung' = hung)
  BY DEF Read, Close, EventTypes
<1>2. \A fd \in Fd : fd # Away
  BY SizeAssumption DEF Fd, Away
<1>3. /\ Due(Listen) <=> backlog # <<>>
      /\ \A fd \in Fd : Due(fd) <=> \E d \in Clients : connfd[d] = fd /\ (inbox[d] > 0 \/ d \in hung)
  BY DueIs
<1>4. /\ Due(Listen)' <=> backlog' # <<>>
      /\ \A fd \in Fd : Due(fd)' <=> \E d \in Clients : connfd'[d] = fd /\ (inbox'[d] > 0 \/ d \in hung')
  <2>1. (ConnectionsDistinct => DueIs!2)'
    BY DueIs, PTL
  <2> QED BY <2>1
<1>5. ASSUME NEW fd \in Fd, fd = connfd[c], Due(fd)' PROVE Due(fd) /\ connfd'[c] # Away
  <2>1. PICK d \in Clients : connfd'[d] = fd /\ (inbox'[d] > 0 \/ d \in hung')
    BY <1>4, <1>5
  <2>2. d = c
    BY <1>1, <1>2, <1>5, <2>1 DEF ConnectionsDistinct
  <2> QED BY <1>1, <1>2, <1>3, <1>5, <2>1, <2>2
<1>6. ASSUME NEW fd \in Fd, fd # connfd[c] PROVE Same(fd)
  BY <1>1, <1>2, <1>6, SameWhere
<1> QED BY <1>1, <1>3, <1>4, <1>5, <1>6

-----------------------------------------------------------------------------
\* The lists of the loop.

Distinct(list) == \A i, j \in 1..Len(list) : list[i] = list[j] => i = j

LEMMA SignalAdds ==
  ASSUME NEW S, NEW list \in Seq(S), NEW fd \in S, Distinct(list)
  PROVE  /\ Signal(list, fd) \in Seq(S) /\ Distinct(Signal(list, fd))
         /\ \A k : Contains(Signal(list, fd), k) <=> Contains(list, k) \/ k = fd
<1>1. CASE Contains(list, fd)
  BY <1>1 DEF Signal
<1>2. CASE ~Contains(list, fd)
  <2>1. \A i \in 1..Len(list) : list[i] # fd
    BY <1>2 DEF Contains
  <2>2. Append(list, fd) \in Seq(S) /\ Distinct(Append(list, fd))
    BY <2>1, AppendDistinct DEF Distinct
  <2> QED BY <1>2, <2>2, AppendContains DEF Signal
<1> QED BY <1>1, <1>2

LEMMA WithoutTakes ==
  ASSUME NEW S, NEW list \in Seq(S), NEW fd, Distinct(list)
  PROVE  /\ Without(list, fd) \in Seq(S) /\ Distinct(Without(list, fd))
         /\ \A k : k # fd => (Contains(Without(list, fd), k) <=> Contains(list, k))
<1>1. CASE ~Contains(list, fd)
  BY <1>1 DEF Without
<1>2. CASE Contains(list, fd)
  <2> DEFINE least == CHOOSE i \in 1..Len(list) : list[i] = fd
  <2>1. least \in 1..Len(list) /\ list[least] = fd
    BY <1>2 DEF Contains
  <2>2. Without(list, fd) = RemoveAt(list, least)
    BY <1>2 DEF Without
  <2> HIDE DEF least
  <2>3. PICK m \in 1..Len(list) : m = least
    BY <2>1
  <2>4. PICK rest : rest = RemoveAt(list, m)
    OBVIOUS
  <2>5. /\ rest \in Seq(S) /\ Len(rest) = Len(list) - 1 /\ Len(list) \in Nat
        /\ \A j \in 1..m-1 : rest[j] = list[j]
        /\ \A j \in m..Len(list)-1 : rest[j] = list[j+1]
    BY <2>4, RemoveAtProperties, LenProperties
  <2>6. \A j \in 1..Len(rest) :
          \/ j < m /\ j \in 1..Len(list) /\ rest[j] = list[j]
          \/ j >= m /\ j + 1 \in 1..Len(list) /\ rest[j] = list[j+1]
    BY <2>5
  <2>7. Distinct(rest)
    <3> SUFFICES ASSUME NEW i \in 1..Len(rest), NEW j \in 1..Len(rest), rest[i] = rest[j]
                 PROVE  i = j
      BY DEF Distinct
    <3>1. i \in Int /\ j \in Int /\ m \in Int
      OBVIOUS
    <3>2. CASE i < m /\ j < m
      BY <2>6, <3>1, <3>2 DEF Distinct
    <3>3. CASE i >= m /\ j >= m
      <4>1. i + 1 = j + 1
        BY <2>6, <3>1, <3>3 DEF Distinct
      <4> QED BY <3>1, <4>1
    <3>4. CASE i < m /\ j >= m
      <4>1. i = j + 1
        BY <2>6, <3>1, <3>4 DEF Distinct
      <4> QED BY <3>1, <3>4, <4>1
    <3>5. CASE i >= m /\ j < m
      <4>1. i + 1 = j
        BY <2>6, <3>1, <3>5 DEF Distinct
      <4> QED BY <3>1, <3>5, <4>1
    <3> QED BY <3>1, <3>2, <3>3, <3>4, <3>5
  <2>8. ASSUME NEW k, k # fd PROVE Contains(rest, k) <=> Contains(list, k)
    <3>1. ASSUME Contains(list, k) PROVE Contains(rest, k)
      <4>1. PICK i \in 1..Len(list) : list[i] = k
        BY <3>1 DEF Contains
      <4>2. i # m
        BY <2>1, <2>3, <2>8, <4>1
      <4>3. CASE i < m
        <5>1. i \in 1..m-1 /\ i \in 1..Len(rest)
          BY <2>5, <4>3
        <5> QED BY <2>5, <4>1, <5>1 DEF Contains
      <4>4. CASE i > m
        <5>1. PICK j \in m..Len(list)-1 : j + 1 = i
          <6>1. i - 1 \in m..Len(list)-1 /\ (i - 1) + 1 = i
            BY <2>5, <4>4
          <6> QED BY <6>1
        <5>2. j \in 1..Len(rest)
          BY <2>5
        <5> QED BY <2>5, <4>1, <5>1, <5>2 DEF Contains
      <4> QED BY <4>2, <4>3, <4>4
    <3>2. ASSUME Contains(rest, k) PROVE Contains(list, k)
      BY <2>6, <3>2 DEF Contains
    <3> QED BY <3>1, <3>2
  <2> QED BY <2>2, <2>3, <2>4, <2>5, <2>7, <2>8
<1> QED BY <1>1, <1>2

-----------------------------------------------------------------------------
\* The steps of the loop.

Named      == {Listen} \cup Fd
Event      == [fd : Named, who : Clients \cup {Listen}]
BatchTypes == batch \in Seq(Event)
ListTypes  == ready \in Seq(Named) /\ Distinct(ready) /\ BatchTypes
FreshEvents ==
  /\ \A i, j \in 1..Len(batch) : batch[i].fd = batch[j].fd => i = j
  /\ up => \A i \in 1..Len(batch) :
       /\ Due(batch[i].fd)
       /\ batch[i].fd # Listen => Holder(batch[i].fd) = batch[i].who
LoopInv == EventInv /\ ListTypes /\ NothingForgotten /\ FreshEvents

LEMMA LoopInvIsIInv == LoopInv <=> IInv
<1>1. LoopInv => IInv
  BY FreshNeverBlocks DEF LoopInv, IInv, EventInv, TypeOK, ListTypes, BatchTypes, Event, Named, FreshEvents, BatchFresh, Distinct
<1>2. IInv => LoopInv
  BY DEF LoopInv, IInv, EventInv, TypeOK, ListTypes, BatchTypes, Event, Named, FreshEvents, BatchFresh, Distinct
<1> QED BY <1>1, <1>2

\* The events after the first are not of its descriptor.
LEMMA RestOfBatch ==
  ASSUME LoopInv, batch # <<>>
  PROVE  /\ Head(batch) \in Event /\ Head(batch).fd \in Named /\ Tail(batch) \in Seq(Event)
         /\ \A i, j \in 1..Len(Tail(batch)) : Tail(batch)[i].fd = Tail(batch)[j].fd => i = j
         /\ \A j \in 1..Len(Tail(batch)) : \A e : e = Tail(batch)[j] =>
              /\ e.fd \in Named /\ e.fd # Head(batch).fd
              /\ up => Due(e.fd) /\ (e.fd # Listen => Holder(e.fd) = e.who)
         /\ up => Due(Head(batch).fd)
<1> USE DEF LoopInv, ListTypes, BatchTypes
<1>1. /\ Head(batch) \in Event /\ Tail(batch) \in Seq(Event) /\ Head(batch) = batch[1]
      /\ Len(batch) \in Nat \ {0} /\ Len(Tail(batch)) = Len(batch) - 1
      /\ \A j \in 1..Len(Tail(batch)) : Tail(batch)[j] = batch[j+1]
  <2>1. Len(batch) \in Nat \ {0}
    BY EmptySeq
  <2> QED BY <2>1, HeadTailProperties
<1>2. \A j \in 1..Len(Tail(batch)) : j \in Nat /\ j+1 \in 1..Len(batch) /\ j+1 # 1
  BY <1>1
<1>3. 1 \in 1..Len(batch)
  BY <1>1
<1>4. \A j \in 1..Len(Tail(batch)) : Tail(batch)[j].fd \in Named
  <2>1. \A j \in 1..Len(Tail(batch)) : Tail(batch)[j] \in Event
    BY <1>1, ElementOfSeq
  <2> QED BY <2>1 DEF Event
<1>5. /\ \A i, j \in 1..Len(batch) : batch[i].fd = batch[j].fd => i = j
      /\ up => \A i \in 1..Len(batch) :
           /\ Due(batch[i].fd)
           /\ batch[i].fd # Listen => Holder(batch[i].fd) = batch[i].who
  BY DEF FreshEvents
<1>6. \A i, j \in 1..Len(Tail(batch)) : Tail(batch)[i].fd = Tail(batch)[j].fd => i = j
  BY <1>1, <1>2, <1>5
<1>7. ASSUME NEW j \in 1..Len(Tail(batch)), NEW e, e = Tail(batch)[j]
      PROVE  /\ e.fd # Head(batch).fd
             /\ up => Due(e.fd) /\ (e.fd # Listen => Holder(e.fd) = e.who)
  <2>1. e = batch[j+1] /\ j+1 \in 1..Len(batch) /\ j+1 # 1
    BY <1>1, <1>2, <1>7
  <2> QED BY <1>1, <1>3, <1>5, <2>1
<1>8. up => Due(Head(batch).fd)
  BY <1>1, <1>3, <1>5
<1> QED BY <1>1, <1>4, <1>6, <1>7, <1>8 DEF Event

LEMMA ArrivesKeeps ==
  ASSUME LoopInv, NEW c \in Clients, Arrives(c)
  PROVE  LoopInv'
<1> USE DEF LoopInv
<1>1. (Connect(c) \/ Say(c) \/ HangUp(c)) /\ batch' = batch /\ up' = up /\ up
  BY DEF Arrives, Connect, Say, HangUp, server
<1>2. EventInv'
  BY <1>1, ConnectKeeps, SayKeeps, HangUpKeeps
<1>3. /\ Due(Listen) => Due(Listen)'
      /\ ~Connect(c) => (Due(Listen)' <=> Due(Listen))
      /\ \A fd \in Fd : Due(fd) => Due(fd)' /\ Holder(fd)' = Holder(fd)
      /\ \A fd \in Fd : Connect(c) \/ connfd[c] # fd => Same(fd)
  BY <1>1, <1>2, ArrivalsAdd
<1>4. ready' \in Seq(Named) /\ Distinct(ready') /\ \A fd : Contains(ready, fd) => Contains(ready', fd)
  <2>1. Listen \in Named /\ (At(c) => connfd[c] \in Named)
    BY DEF Named, At
  <2>2. ready' \in {ready, Signal(ready, Listen)} \/ (At(c) /\ ready' = Signal(ready, connfd[c]))
    BY DEF Arrives
  <2> QED BY <2>1, <2>2, SignalAdds DEF ListTypes
<1>5. ListTypes'
  BY <1>1, <1>4 DEF ListTypes, BatchTypes, Event, Named, Distinct
<1>6. \A fd \in Named : Due(fd)' => Due(fd) \/ Contains(ready', fd)
  <2>1. CASE Connect(c)
    <3>1. ~At(c)
      BY <2>1, SizeAssumption DEF Connect, At, Fd, Away
    <3>2. ready' = Signal(ready, Listen)
      BY <2>1, <3>1 DEF Arrives, Say, HangUp, Connect
    <3> QED BY <1>3, <2>1, <3>2, SignalAdds DEF Named, Same, ListTypes
  <2>2. CASE ~Connect(c)
    <3>1. ready' = IF At(c) THEN Signal(ready, connfd[c]) ELSE ready
      BY <2>2 DEF Arrives
    <3>2. At(c) => Contains(ready', connfd[c])
      BY <3>1, SignalAdds DEF ListTypes, Named, At
    <3> QED BY <1>3, <2>2, <3>2 DEF Named, Same, At
  <2> QED BY <2>1, <2>2
<1>7. NothingForgotten'
  BY <1>1, <1>4, <1>6 DEF NothingForgotten, Named
<1>8. FreshEvents'
  <2>1. \A fd \in Named : Due(fd) => Due(fd)' /\ (fd # Listen => Holder(fd)' = Holder(fd))
    BY <1>3 DEF Named
  <2>2. \A i \in 1..Len(batch) : batch[i].fd \in Named
    <3>1. \A i \in 1..Len(batch) : batch[i] \in Event
      BY ElementOfSeq DEF ListTypes, BatchTypes
    <3> QED BY <3>1 DEF Event
  <2> QED BY <1>1, <2>1, <2>2 DEF FreshEvents
<1> QED BY <1>2, <1>5, <1>7, <1>8

\* The other events of the batch are fresh when the step leaves their descriptors alone.
LEMMA RestStaysFresh ==
  ASSUME LoopInv, batch # <<>>, NextEvent, up' => up,
         \A fd \in Named : up' /\ fd # Head(batch).fd /\ Due(fd) =>
           Due(fd)' /\ (fd # Listen => Holder(fd)' = Holder(fd))
  PROVE  BatchTypes' /\ FreshEvents'
<1>1. batch' = Tail(batch)
  BY DEF NextEvent
<1>2. BatchTypes'
  BY <1>1, RestOfBatch DEF BatchTypes, Event, Named
<1>3. ASSUME up', NEW j \in 1..Len(batch')
      PROVE  Due(batch[j].fd)' /\ (batch[j].fd # Listen => Holder(batch[j].fd) = batch[j].who)'
  <2>1. PICK e : e = Tail(batch)[j]
    OBVIOUS
  <2>2. /\ e.fd \in Named /\ e.fd # Head(batch).fd /\ Due(e.fd)
        /\ e.fd # Listen => Holder(e.fd) = e.who
    <3>1. up /\ j \in 1..Len(Tail(batch))
      BY <1>1, <1>3
    <3> QED BY <2>1, <3>1, RestOfBatch
  <2>3. Due(e.fd)' /\ (e.fd # Listen => Holder(e.fd)' = e.who)
    BY <1>3, <2>2
  <2> QED BY <1>1, <2>1, <2>3
<1>4. \A i, j \in 1..Len(batch') : batch'[i].fd = batch'[j].fd => i = j
  BY <1>1, RestOfBatch
<1> QED BY <1>2, <1>3, <1>4 DEF FreshEvents

LEMMA HandleAcceptKeeps ==
  ASSUME LoopInv, HandleAccept
  PROVE  LoopInv'
<1> USE DEF LoopInv
<1>1. batch # <<>> /\ Head(batch).fd = Listen /\ NextEvent /\ up /\ backlog # <<>>
  BY DEF HandleAccept, Accept, AcceptFails
<1>2. CASE AcceptFails
  <2>1. EventInv' /\ up' = FALSE /\ ready' = ready
    BY <1>2, AcceptFailsKeeps DEF HandleAccept, AcceptFails, Accept
  <2>2. BatchTypes' /\ FreshEvents'
    BY <1>1, <2>1, RestStaysFresh
  <2> QED BY <2>1, <2>2 DEF ListTypes, Distinct, Named, NothingForgotten
<1>3. CASE Accept
  <2>1. PICK c : c = Head(backlog)
    OBVIOUS
  <2>2. PICK fd : fd = connfd'[c]
    OBVIOUS
  <2>3. EventInv' /\ up' = up /\ fd \in Fd
    BY <1>3, <2>1, <2>2, AcceptKeeps, AcceptMoves DEF Accept, Free
  <2>4. ready' = IF inbox[c] > 0 \/ c \in hung THEN Signal(ready, fd) ELSE ready
    BY <1>3, <2>1, <2>2 DEF HandleAccept, AcceptFails, Accept
  <2>5. \A g \in Fd : g # fd => Same(g)
    BY <1>3, <2>1, <2>2, <2>3, AcceptAdds
  <2>9. ~Due(fd)
    BY <1>3, <2>1, <2>2, <2>3, AcceptAdds
  <2>10. Due(fd)' => inbox[c] > 0 \/ c \in hung
    BY <1>3, <2>1, <2>2, <2>3, AcceptAdds
  <2>6. /\ ready' \in Seq(Named) /\ Distinct(ready')
        /\ \A g : Contains(ready, g) => Contains(ready', g)
        /\ inbox[c] > 0 \/ c \in hung => Contains(ready', fd)
    BY <2>3, <2>4, SignalAdds DEF ListTypes, Named
  <2>7. BatchTypes' /\ FreshEvents'
    <3>1. ASSUME NEW g \in Named, g # Head(batch).fd, Due(g)
          PROVE  Due(g)' /\ (g # Listen => Holder(g)' = Holder(g))
      <4>1. g \in Fd /\ g # fd /\ g # Listen
        <5>1. g \in Fd /\ g # Listen
          BY <1>1, <3>1 DEF Named
        <5> QED BY <2>9, <3>1, <5>1
      <4>2. IsHeld(g)
        BY <3>1, <4>1 DEF Due
      <4> QED BY <2>5, <3>1, <4>1, <4>2 DEF Same
    <3> QED BY <1>1, <2>3, <3>1, RestStaysFresh
  <2>8. NothingForgotten'
    <3>1. Due(Listen)
      BY <1>1 DEF Due
    <3>2. ASSUME NEW g \in Named, Due(g)' PROVE Contains(ready', g)
      <4>1. CASE g = Listen
        BY <1>1, <2>6, <3>1, <4>1 DEF NothingForgotten
      <4>2. CASE g \in Fd /\ g # fd
        <5>1. Due(g)
          BY <2>5, <3>2, <4>2 DEF Same
        <5> QED BY <1>1, <2>6, <3>2, <5>1 DEF NothingForgotten, Named
      <4>3. CASE g = fd
        BY <2>6, <2>10, <3>2, <4>3 DEF Contains
      <4> QED BY <4>1, <4>2, <4>3 DEF Named
    <3> QED BY <3>2 DEF NothingForgotten, Named
  <2> QED BY <2>3, <2>6, <2>7, <2>8 DEF ListTypes, Distinct, Named
<1> QED BY <1>2, <1>3 DEF HandleAccept

LEMMA HandleReadKeeps ==
  ASSUME LoopInv, NEW c \in Clients, HandleRead(c)
  PROVE  LoopInv'
<1> USE DEF LoopInv
<1>1. /\ batch # <<>> /\ Head(batch).fd = connfd[c] /\ NextEvent /\ Read(c)
      /\ up /\ up' = up /\ connfd[c] \in Fd
  BY DEF HandleRead, IsFor, Read, At
<1>2. EventInv'
  BY <1>1, ReadKeeps
<1>3. /\ Due(Listen)' <=> Due(Listen)
      /\ \A fd \in Fd : fd = connfd[c] => (Due(fd)' => Due(fd) /\ connfd'[c] # Away)
      /\ \A fd \in Fd : fd # connfd[c] => Same(fd)
  BY <1>1, <1>2, ReadTakes
<1>4. /\ ready' \in Seq(Named) /\ Distinct(ready')
      /\ \A fd : Contains(ready, fd) /\ (fd # connfd[c] \/ connfd'[c] # Away) => Contains(ready', fd)
  BY WithoutTakes DEF HandleRead, ListTypes
<1>5. BatchTypes' /\ FreshEvents'
  <2>1. ASSUME NEW fd \in Named, fd # Head(batch).fd, Due(fd)
        PROVE  Due(fd)' /\ (fd # Listen => Holder(fd)' = Holder(fd))
    <3>1. CASE fd = Listen
      BY <1>3, <2>1, <3>1
    <3>2. CASE fd # Listen
      <4>1. fd \in Fd /\ IsHeld(fd)
        BY <2>1, <3>2 DEF Due, Named
      <4> QED BY <1>1, <1>3, <2>1, <4>1 DEF Same
    <3> QED BY <3>1, <3>2
  <2> QED BY <1>1, <2>1, RestStaysFresh
<1>6. NothingForgotten'
  <2>1. ASSUME NEW fd \in Named, Due(fd)' PROVE Contains(ready', fd)
    <3>1. Listen # connfd[c]
      BY <1>1, SizeAssumption DEF Listen, Fd
    <3>2. Due(fd) /\ (fd # connfd[c] \/ connfd'[c] # Away)
      BY <1>3, <2>1, <3>1 DEF Named, Same
    <3> QED BY <1>1, <1>4, <3>2 DEF NothingForgotten, Named
  <2> QED BY <2>1 DEF NothingForgotten, Named
<1> QED BY <1>2, <1>4, <1>5, <1>6 DEF ListTypes, Distinct, Named

\* What has been looked at is dropped or put back at the end: nothing that is
\* ready is lost, and nothing comes twice.
LEMMA ScanKeeps ==
  ASSUME NEW list \in Seq(Named), Distinct(list), NEW n \in 1..Len(list), NEW k \in Nat,
         NEW taken \in [1..k -> ToSet(SubSeq(list, 1, n))],
         InOrderOf(taken, SubSeq(list, 1, n))
  PROVE  /\ taken \in Seq(Named) /\ Len(taken) = k /\ Distinct(taken)
         /\ LET back == ByLevel(SubSeq(list, n + 1, Len(list)), taken) IN
            /\ back \in Seq(Named) /\ Distinct(back)
            /\ \A fd : Contains(taken, fd) => Contains(back, fd)
            /\ \A fd : Contains(list, fd) => fd \in ToSet(SubSeq(list, 1, n)) \/ Contains(back, fd)
<1> DEFINE seen == SubSeq(list, 1, n)
           left == SubSeq(list, n + 1, Len(list))
           back == left \o taken
<1>1. Len(list) \in Nat /\ n \in Int /\ 1 <= n /\ n <= Len(list)
  BY LenProperties
<1>2. \A i \in 1..Len(list) : list[i] \in Named
  BY ElementOfSeq
<1>3. /\ seen \in Seq(Named) /\ Len(seen) = n /\ \A i \in 1..n : seen[i] = list[i]
      /\ DOMAIN seen = 1..n
  <2>1. \A i \in 1..n : list[i] \in Named
    BY <1>1, <1>2
  <2>2. /\ seen \in Seq(Named) /\ Len(seen) = (IF 1 <= n THEN n - 1 + 1 ELSE 0)
        /\ \A i \in 1..n - 1 + 1 : seen[i] = list[1 + i - 1]
    BY <1>1, <2>1, SubSeqProperties
  <2> HIDE DEF seen
  <2>3. Len(seen) = n /\ \A i \in 1..n : seen[i] = list[i]
    BY <1>1, <2>2
  <2> QED BY <2>2, <2>3, LenProperties
<1>4. /\ left \in Seq(Named) /\ Len(left) = Len(list) - n
      /\ \A i \in 1..Len(list) - n : left[i] = list[n + i]
  <2>1. \A i \in n + 1..Len(list) : list[i] \in Named
    BY <1>1, <1>2
  <2>2. /\ left \in Seq(Named)
        /\ Len(left) = (IF n + 1 <= Len(list) THEN Len(list) - (n + 1) + 1 ELSE 0)
        /\ \A i \in 1..Len(list) - (n + 1) + 1 : left[i] = list[n + 1 + i - 1]
    BY <1>1, <2>1, SubSeqProperties
  <2> HIDE DEF left
  <2> QED BY <1>1, <2>2
<1>5. ToSet(seen) = {list[i] : i \in 1..n}
  <2> HIDE DEF seen
  <2> QED BY <1>3 DEF ToSet
<1> HIDE DEF seen, left
<1>6. taken \in Seq(Named) /\ Len(taken) = k /\ \A i \in 1..k : \E j \in 1..n : taken[i] = list[j]
  <2>1. taken \in [1..k -> ToSet(seen)]
    BY DEF seen
  <2>2. ToSet(seen) \subseteq Named
    BY <1>1, <1>2, <1>5
  <2>3. taken \in [1..k -> Named]
    BY <2>1, <2>2
  <2>4. taken \in Seq(Named)
    BY <2>3, SeqDef
  <2>5. Len(taken) = k
    BY <2>3, <2>4, LenProperties
  <2> QED BY <1>5, <2>1, <2>4, <2>5
<1>7. \A i, j \in 1..k : i < j => taken[i] # taken[j]
  <2> SUFFICES ASSUME NEW i \in 1..k, NEW j \in 1..k, i < j PROVE taken[i] # taken[j]
    OBVIOUS
  <2>1. PICK p \in 1..Len(seen), q \in 1..Len(seen) : p < q /\ taken[i] = seen[p] /\ taken[j] = seen[q]
    BY <1>6 DEF InOrderOf, seen
  <2>2. p \in 1..Len(list) /\ q \in 1..Len(list) /\ p # q
    BY <1>1, <1>3, <2>1
  <2> QED BY <1>3, <2>1, <2>2 DEF Distinct
<1>8. Distinct(taken)
  BY <1>6, <1>7 DEF Distinct
<1>9. /\ back \in Seq(Named) /\ Len(back) = Len(left) + Len(taken)
      /\ \A i \in 1..Len(left) + Len(taken) :
           back[i] = IF i <= Len(left) THEN left[i] ELSE taken[i - Len(left)]
  BY <1>4, <1>6, ConcatProperties
<1> HIDE DEF back
<1>10. \A i \in 1..Len(back) :
         \/ i \in 1..Len(left) /\ back[i] = list[n + i] /\ n + i \in 1..Len(list) /\ n + i > n
         \/ /\ i > Len(left) /\ i - Len(left) \in 1..k /\ back[i] = taken[i - Len(left)]
  BY <1>1, <1>4, <1>6, <1>9
<1>11. \A i \in 1..Len(left) : i \in 1..Len(back) /\ back[i] = list[n + i]
  BY <1>1, <1>4, <1>6, <1>9
<1>12. ASSUME NEW i \in 1..k PROVE \E j \in 1..Len(back) : back[j] = taken[i]
  <2>1. Len(left) + i \in 1..Len(back) /\ ~(Len(left) + i <= Len(left)) /\ (Len(left) + i) - Len(left) = i
    BY <1>1, <1>4, <1>6, <1>9
  <2> QED BY <1>6, <1>9, <2>1
<1>13. Distinct(back)
  <2> SUFFICES ASSUME NEW i \in 1..Len(back), NEW j \in 1..Len(back), back[i] = back[j]
               PROVE  i = j
    BY DEF Distinct
  <2>1. i \in Int /\ j \in Int /\ Len(left) \in Int
    BY <1>1, <1>4
  <2>2. \A p \in 1..k, q \in 1..Len(list) : taken[p] = list[q] => q <= n
    <3> SUFFICES ASSUME NEW p \in 1..k, NEW q \in 1..Len(list), taken[p] = list[q] PROVE q <= n
      OBVIOUS
    <3>1. PICK m \in 1..n : taken[p] = list[m]
      BY <1>6
    <3>2. m \in 1..Len(list)
      BY <1>1
    <3>3. q = m
      BY <3>1, <3>2 DEF Distinct
    <3> QED BY <3>3
  <2>3. CASE i \in 1..Len(left) /\ j \in 1..Len(left)
    <3>1. n + i \in 1..Len(list) /\ n + j \in 1..Len(list)
      BY <1>1, <1>4, <2>3
    <3>2. n + i = n + j
      BY <1>11, <2>3, <3>1 DEF Distinct
    <3> QED BY <1>1, <2>1, <3>2
  <2>4. CASE i \in 1..Len(left) /\ j > Len(left)
    <3>1. n + i \in 1..Len(list) /\ n + i > n
      BY <1>1, <1>4, <2>4
    <3>2. j - Len(left) \in 1..k /\ back[j] = taken[j - Len(left)]
      BY <1>10, <2>1, <2>4
    <3> QED BY <1>1, <1>11, <2>2, <2>4, <3>1, <3>2
  <2>5. CASE i > Len(left) /\ j \in 1..Len(left)
    <3>1. n + j \in 1..Len(list) /\ n + j > n
      BY <1>1, <1>4, <2>5
    <3>2. i - Len(left) \in 1..k /\ back[i] = taken[i - Len(left)]
      BY <1>10, <2>1, <2>5
    <3>3. taken[i - Len(left)] = list[n + j]
      BY <1>11, <2>5, <3>2
    <3>4. n + j <= n
      BY <2>2, <3>1, <3>2, <3>3
    <3> QED BY <1>1, <2>1, <3>1, <3>4
  <2>6. CASE i > Len(left) /\ j > Len(left)
    <3>1. /\ i - Len(left) \in 1..k /\ back[i] = taken[i - Len(left)]
          /\ j - Len(left) \in 1..k /\ back[j] = taken[j - Len(left)]
      BY <1>10, <2>1, <2>6
    <3>2. i - Len(left) = j - Len(left)
      BY <1>6, <1>8, <3>1 DEF Distinct
    <3> QED BY <2>1, <3>2
  <2>7. (i \in 1..Len(left) \/ i > Len(left)) /\ (j \in 1..Len(left) \/ j > Len(left))
    BY <1>10
  <2> QED BY <2>3, <2>4, <2>5, <2>6, <2>7
<1>14. ASSUME NEW fd, Contains(taken, fd) PROVE Contains(back, fd)
  BY <1>6, <1>12, <1>14 DEF Contains
<1>15. ASSUME NEW fd, Contains(list, fd) PROVE fd \in ToSet(seen) \/ Contains(back, fd)
  <2>1. PICK i \in 1..Len(list) : list[i] = fd
    BY <1>15 DEF Contains
  <2>2. CASE i <= n
    BY <1>1, <1>5, <2>1, <2>2
  <2>3. CASE i > n
    <3>1. PICK j \in 1..Len(left) : n + j = i
      <4>1. i - n \in 1..Len(left) /\ n + (i - n) = i
        BY <1>1, <1>4, <2>3
      <4> QED BY <4>1
    <3> QED BY <1>11, <2>1, <3>1 DEF Contains
  <2> QED BY <1>1, <2>2, <2>3
<1> QED BY <1>6, <1>8, <1>9, <1>13, <1>14, <1>15 DEF ByLevel, back, left, seen

LEMMA WaitKeeps ==
  ASSUME LoopInv, epoll_wait
  PROVE  LoopInv'
<1> USE DEF LoopInv
<1>1. up /\ UNCHANGED events
  BY DEF epoll_wait
<1>10. PICK n \in 1..Len(ready), k \in 1..Batch :
        \E taken \in [1..k -> ToSet(SubSeq(ready, 1, n))] :
        /\ InOrderOf(taken, SubSeq(ready, 1, n))
        /\ \A fd \in ToSet(SubSeq(ready, 1, n)) : Contains(taken, fd) <=> Due(fd)
        /\ batch' = [i \in 1..k |->
             [fd |-> taken[i], who |-> IF taken[i] = Listen THEN Listen ELSE Holder(taken[i])]]
        /\ ready' = ByLevel(SubSeq(ready, n + 1, Len(ready)), taken)
  BY DEF epoll_wait
<1>2. PICK taken \in [1..k -> ToSet(SubSeq(ready, 1, n))] :
        /\ InOrderOf(taken, SubSeq(ready, 1, n))
        /\ \A fd \in ToSet(SubSeq(ready, 1, n)) : Contains(taken, fd) <=> Due(fd)
        /\ batch' = [i \in 1..k |->
             [fd |-> taken[i], who |-> IF taken[i] = Listen THEN Listen ELSE Holder(taken[i])]]
        /\ ready' = ByLevel(SubSeq(ready, n + 1, Len(ready)), taken)
  BY <1>10
<1>3. k \in Nat
  BY BatchAssumption
<1>4. /\ taken \in Seq(Named) /\ Len(taken) = k /\ Distinct(taken)
      /\ ready' \in Seq(Named) /\ Distinct(ready')
      /\ \A fd : Contains(taken, fd) => Contains(ready', fd)
      /\ \A fd : Contains(ready, fd) => fd \in ToSet(SubSeq(ready, 1, n)) \/ Contains(ready', fd)
  BY <1>2, <1>3, ScanKeeps DEF ListTypes
<1>5. \A i \in 1..k : taken[i] \in Named /\ Due(taken[i])
  <2> SUFFICES ASSUME NEW i \in 1..k PROVE taken[i] \in Named /\ Due(taken[i])
    OBVIOUS
  <2>1. Contains(taken, taken[i]) /\ taken[i] \in ToSet(SubSeq(ready, 1, n)) /\ taken[i] \in Named
    BY <1>4, ElementOfSeq DEF Contains
  <2> QED BY <1>2, <2>1
<1>6. EventInv'
  BY <1>1 DEF events, server, prompts, EventInv, EventTypes, ConnectionsDistinct, PromptsCounted,
     OneAtATime, At
<1>7. \A fd \in Named : (Due(fd)' <=> Due(fd)) /\ Holder(fd)' = Holder(fd)
  BY <1>1 DEF events, server, Due, IsHeld, Free, Readable, Holder, At
<1>8. BatchTypes' /\ FreshEvents'
  <2>1. \A i \in 1..k : batch'[i].fd = taken[i] /\ (taken[i] # Listen => batch'[i].who = Holder(taken[i]))
    BY <1>2
  <2>2. \A i \in 1..k : batch'[i] \in Event
    <3>1. \A i \in 1..k : taken[i] # Listen => Holder(taken[i]) \in Clients
      BY <1>5, HolderIs DEF EventInv, Due, Named
    <3> QED BY <1>2, <1>5, <3>1 DEF Event
  <2>3. batch' \in Seq(Event) /\ Len(batch') = k
    <3>1. batch' \in [1..k -> Event]
      BY <1>2, <2>2
    <3>2. batch' \in Seq(Event)
      BY <1>3, <3>1, SeqDef
    <3> QED BY <1>3, <3>1, <3>2, LenProperties
  <2>4. \A i, j \in 1..k : batch'[i].fd = batch'[j].fd => i = j
    BY <1>4, <2>1 DEF Distinct
  <2>5. ASSUME NEW i \in 1..k
        PROVE  (Due(batch[i].fd) /\ (batch[i].fd # Listen => Holder(batch[i].fd) = batch[i].who))'
    <3>1. PICK fd : fd = taken[i]
      OBVIOUS
    <3>2. fd \in Named /\ Due(fd)
      BY <1>5, <3>1
    <3>3. Due(fd)' /\ (fd # Listen => Holder(fd)' = Holder(taken[i]))
      BY <1>7, <3>1, <3>2
    <3> QED BY <2>1, <3>1, <3>3
  <2> QED BY <2>3, <2>4, <2>5 DEF BatchTypes, FreshEvents, Event, Named
<1>9. NothingForgotten'
  <2>1. ASSUME NEW fd \in Named, Due(fd)' PROVE Contains(ready', fd)
    <3>1. Due(fd)
      BY <1>7, <2>1
    <3>2. Contains(ready, fd)
      BY <1>1, <2>1, <3>1 DEF NothingForgotten, Named
    <3> QED BY <1>2, <1>4, <3>1, <3>2
  <2> QED BY <2>1 DEF NothingForgotten, Named
<1> QED BY <1>4, <1>6, <1>8, <1>9 DEF ListTypes, Distinct, Named

-----------------------------------------------------------------------------
\* Whatever comes to the loop, and however it is batched: the descriptors agree with
\* the queue and the lists, nothing ready is forgotten, no event is stale when its
\* turn comes, so that accept and read never block, and a client that waits for two
\* prompts never has two commands unread, if nobody has used its account beside it.
THEOREM Invariance == LoopSpec => []IInv
<1>1. LoopInit => LoopInv
  BY InitIInv, LoopInvIsIInv
<1>2. LoopInv /\ [LoopNext]_vars => LoopInv'
  <2> SUFFICES ASSUME LoopInv, [LoopNext]_vars PROVE LoopInv'
    OBVIOUS
  <2>1. CASE epoll_wait
    BY <2>1, WaitKeeps
  <2>2. CASE HandleAccept
    BY <2>2, HandleAcceptKeeps
  <2>3. CASE \E c \in Clients : HandleRead(c)
    BY <2>3, HandleReadKeeps
  <2>4. CASE \E c \in Clients : Arrives(c)
    BY <2>4, ArrivesKeeps
  <2>5. CASE UNCHANGED vars
    <3>1. \A fd : (Due(fd)' <=> Due(fd)) /\ Holder(fd)' = Holder(fd)
      BY <2>5 DEF vars, events, server, Due, IsHeld, Free, Readable, Holder, At
    <3>2. EventInv' /\ ListTypes'
      BY <2>5 DEF vars, events, server, prompts, LoopInv, EventInv, EventTypes, ConnectionsDistinct,
         PromptsCounted, OneAtATime, At, ListTypes, BatchTypes, Event, Named, Distinct
    <3>3. NothingForgotten' /\ FreshEvents'
      BY <2>5, <3>1 DEF vars, events, server, LoopInv, NothingForgotten, FreshEvents
    <3> QED BY <3>2, <3>3 DEF LoopInv
  <2> QED BY <2>1, <2>2, <2>3, <2>4, <2>5 DEF LoopNext, Main
<1>3. LoopInv => IInv
  BY LoopInvIsIInv
<1> QED BY <1>1, <1>2, <1>3, PTL DEF LoopSpec
=============================================================================
