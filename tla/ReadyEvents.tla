------------------------------ MODULE ReadyEvents ------------------------------
(***************************************************************************)
(* What the loop of hw2's main promises: whenever a connection waits to be *)
(* accepted or has something to read, that event is handled, one event at  *)
(* a time in any order.  ChatServer is written as if this were the loop.   *)
(* What a command does is left to ChatServer; only the prompts it brings,  *)
(* to its client and to others, are kept.                                  *)
(***************************************************************************)
EXTENDS Integers, Sequences

CONSTANTS
  Clients,
  MaxFd,            \* descriptors there are for connections
  MaxInbox,         \* bound on the commands of a client that are not read
  Patience          \* prompts a client wants to have in hand before it sends

ASSUME SizeAssumption == {MaxFd, MaxInbox, Patience} \subseteq Nat /\ 0 < MaxFd

VARIABLES
  up,
  backlog,          \* connections that wait for accept
  connfd,           \* each client's descriptor
  inbox,            \* commands sent and not read
  hung,             \* clients that have closed their end
  credit,           \* prompts received less commands sent
  quiet,            \* clients whose last command brought no prompt: they sit in a room
  shared            \* clients whose account another's connection has led to as well

prompts == <<credit, quiet, shared>>
server  == <<up, connfd, inbox, prompts>>
events  == <<server, backlog, hung>>

Away   == 0         \* not connected
Queued == -1        \* connected and not accepted
Fd     == 1..MaxFd
At(c)  == connfd[c] \in Fd
Free   == {fd \in Fd : \A c \in Clients : connfd[c] # fd}

\* The banner ends with a prompt and another is sent after it.
Greeting == 2
\* Bound: a client does not count the prompts beyond.
MaxPrompts == Greeting + 1

Readable(c) == At(c) /\ (inbox[c] > 0 \/ c \in hung)

EventTypes ==
  /\ up \in BOOLEAN /\ backlog \in Seq(Clients)
  /\ connfd \in [Clients -> Fd \cup {Away, Queued}]
  /\ inbox \in [Clients -> 0..MaxInbox] /\ hung \subseteq Clients
  /\ credit \in [Clients -> -1..MaxPrompts]
  /\ quiet \subseteq Clients /\ shared \subseteq Clients

-----------------------------------------------------------------------------
\* External: the clients.

Connect(c) ==
  /\ up /\ connfd[c] = Away
  /\ connfd' = [connfd EXCEPT ![c] = Queued] /\ backlog' = Append(backlog, c)
  /\ UNCHANGED <<up, inbox, hung, prompts>>

Say(c) ==
  /\ up /\ connfd[c] # Away /\ c \notin hung
  /\ inbox[c] < MaxInbox /\ credit[c] >= Patience
  /\ inbox' = [inbox EXCEPT ![c] = @ + 1] /\ credit' = [credit EXCEPT ![c] = @ - 1]
  /\ UNCHANGED <<up, connfd, backlog, hung, quiet, shared>>

HangUp(c) ==
  /\ up /\ connfd[c] # Away /\ c \notin hung
  /\ hung' = hung \cup {c}
  /\ UNCHANGED <<server, backlog>>

-----------------------------------------------------------------------------
\* accept gives the lowest free descriptor.
Accept ==
  /\ up /\ backlog # <<>> /\ Free # {}
  /\ connfd' = [connfd EXCEPT ![Head(backlog)] = CHOOSE fd \in Free : \A g \in Free : fd <= g]
  /\ credit' = [credit EXCEPT ![Head(backlog)] = @ + Greeting]
  /\ backlog' = Tail(backlog)
  /\ UNCHANGED <<up, inbox, hung, quiet, shared>>

\* No descriptor is left: main returns.
AcceptFails ==
  /\ up /\ backlog # <<>> /\ Free = {}
  /\ up' = FALSE /\ UNCHANGED <<connfd, prompts, inbox, backlog, hung>>

\* close, also by handle_exit; then close again, of a number that nothing has yet
Close(c) ==
  /\ connfd' = [connfd EXCEPT ![c] = Away] /\ credit' = [credit EXCEPT ![c] = 0]
  /\ inbox' = [inbox EXCEPT ![c] = 0] /\ hung' = hung \ {c}
  /\ quiet' = quiet \ {c} /\ shared' = shared \ {c}

GivePrompt(told) ==
  credit' = [c \in Clients |-> IF c \in told /\ credit[c] < MaxPrompts THEN credit[c] + 1 ELSE credit[c]]

\* A prompt for each read, unless the client is in a room by then ...
Prompt(c) ==
  /\ \/ GivePrompt({c}) /\ quiet' = quiet \ {c}
     \/ UNCHANGED credit /\ quiet' = quiet \cup {c}
  /\ UNCHANGED shared

\* ... and one more for everyone whose account is in a room that c closes.  Those are
\* there who have had no prompt for their last command, and those whom another client
\* of their account has taken there.
CloseRoom(c) ==
  /\ \E told \in SUBSET ((quiet \cup shared) \ {c}) :
       GivePrompt(told \cup {c}) /\ quiet' = quiet \ (told \cup {c})
  /\ UNCHANGED shared

\* login: the account may be one that d has logged out of, but still leads to.
Login(c) ==
  /\ GivePrompt({c}) /\ quiet' = quiet \ {c}
  /\ \E d \in Clients \ {c} : At(d) /\ shared' = shared \cup {c, d}

\* handle_read: one read takes all that has come, and takes it for one command.
Read(c) ==
  /\ up /\ At(c)
  /\ \/ inbox[c] > 0
        /\ \/ /\ inbox' = [inbox EXCEPT ![c] = 0] /\ UNCHANGED <<connfd, hung>>
              /\ Prompt(c) \/ CloseRoom(c) \/ Login(c)
           \/ Close(c)
     \/ inbox[c] = 0 /\ c \in hung /\ Close(c)
  /\ UNCHANGED <<up, backlog>>

-----------------------------------------------------------------------------
Init ==
  /\ up = TRUE /\ backlog = <<>> /\ hung = {}
  /\ connfd = [c \in Clients |-> Away]
  /\ inbox = [c \in Clients |-> 0] /\ credit = [c \in Clients |-> 0]
  /\ quiet = {} /\ shared = {}

Next ==
  \/ Accept \/ AcceptFails
  \/ \E c \in Clients : Connect(c) \/ Say(c) \/ HangUp(c) \/ Read(c)

Spec == Init /\ [][Next]_events /\ WF_events(Accept) /\ \A c \in Clients : WF_events(Read(c))
=============================================================================
