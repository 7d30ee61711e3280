------------------------------- MODULE Bandwidth -------------------------------
(***************************************************************************)
(* lab5: a server that greets its clients one after the other and sends    *)
(* each a known amount of data, and a client that measures how fast they   *)
(* come.  TCP keeps no boundaries: what the client takes for the greeting  *)
(* may have data behind it, which are then missing from the amount it      *)
(* waits for, and only the end of the connection ends its loop.  Times are *)
(* left out: a read is slow or it is not.                                  *)
(***************************************************************************)
EXTENDS Integers, FiniteSets

CONSTANTS
  Clients,
  Greeting, Data    \* bytes of "Hello,client" as sent, 100, and of data, 5000000

ASSUME AmountAssumption == {Greeting, Data} \subseteq Nat \ {0}

VARIABLES
  new_socket, stage,        \* the server: its client, and where it is with it
  sent, closed,             \* bytes on each connection; connections the server has closed
  phase,                    \* the clients: "connect", "greet", "loop" or "end"
  delayed, total, total_amount

main      == <<phase, delayed, total, total_amount>>
server    == <<new_socket, stage, sent, closed>>
meterVars == <<main, server>>

Nobody == "nobody"
Unread(c) == sent[c] - delayed[c] - total[c]
Sizes(c)  == 1..(IF Unread(c) < Data THEN Unread(c) ELSE Data)

MeterTypeOK ==
  /\ new_socket \in Clients \cup {Nobody} /\ stage \in {"accept", "recv", "send"}
  /\ sent \in [Clients -> 0..Greeting+Data] /\ closed \subseteq Clients
  /\ phase \in [Clients -> {"connect", "greet", "loop", "end"}]
  /\ \A c \in Clients : {delayed[c], total[c], Unread(c)} \subseteq 0..Greeting+Data
  /\ \A c \in Clients : total_amount[c] \in 0..total[c]

-----------------------------------------------------------------------------
\* client.c

\* connect, and "Hello,server"
Connect(c) ==
  /\ phase[c] = "connect" /\ phase' = [phase EXCEPT ![c] = "greet"]
  /\ UNCHANGED <<server, delayed, total, total_amount>>

\* One recv for the greeting, which comes whole, and what is behind it.
ReadGreeting(c) ==
  /\ phase[c] = "greet" /\ phase' = [phase EXCEPT ![c] = "loop"]
  /\ \E n \in Sizes(c) : n >= Greeting /\ delayed' = [delayed EXCEPT ![c] = n]
  /\ UNCHANGED <<server, total, total_amount>>

Measured(c, n) == total_amount[c] + n

\* Only what is not too slow, and not too fast to be true, is measured.
ReadData(c) ==
  /\ phase[c] = "loop" /\ total[c] < Data
  /\ \E n \in Sizes(c), measured \in BOOLEAN :
       /\ total' = [total EXCEPT ![c] = @ + n]
       /\ total_amount' = [total_amount EXCEPT ![c] = IF measured THEN Measured(c, n) ELSE @]
  /\ UNCHANGED <<server, phase, delayed>>

\* Mutant: the loop ends as soon as nothing is there.
NothingThere(c) == Unread(c) = 0
\* recv returns 0
AtEnd(c) == Unread(c) = 0 /\ c \in closed

Finish(c) ==
  /\ phase[c] = "loop" /\ (total[c] >= Data \/ AtEnd(c))
  /\ phase' = [phase EXCEPT ![c] = "end"]
  /\ UNCHANGED <<server, delayed, total, total_amount>>

-----------------------------------------------------------------------------
\* server.c

accept ==
  /\ stage = "accept" /\ stage' = "recv"
  /\ \E c \in Clients : phase[c] # "connect" /\ sent[c] = 0 /\ new_socket' = c
  /\ UNCHANGED <<main, sent, closed>>

\* "Hello,server" has come, then the greeting is sent.
greet ==
  /\ stage = "recv" /\ stage' = "send"
  /\ sent' = [sent EXCEPT ![new_socket] = Greeting]
  /\ UNCHANGED <<main, new_socket, closed>>

\* send of the data, as TCP takes them
send ==
  /\ stage = "send" /\ sent[new_socket] < Greeting + Data
  /\ \E n \in sent[new_socket]+1..Greeting+Data : sent' = [sent EXCEPT ![new_socket] = n]
  /\ UNCHANGED <<main, new_socket, stage, closed>>

Close(c) == closed' = closed \cup {c}

\* handle_client is done
close ==
  /\ stage = "send" /\ sent[new_socket] = Greeting + Data
  /\ Close(new_socket) /\ new_socket' = Nobody /\ stage' = "accept"
  /\ UNCHANGED <<main, sent>>

-----------------------------------------------------------------------------
MeterInit ==
  /\ new_socket = Nobody /\ stage = "accept" /\ closed = {}
  /\ sent = [c \in Clients |-> 0] /\ phase = [c \in Clients |-> "connect"]
  /\ delayed = [c \in Clients |-> 0] /\ total = [c \in Clients |-> 0]
  /\ total_amount = [c \in Clients |-> 0]

Client(c) == Connect(c) \/ ReadGreeting(c) \/ ReadData(c) \/ Finish(c)
Server    == accept \/ greet \/ send \/ close
MeterNext == Server \/ \E c \in Clients : Client(c)
MeterSpec ==
  /\ MeterInit /\ [][MeterNext]_meterVars
  /\ WF_meterVars(Server) /\ \A c \in Clients : WF_meterVars(Client(c))

-----------------------------------------------------------------------------
\* Also if some data came with the greeting, so that the amount it waits for
\* never comes, and whatever clients are before it, each client ends and has
\* read all that it was sent: what came with the greeting is missing from total,
\* and nothing else.
AllEnd ==
  /\ []MeterTypeOK
  /\ \A c \in Clients : <>[](phase[c] = "end" /\ delayed[c] + total[c] = Greeting + Data)
=============================================================================
