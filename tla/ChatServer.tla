---------------------------- MODULE ChatServer ----------------------------
(***************************************************************************)
(* hw2/hw2_chat_server.cpp: one epoll loop that serves every connection of *)
(* a chat service.  Each readiness event is handled to its end before the  *)
(* next one, so an action below is one accept or one read with the whole   *)
(* handler it dispatches to.  A command the server refuses changes nothing *)
(* but the reply, which is a stuttering step here.                         *)
(*                                                                         *)
(* An entry of connections_map is a pointer to a user_t.  The registered   *)
(* users are slots 1..total_user of userlist.  Slot 0 is the user_info of  *)
(* main's accept branch: a local whose address is stored for every new     *)
(* connection and used after its block has ended.  Compiled as the         *)
(* Makefile does (no optimisation) the frame keeps it at one address that  *)
(* no other variable of main reuses, so all the connections that have not  *)
(* logged in share that one record.                                        *)
(***************************************************************************)
EXTENDS RoomLog, FiniteSets

CONSTANTS
  MaxFd,      \* connected descriptors are 1..MaxFd (RLIMIT_NOFILE)
  MaxUsers,   \* entries of userlist
  MaxRoom,    \* highest room number a client may enter
  Names, Passwords,
  Statuses,   \* what set-status accepts
  SlowFd,     \* descriptors whose send buffer may be full
  MaxLog      \* bound on the records of one room, for model checking

Fd         == 1..MaxFd
Slot       == 0..MaxUsers
RoomNumber == 1..MaxRoom
GuestSlot  == 0

NoEntry  == -1        \* connections_map.find(fd) == connections_map.end()
InNoRoom == -1
NoRoom   == [creator |-> "none", history |-> <<>>, pin |-> NoPin]
NoName   == "none"

ASSUME BoundsAssumption ==
  /\ MaxFd \in Nat /\ MaxUsers \in Nat /\ MaxRoom \in Nat /\ MaxLog \in Nat
  /\ SlowFd \subseteq Fd
ASSUME NamesAssumption == NoName \notin Names /\ NoName \notin Passwords

VARIABLES
  up,               \* main has not returned
  open,             \* descriptors accepted and not closed
  reset,            \* open descriptors whose peer reset the connection
  connections_map, total_user,
  username, password, state, show_state, room_number,     \* user_t, by slot
  chat_rooms,
  presented,        \* history: credentials the client of fd logged in with
  view,             \* history: messages shown to fd since it entered its room
  lagging           \* history: fds that missed one since then

users    == <<total_user, username, password>>
sessions == <<state, show_state, room_number>>
screens  == <<view, lagging>>
vars == <<up, open, reset, connections_map, users, sessions, chat_rooms,
          presented, screens>>

Record == RecordsBy(Names)
Room   == RoomsOf(Names)

TypeOK ==
  /\ up \in BOOLEAN
  /\ open \subseteq Fd /\ reset \subseteq open
  /\ connections_map \in [Fd -> Slot \union {NoEntry}]
  /\ total_user \in 0..MaxUsers
  /\ username \in [Slot -> Names \union {NoName}]
  /\ password \in [Slot -> Passwords \union {NoName}]
  /\ state \in [Slot -> {0, 1}]
  /\ show_state \in [Slot -> Statuses \union {"online", "offline"}]
  /\ room_number \in [Slot -> -1..MaxRoom]
  /\ chat_rooms \in [RoomNumber -> Room \union {NoRoom}]
  /\ presented \in [Fd -> SUBSET (Names \X Passwords)]
  /\ view \in [Fd -> Seq(Record)]
  /\ lagging \subseteq Fd

-----------------------------------------------------------------------------
\* What a handler finds when fd is readable.

Live(fd)     == up /\ fd \in open \ reset
User(fd)     == connections_map[fd]
Mapped(fd)   == User(fd) # NoEntry
LoggedIn(fd) == Mapped(fd) /\ state[User(fd)] = 1
\* Mutant: handle_read does not look at the room first.
PromptAnywhere(fd) == Live(fd) /\ Mapped(fd)
\* handle_read: the room of the entry decides which commands are understood
AtPrompt(fd) == Live(fd) /\ Mapped(fd) /\ room_number[User(fd)] = InNoRoom
InRoom(fd)   == Live(fd) /\ Mapped(fd) /\ room_number[User(fd)] # InNoRoom

Exists(r) == chat_rooms[r] # NoRoom
\* broadcast_room: the descriptors a record for room r is sent to
Members(r) == {fd \in Fd : LoggedIn(fd) /\ room_number[User(fd)] = r}
\* the descriptors that share fd's entry
Aliases(fd) == {g \in Fd : connections_map[g] = connections_map[fd]}

\* send with MSG_DONTWAIT: a slow member may lose the record, a member that has
\* gone gets nothing.
broadcast_room(r, record) ==
  LET reached == Members(r) \intersect (open \ reset') IN
  \E lost \in SUBSET (SlowFd \intersect reached) :
    /\ lagging' = lagging \union lost
    /\ view' = [fd \in Fd |->
         IF fd \in lost THEN <<>>
         ELSE IF fd \in reached \ lagging THEN view[fd] \o Said(<<record>>)
         ELSE view[fd]]

\* The screens of the connections in fds are history: they left the room.
Blank(fds) ==
  /\ view' = [fd \in Fd |-> IF fd \in fds THEN <<>> ELSE view[fd]]
  /\ lagging' = lagging \ fds

-----------------------------------------------------------------------------
\* main: accept and disconnection

\* Mutant: map::insert, which leaves an old entry in place.
InsertedEntry(fd) ==
  IF Mapped(fd) THEN connections_map ELSE [connections_map EXCEPT ![fd] = GuestSlot]
NewEntry(fd) == [connections_map EXCEPT ![fd] = GuestSlot]

Accept ==
  /\ up
  /\ \E fd \in Fd \ open :
       /\ \A g \in Fd \ open : fd <= g
       /\ open' = open \union {fd}
       /\ connections_map' = NewEntry(fd)
       /\ presented' = [presented EXCEPT ![fd] = {}]
       /\ Blank({fd})
  /\ state' = [state EXCEPT ![GuestSlot] = 0]
  /\ room_number' = [room_number EXCEPT ![GuestSlot] = InNoRoom]
  /\ UNCHANGED <<up, reset, users, show_state, chat_rooms>>

\* No descriptor is left: accept fails and main returns.
AcceptFails ==
  /\ up /\ open = Fd
  /\ up' = FALSE
  /\ UNCHANGED <<open, reset, connections_map, users, sessions, chat_rooms,
                 presented, screens>>

\* read returns 0, or the descriptor has no entry: the descriptor is closed
\* and nothing is done about the entry or the account it points to.
Eof(fd) ==
  /\ up /\ fd \in open
  /\ open' = open \ {fd} /\ reset' = reset \ {fd}
  /\ Blank({fd})
  /\ UNCHANGED <<up, connections_map, users, sessions, chat_rooms, presented>>

-----------------------------------------------------------------------------
\* Commands understood outside a room

\* Not in the code, which writes past userlist instead: a bound of the model.
SpaceLeft == total_user < MaxUsers

IsUsed(name) == \E i \in 1..total_user : username[i] = name

handle_register(fd, name, pass) ==
  /\ AtPrompt(fd)
  /\ SpaceLeft
  /\ ~IsUsed(name)
  /\ LET slot == total_user + 1 IN
       /\ total_user' = slot
       /\ username'   = [username EXCEPT ![slot] = name]
       /\ password'   = [password EXCEPT ![slot] = pass]
       /\ state'      = [state EXCEPT ![slot] = 0]
       /\ show_state' = [show_state EXCEPT ![slot] = "offline"]
       \* room_number of the local user_info is never set
       /\ \E junk \in -1..MaxRoom :
            room_number' = [room_number EXCEPT ![slot] = junk]
  /\ UNCHANGED <<up, open, reset, connections_map, chat_rooms, presented, screens>>

handle_login(fd, name, pass) ==
  /\ AtPrompt(fd)
  /\ \E i \in 1..total_user :
       /\ username[i] = name /\ \A j \in 1..i-1 : username[j] # name
       /\ password[i] = pass
       /\ state[i] # 1
       /\ state'           = [state EXCEPT ![i] = 1]
       /\ show_state'      = [show_state EXCEPT ![i] = "online"]
       /\ room_number'     = [room_number EXCEPT ![i] = InNoRoom]
       /\ connections_map' = [connections_map EXCEPT ![fd] = i]
  /\ presented' = [presented EXCEPT ![fd] = @ \union {<<name, pass>>}]
  /\ UNCHANGED <<up, open, reset, users, chat_rooms, screens>>

\* Mutant: the status shown is left as it was.
ShowAsBefore(i) == UNCHANGED show_state
ShowOffline(i) == show_state' = [show_state EXCEPT ![i] = "offline"]

handle_logout(fd) ==
  /\ AtPrompt(fd) /\ LoggedIn(fd)
  /\ ShowOffline(User(fd))
  /\ state'       = [state EXCEPT ![User(fd)] = 0]
  /\ room_number' = [room_number EXCEPT ![User(fd)] = InNoRoom]
  /\ UNCHANGED <<up, open, reset, connections_map, users, chat_rooms, presented,
                 screens>>

\* The second close of the descriptor, in main, finds it closed already.
handle_exit(fd) ==
  /\ AtPrompt(fd)
  /\ \/ /\ LoggedIn(fd)
        /\ state' = [state EXCEPT ![User(fd)] = 0]
        /\ ShowOffline(User(fd))
     \/ ~LoggedIn(fd) /\ UNCHANGED <<state, show_state>>
  /\ connections_map' = [connections_map EXCEPT ![fd] = NoEntry]
  /\ open' = open \ {fd}
  /\ Blank({fd})
  /\ UNCHANGED <<up, reset, users, room_number, chat_rooms, presented>>

handle_set_status(fd, status) ==
  /\ AtPrompt(fd) /\ LoggedIn(fd)
  /\ show_state' = [show_state EXCEPT ![User(fd)] = status]
  /\ UNCHANGED <<up, open, reset, connections_map, users, state, room_number,
                 chat_rooms, presented, screens>>

handle_enter_chat_room(fd, r) ==
  /\ AtPrompt(fd) /\ LoggedIn(fd)
  /\ room_number' = [room_number EXCEPT ![User(fd)] = r]
  /\ \/ /\ ~Exists(r)
        /\ chat_rooms' = [chat_rooms EXCEPT ![r] = new_room(username[User(fd)])]
        /\ UNCHANGED screens
     \/ /\ Exists(r)
        \* send_chat_history
        /\ \/ /\ view' = [view EXCEPT ![fd] = Said(LatestRecords(chat_rooms[r]))]
              /\ UNCHANGED lagging
           \/ fd \in SlowFd /\ lagging' = lagging \union {fd} /\ UNCHANGED view
        /\ UNCHANGED chat_rooms
  /\ UNCHANGED <<up, open, reset, connections_map, users, state, show_state,
                 presented>>

\* Mutant: the members are told and not moved out.
OnlyTold(r) == {}
\* The descriptors with an entry for r, closed ones and logged-out ones included.
Occupants(r) == {g \in Fd : Mapped(g) /\ room_number[User(g)] = r}

handle_close_chat_room(fd, r) ==
  /\ AtPrompt(fd) /\ LoggedIn(fd)
  /\ Exists(r) /\ chat_rooms[r].creator = username[User(fd)]
  /\ room_number' = [i \in Slot |->
       IF \E g \in Occupants(r) : User(g) = i THEN InNoRoom ELSE room_number[i]]
  /\ Blank(Occupants(r))
  /\ chat_rooms' = [chat_rooms EXCEPT ![r] = NoRoom]
  /\ UNCHANGED <<up, open, reset, connections_map, users, state, show_state,
                 presented>>

-----------------------------------------------------------------------------
\* Commands understood in a room

exit_chat_room(fd) ==
  /\ InRoom(fd)
  /\ room_number' = [room_number EXCEPT ![User(fd)] = InNoRoom]
  /\ Blank(Aliases(fd))
  /\ UNCHANGED <<up, open, reset, connections_map, users, state, show_state,
                 chat_rooms, presented>>

pin(fd) ==
  /\ InRoom(fd)
  /\ UNCHANGED <<up, open, reset, connections_map, users, sessions, presented>>
  /\ LET r == room_number[User(fd)]  by == username[User(fd)] IN
       /\ Len(chat_rooms[r].history) < MaxLog
       /\ chat_rooms' = [chat_rooms EXCEPT ![r] = SetPin(@, by)]
       /\ broadcast_room(r, PinRecord(by))

delete_pin(fd) ==
  /\ InRoom(fd)
  /\ LET r == room_number[User(fd)] IN
       /\ chat_rooms[r].pin # NoPin
       /\ chat_rooms' = [chat_rooms EXCEPT ![r] = ClearPin(@)]
  /\ UNCHANGED <<up, open, reset, connections_map, users, sessions, presented,
                 screens>>

\* handle_chat_message when the sender's account is logged in and in a room
Posts(fd) ==
  LET r == room_number[User(fd)]  by == username[User(fd)] IN
  /\ LoggedIn(fd)
  /\ Len(chat_rooms[r].history) < MaxLog
  /\ chat_rooms' = [chat_rooms EXCEPT ![r] = IF Exists(r) THEN PushChat(@, by) ELSE @]
  /\ broadcast_room(r, ChatRecord(by))

handle_chat_message(fd) ==
  /\ InRoom(fd)
  /\ UNCHANGED <<up, open, reset, connections_map, users, sessions, presented>>
  /\ Posts(fd)

\* read returns -1: the empty buffer is handled as a line of input, which in a
\* room is a message and elsewhere an unknown command.  The next read of the
\* descriptor returns 0.
Reset(fd) ==
  /\ Live(fd)
  /\ reset' = reset \union {fd}
  /\ \/ InRoom(fd) /\ Posts(fd)
     \/ AtPrompt(fd) /\ UNCHANGED <<chat_rooms, screens>>
  /\ UNCHANGED <<up, open, connections_map, users, sessions, presented>>

-----------------------------------------------------------------------------
Init ==
  /\ up = TRUE /\ open = {} /\ reset = {}
  /\ connections_map = [fd \in Fd |-> NoEntry]
  /\ total_user = 0
  /\ username    = [i \in Slot |-> NoName]
  /\ password    = [i \in Slot |-> NoName]
  /\ state       = [i \in Slot |-> 0]
  /\ show_state  = [i \in Slot |-> "offline"]
  /\ room_number = [i \in Slot |-> IF i = GuestSlot THEN InNoRoom ELSE 0]
  /\ chat_rooms  = [r \in RoomNumber |-> NoRoom]
  /\ presented   = [fd \in Fd |-> {}]
  /\ view        = [fd \in Fd |-> <<>>]
  /\ lagging     = {}

Connection == Accept \/ AcceptFails \/ \E fd \in Fd : Eof(fd) \/ Reset(fd)

Session(fd) ==
  \/ \E name \in Names, pass \in Passwords :
       handle_register(fd, name, pass) \/ handle_login(fd, name, pass)
  \/ handle_logout(fd)
  \/ handle_exit(fd)
  \/ \E status \in Statuses : handle_set_status(fd, status)

Chat(fd) ==
  \/ \E r \in RoomNumber :
       handle_enter_chat_room(fd, r) \/ handle_close_chat_room(fd, r)
  \/ exit_chat_room(fd) \/ pin(fd) \/ delete_pin(fd)
  \/ handle_chat_message(fd)

Next == Connection \/ \E fd \in Fd : Session(fd) \/ Chat(fd)

Spec == Init /\ [][Next]_vars

-----------------------------------------------------------------------------
\* Replies that show the accounts and the rooms

handle_list_user == {<<username[i], show_state[i]>> : i \in 1..total_user}
list_chat_rooms  == {<<chat_rooms[r].creator, r>> : r \in {q \in RoomNumber : Exists(q)}}

-----------------------------------------------------------------------------
(***************************************************************************)
(* Invariants                                                              *)
(***************************************************************************)

\* Whatever entries earlier connections have left behind, the entry of an open
\* descriptor is there and can be followed: main reads it after each command,
\* and the commands of a room are dispatched only for a logged-in account and
\* a room that exists, so an unset or stale room_number is never used.
EntriesSound ==
  \A fd \in open :
    /\ Mapped(fd)
    /\ room_number[User(fd)] # InNoRoom =>
         LoggedIn(fd) /\ Exists(room_number[User(fd)])

\* A connection acts for an account only if its own client has sent that
\* account's name and password, although entries outlive connections, are
\* shared by several of them, and descriptors are reused.
SessionPresentedPassword ==
  \A fd \in open :
    Mapped(fd) /\ User(fd) # GuestSlot =>
      <<username[User(fd)], password[User(fd)]>> \in presented[fd]

\* list-user shows nobody as online or busy who is not logged in, whatever mix
\* of logout, exit, set-status and lost connections came before.
ListedOnlineIsLoggedIn ==
  \A entry \in handle_list_user : entry[2] # "offline" =>
    \E i \in 1..total_user : username[i] = entry[1] /\ state[i] = 1

\* Every listed room has exactly one account that may close it, since the owner
\* is remembered by name and a name belongs to one account.
OneOwner ==
  \A entry \in list_chat_rooms :
    Cardinality({i \in 1..total_user : username[i] = entry[1]}) = 1

\* The index kept in pin is that of the one pinned record of the history,
\* through any number of messages, re-pins and unpins by different members.
PinValid == \A r \in RoomNumber : PinPointsAtIt(chat_rooms[r])

\* What a member has been shown since it entered, the replayed history and the
\* broadcasts together, are the latest messages of the room, whatever is
\* pinned meanwhile: none is missing, repeated or out of order, unless a send to
\* it has failed.  A connection that is in no room, whichever way it got out, and
\* whichever connection of its account took it in or out, has been shown nothing.
ViewSuffix ==
  /\ \A fd \in (open \ reset) \ lagging :
       room_number[User(fd)] # InNoRoom =>
         IsSuffix(view[fd], Said(chat_rooms[room_number[User(fd)]].history))
  /\ \A fd \in open : room_number[User(fd)] = InNoRoom => view[fd] = <<>>

(***************************************************************************)
(* The inductive invariant: what the entries, the accounts and the rooms   *)
(* owe each other between two events, whatever has been closed meanwhile.  *)
(***************************************************************************)

\* Nothing a connection does changes the record all the guests share.
GuestUntouched == state[GuestSlot] = 0 /\ room_number[GuestSlot] = InNoRoom

\* Entries of closed descriptors are followed too, by broadcasts and closings.
Usable(fd) ==
  Mapped(fd) =>
    /\ User(fd) <= total_user
    /\ room_number[User(fd)] # InNoRoom =>
         /\ state[User(fd)] = 1
         /\ room_number[User(fd)] \in RoomNumber
         /\ Exists(room_number[User(fd)])
EntriesUsable == \A fd \in Fd : Usable(fd)

OpenMapped == \A fd \in open : Mapped(fd)

AccountsDistinct ==
  /\ \A i \in 1..total_user : username[i] \in Names /\ password[i] \in Passwords
  /\ \A i, j \in 1..total_user : username[i] = username[j] => i = j

ShownAsTheyAre == \A i \in Slot : state[i] = 0 => show_state[i] = "offline"

OwnersRegistered ==
  \A r \in RoomNumber : Exists(r) =>
    \E i \in 1..total_user : username[i] = chat_rooms[r].creator

\* The conjuncts above hold together in every state: each needs the others to
\* survive the next event.
IInv == /\ TypeOK /\ GuestUntouched /\ EntriesUsable /\ OpenMapped
        /\ AccountsDistinct /\ SessionPresentedPassword /\ ShownAsTheyAre
        /\ OwnersRegistered /\ PinValid

(***************************************************************************)
(* Action properties                                                       *)
(***************************************************************************)

\* A logged-in account goes from one room to another only by way of no room:
\* neither another connection of the account nor the closing of a room and its
\* re-creation can move it.
NoRoomHop ==
  [][\A i \in 1..total_user :
       state[i] = 1 /\ room_number[i] # InNoRoom =>
         room_number'[i] \in {room_number[i], InNoRoom}]_vars

(***************************************************************************)
(* What comments of the source say and the code does not do                *)
(***************************************************************************)

\* Line 108, "Check if the account is already logged in by another client": a
\* logged-in account is used by one client at a time.
OneClientPerAccount ==
  \A i \in 1..total_user :
    state[i] = 1 => Cardinality({fd \in open : User(fd) = i}) <= 1

\* The same comment: a login is refused with "Please logout first." because
\* another client holds the account.  Some connection can then log it out.
RefusalHasHolder ==
  \A i \in 1..total_user : state[i] = 1 => \E fd \in open : User(fd) = i
=============================================================================
