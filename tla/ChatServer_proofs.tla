------------------------- MODULE ChatServer_proofs -------------------------
(***************************************************************************)
(* IInv is an invariant of the chat server for any number of descriptors,  *)
(* accounts, rooms and records.  One lemma for each event shows that it    *)
(* keeps IInv, conjunct by conjunct.                                       *)
(***************************************************************************)
EXTENDS ChatServerBoards, SequenceFacts, FiniteSetTheorems

\* What holds of a room between two commands.
Sound(room, authors) == room \in RoomsOf(authors) /\ PinPointsAtIt(room)

\* handle_enter_chat_room makes a room with no record and no pin.
LEMMA NewRoomSound ==
  ASSUME NEW authors, NEW by \in authors
  PROVE  Sound(new_room(by), authors)
BY EmptySeq DEF Sound, PinPointsAtIt, RoomsOf, new_room, NoPin

\* handle_chat_message leaves the pinned record where it is.
LEMMA PushChatSound ==
  ASSUME NEW authors, NEW by \in authors, NEW room, Sound(room, authors)
  PROVE  Sound(PushChat(room, by), authors)
<1> DEFINE S    == RecordsBy(authors)
           h    == room.history
           new  == Append(h, ChatRecord(by))
<1>1. /\ room \in RoomsOf(authors) /\ h \in Seq(S) /\ Len(h) \in Nat
      /\ room.pin \in Nat \union {-1}
  BY LenProperties DEF Sound, RoomsOf, NoPin
<1>2. ChatRecord(by) \in S /\ ~IsPin(ChatRecord(by))
  BY DEF RecordsBy, ChatRecord, IsPin
<1>3. /\ new \in Seq(S) /\ Len(new) = Len(h) + 1
      /\ \A j \in 1..Len(h) : new[j] = h[j]
      /\ new[Len(h) + 1] = ChatRecord(by)
  BY <1>1, <1>2, PushProperties
<1>4. /\ room.pin + 1 \in 0..Len(h)
      /\ \A i \in 1..Len(h) : IsPin(h[i]) <=> i = room.pin + 1
  BY DEF Sound, PinPointsAtIt
<1>5. /\ PushChat(room, by) \in RoomsOf(authors)
      /\ PushChat(room, by).history = new
      /\ PushChat(room, by).pin = room.pin
  BY <1>1, <1>3 DEF PushChat, RoomsOf
<1> HIDE DEF new, h
<1>6. \A i \in 1..Len(new) : IsPin(new[i]) <=> i = room.pin + 1
  BY <1>1, <1>2, <1>3, <1>4
<1> QED BY <1>1, <1>3, <1>4, <1>5, <1>6 DEF Sound, PinPointsAtIt

\* Taking the pinned record out leaves messages only.
LEMMA UnpinnedProperties ==
  ASSUME NEW authors, NEW room, Sound(room, authors)
  PROVE  /\ Unpinned(room) \in Seq(RecordsBy(authors))
         /\ Len(Unpinned(room)) \in Nat
         /\ \A i \in 1..Len(Unpinned(room)) : ~IsPin(Unpinned(room)[i])
<1> DEFINE S == RecordsBy(authors)
           h == room.history
           p == room.pin + 1
<1>1. h \in Seq(S) /\ Len(h) \in Nat /\ room.pin \in Nat \union {-1}
  BY LenProperties DEF Sound, RoomsOf, NoPin
<1>2. p \in 0..Len(h) /\ \A i \in 1..Len(h) : IsPin(h[i]) <=> i = p
  BY DEF Sound, PinPointsAtIt
<1>3. CASE room.pin = NoPin
  BY <1>1, <1>2, <1>3 DEF Unpinned, NoPin
<1>4. CASE room.pin # NoPin
  <2>1. p \in 1..Len(h) /\ Unpinned(room) = RemoveAt(h, p)
    BY <1>1, <1>2, <1>4 DEF Unpinned, EraseRecord, NoPin
  <2>2. /\ RemoveAt(h, p) \in Seq(S)
        /\ Len(RemoveAt(h, p)) = Len(h) - 1
        /\ \A j \in 1..p-1 : RemoveAt(h, p)[j] = h[j]
        /\ \A j \in p..Len(h)-1 : RemoveAt(h, p)[j] = h[j+1]
    BY <1>1, <2>1, RemoveAtProperties
  <2> HIDE DEF h, p
  <2>3. \A i \in 1..Len(h)-1 : ~IsPin(RemoveAt(h, p)[i])
    <3> SUFFICES ASSUME NEW i \in 1..Len(h)-1 PROVE ~IsPin(RemoveAt(h, p)[i])
      OBVIOUS
    <3>1. CASE i < p
      BY <1>1, <1>2, <2>1, <2>2, <3>1
    <3>2. CASE i >= p
      BY <1>1, <1>2, <2>1, <2>2, <3>2
    <3> QED BY <1>1, <2>1, <3>1, <3>2
  <2> QED BY <1>1, <2>1, <2>2, <2>3
<1> QED BY <1>3, <1>4

\* "/pin": the index is taken after the old pinned record has been erased, so it
\* is that of the record pushed next.
LEMMA SetPinSound ==
  ASSUME NEW authors, NEW by \in authors, NEW room, Sound(room, authors)
  PROVE  Sound(SetPin(room, by), authors)
<1> DEFINE S   == RecordsBy(authors)
           u   == Unpinned(room)
           new == Append(u, PinRecord(by))
<1>1. /\ u \in Seq(S) /\ Len(u) \in Nat
      /\ \A i \in 1..Len(u) : ~IsPin(u[i])
  BY UnpinnedProperties
<1>2. PinRecord(by) \in S /\ IsPin(PinRecord(by))
  BY DEF RecordsBy, PinRecord, IsPin
<1>3. /\ new \in Seq(S) /\ Len(new) = Len(u) + 1
      /\ \A j \in 1..Len(u) : new[j] = u[j]
      /\ new[Len(u) + 1] = PinRecord(by)
  BY <1>1, <1>2, PushProperties
<1>4. /\ SetPin(room, by) \in RoomsOf(authors)
      /\ SetPin(room, by).history = new
      /\ SetPin(room, by).pin = Len(u)
  BY <1>1, <1>3 DEF SetPin, RoomsOf, Sound
<1> HIDE DEF new, u
<1>5. \A i \in 1..Len(new) : IsPin(new[i]) <=> i = Len(u) + 1
  BY <1>1, <1>2, <1>3
<1> QED BY <1>1, <1>3, <1>4, <1>5 DEF Sound, PinPointsAtIt

\* "/delete-pin" leaves a room with no pinned record.
LEMMA ClearPinSound ==
  ASSUME NEW authors, NEW room, Sound(room, authors)
  PROVE  Sound(ClearPin(room), authors)
<1> DEFINE u == Unpinned(room)
<1>1. /\ u \in Seq(RecordsBy(authors)) /\ Len(u) \in Nat
      /\ \A i \in 1..Len(u) : ~IsPin(u[i])
  BY UnpinnedProperties
<1>2. /\ ClearPin(room) \in RoomsOf(authors)
      /\ ClearPin(room).history = u
      /\ ClearPin(room).pin = -1
  BY <1>1 DEF ClearPin, RoomsOf, Sound, NoPin
<1> HIDE DEF u
<1> QED BY <1>1, <1>2 DEF Sound, PinPointsAtIt

\* The records replayed and the messages kept on a screen are records.
LEMMA LatestType ==
  ASSUME NEW authors, NEW room, Sound(room, authors)
  PROVE  LatestRecords(room) \in Seq(RecordsBy(authors))
<1> DEFINE S     == RecordsBy(authors)
           h     == room.history
           start == IF Len(h) > MaxHistory THEN Len(h) - MaxHistory ELSE 0
<1>1. h \in Seq(S) /\ Len(h) \in Nat /\ \A j \in 1..Len(h) : h[j] \in S
  BY LenProperties, ElementOfSeq DEF Sound, RoomsOf
<1>2. start + 1 \in Nat \ {0}
  BY <1>1, MaxHistoryAssumption
<1> HIDE DEF start
<1>3. SubSeq(h, start + 1, Len(h)) \in Seq(S)
  BY <1>1, <1>2, SubSeqProperties
<1> QED BY <1>3 DEF LatestRecords, start

LEMMA SaidType ==
  ASSUME NEW S, NEW records \in Seq(S)
  PROVE  Said(records) \in Seq(S)
<1>1. CASE \E i \in DOMAIN records : IsPin(records[i])
  <2> DEFINE k == CHOOSE i \in DOMAIN records : IsPin(records[i])
  <2>1. k \in 1..Len(records)
    BY <1>1, LenProperties
  <2>2. RemoveAt(records, k) \in Seq(S)
    BY <2>1, RemoveAtProperties
  <2> QED BY <1>1, <2>2 DEF Said
<1> QED BY <1>1 DEF Said

-----------------------------------------------------------------------------

USE DEF Fd, Slot, RoomNumber, GuestSlot, NoEntry, InNoRoom, User, Mapped, Room,
        Record, Usable

ScreensOK == view \in [Fd -> Seq(Record)] /\ lagging \subseteq Fd

\* A pinned record or a message by a registered user is a record.
LEMMA RecordType ==
  ASSUME NEW by \in Names PROVE ChatRecord(by) \in Record /\ PinRecord(by) \in Record
BY DEF RecordsBy, ChatRecord, PinRecord

\* NoRoom is no room, and has no pinned record.
LEMMA NoRoomProperties == NoRoom \notin Room /\ PinPointsAtIt(NoRoom)
<1>1. NoRoom.creator \notin Names
  BY NamesAssumption DEF NoRoom, NoName
<1>2. \A room \in Room : room.creator \in Names
  BY DEF RoomsOf
<1>3. PinPointsAtIt(NoRoom)
  BY EmptySeq DEF NoRoom, PinPointsAtIt, NoPin
<1> QED BY <1>1, <1>2, <1>3

LEMMA BlankType ==
  ASSUME ScreensOK, NEW fds, Blank(fds) PROVE ScreensOK'
BY EmptySeq DEF ScreensOK, Blank

LEMMA BroadcastType ==
  ASSUME ScreensOK, SlowFd \subseteq Fd, NEW r, NEW record \in Record,
         broadcast_room(r, record)
  PROVE  ScreensOK'
<1>1. <<record>> \in Seq(Record)
  OBVIOUS
<1>2. Said(<<record>>) \in Seq(Record)
  BY <1>1, SaidType
<1>3. \A fd \in Fd : view[fd] \o Said(<<record>>) \in Seq(Record)
  BY <1>2, ConcatProperties DEF ScreensOK
<1> HIDE DEF Record
<1> QED BY <1>3, EmptySeq DEF ScreensOK, broadcast_room

LEMMA Bounds ==
  IInv => /\ TypeOK /\ ScreensOK
          /\ 0 \in Slot /\ MaxRoom \in Nat /\ MaxUsers \in Nat
          /\ total_user \in 0..MaxUsers /\ total_user \in Nat
<1> SUFFICES ASSUME IInv PROVE Bounds!2
  OBVIOUS
<1>1. TypeOK
  BY DEF IInv
<1>2. ScreensOK /\ total_user \in 0..MaxUsers
  BY <1>1 DEF TypeOK, ScreensOK
<1> QED BY <1>1, <1>2, BoundsAssumption

\* What the entry a handler follows points to.
LEMMA UserFacts ==
  ASSUME IInv, NEW fd \in Fd, Mapped(fd)
  PROVE  /\ User(fd) \in 0..total_user /\ total_user \in 0..MaxUsers
         /\ User(fd) \in Slot /\ MaxUsers \in Nat
         /\ state[User(fd)] \in {0, 1}
         /\ state[User(fd)] = 1 => User(fd) \in 1..total_user
BY BoundsAssumption DEF IInv, TypeOK, GuestUntouched, EntriesUsable

LEMMA RoomFacts ==
  ASSUME IInv, NEW fd \in Fd, Mapped(fd), room_number[User(fd)] # InNoRoom
  PROVE  /\ User(fd) \in 1..total_user /\ state[User(fd)] = 1
         /\ username[User(fd)] \in Names
         /\ room_number[User(fd)] \in RoomNumber
         /\ Exists(room_number[User(fd)])
         /\ Sound(chat_rooms[room_number[User(fd)]], Names)
<1>1. /\ User(fd) \in 1..total_user /\ state[User(fd)] = 1
      /\ room_number[User(fd)] \in RoomNumber
      /\ Exists(room_number[User(fd)])
  BY UserFacts DEF IInv, EntriesUsable, GuestUntouched
<1>2. username[User(fd)] \in Names
  BY <1>1 DEF IInv, AccountsDistinct
<1>3. chat_rooms[room_number[User(fd)]] \in RoomsOf(Names)
  BY <1>1 DEF IInv, TypeOK, Exists
<1>4. PinPointsAtIt(chat_rooms[room_number[User(fd)]])
  BY <1>1 DEF IInv, PinValid
<1> QED BY <1>1, <1>2, <1>3, <1>4 DEF Sound

-----------------------------------------------------------------------------
LEMMA InitIInv == Init => IInv
<1> SUFFICES ASSUME Init PROVE IInv
  OBVIOUS
<1>1. TypeOK
  BY BoundsAssumption, EmptySeq DEF Init, TypeOK
<1>2. PinValid
  BY NoRoomProperties DEF Init, PinValid
<1>3. GuestUntouched /\ EntriesUsable /\ OpenMapped /\ SessionPresentedPassword
  BY BoundsAssumption DEF Init, GuestUntouched, EntriesUsable, OpenMapped,
     SessionPresentedPassword
<1>4. AccountsDistinct /\ ShownAsTheyAre /\ OwnersRegistered
  BY DEF Init, AccountsDistinct, ShownAsTheyAre, OwnersRegistered, Exists
<1> QED BY <1>1, <1>2, <1>3, <1>4 DEF IInv

\* A new connection gets the guests' entry whatever entry its descriptor had.
LEMMA AcceptIInv == IInv /\ Accept => IInv'
<1> SUFFICES ASSUME IInv, Accept PROVE IInv'
  OBVIOUS
<1>1. PICK fd \in Fd \ open :
        /\ open' = open \union {fd}
        /\ connections_map' = [connections_map EXCEPT ![fd] = GuestSlot]
        /\ presented' = [presented EXCEPT ![fd] = {}]
        /\ Blank({fd})
  BY DEF Accept, NewEntry
<1>2. /\ state' = [state EXCEPT ![GuestSlot] = 0]
      /\ room_number' = [room_number EXCEPT ![GuestSlot] = InNoRoom]
      /\ UNCHANGED <<up, reset, users, show_state, chat_rooms>>
  BY DEF Accept
<1>3. TypeOK /\ 0 \in Slot /\ MaxRoom \in Nat /\ total_user \in Nat
  BY Bounds
<1>4. ScreensOK'
  BY <1>1, BlankType DEF IInv, TypeOK, ScreensOK
<1>5. TypeOK'
  BY <1>1, <1>2, <1>3, <1>4 DEF TypeOK, ScreensOK, users
<1>6. GuestUntouched'
  BY <1>2, <1>3 DEF GuestUntouched, TypeOK
<1>7. state' = state /\ room_number' = room_number
  BY <1>2, <1>3 DEF IInv, GuestUntouched, TypeOK
<1>8. EntriesUsable' /\ OpenMapped'
  BY <1>1, <1>2, <1>3, <1>6, <1>7
     DEF IInv, EntriesUsable, OpenMapped, GuestUntouched, TypeOK, Exists, users
<1>9. SessionPresentedPassword'
  BY <1>1, <1>2, <1>3 DEF IInv, SessionPresentedPassword, TypeOK, users
<1>10. AccountsDistinct' /\ ShownAsTheyAre' /\ OwnersRegistered' /\ PinValid'
  BY <1>2, <1>7 DEF IInv, AccountsDistinct, ShownAsTheyAre, OwnersRegistered,
     PinValid, Exists, users
<1> QED BY <1>5, <1>6, <1>8, <1>9, <1>10 DEF IInv

LEMMA AcceptFailsIInv == IInv /\ AcceptFails => IInv'
BY DEF IInv, AcceptFails, users, sessions, screens, TypeOK, GuestUntouched,
   EntriesUsable, OpenMapped, AccountsDistinct, SessionPresentedPassword,
   ShownAsTheyAre, OwnersRegistered, PinValid, Exists

\* A closed descriptor's entry and account stay as they were.
LEMMA EofIInv == ASSUME NEW fd \in Fd PROVE IInv /\ Eof(fd) => IInv'
<1> SUFFICES ASSUME IInv, Eof(fd) PROVE IInv'
  OBVIOUS
<1> USE DEF Eof, users, sessions
<1>1. ScreensOK'
  BY BlankType DEF IInv, TypeOK, ScreensOK
<1>2. TypeOK'
  BY <1>1 DEF IInv, TypeOK, ScreensOK
<1>3. GuestUntouched' /\ EntriesUsable' /\ OpenMapped' /\ SessionPresentedPassword'
  BY DEF IInv, GuestUntouched, EntriesUsable, OpenMapped,
     SessionPresentedPassword, Exists
<1>4. AccountsDistinct' /\ ShownAsTheyAre' /\ OwnersRegistered' /\ PinValid'
  BY DEF IInv, AccountsDistinct, ShownAsTheyAre, OwnersRegistered, PinValid, Exists
<1> QED BY <1>2, <1>3, <1>4 DEF IInv

\* The new account is nobody's entry yet: its unset room_number is not followed.
LEMMA RegisterIInv ==
  ASSUME NEW fd \in Fd, NEW name \in Names, NEW pass \in Passwords
  PROVE  IInv /\ handle_register(fd, name, pass) => IInv'
<1> SUFFICES ASSUME IInv, handle_register(fd, name, pass) PROVE IInv'
  OBVIOUS
<1> DEFINE slot == total_user + 1
<1>1. /\ slot \in 1..MaxUsers /\ slot \in Slot /\ slot # 0
      /\ total_user \in Nat /\ MaxUsers \in Nat /\ 1..total_user \subseteq Slot
  BY Bounds DEF handle_register, SpaceLeft
<1>2. /\ total_user' = slot
      /\ username'   = [username EXCEPT ![slot] = name]
      /\ password'   = [password EXCEPT ![slot] = pass]
      /\ state'      = [state EXCEPT ![slot] = 0]
      /\ show_state' = [show_state EXCEPT ![slot] = "offline"]
      /\ \E junk \in -1..MaxRoom : room_number' = [room_number EXCEPT ![slot] = junk]
      /\ UNCHANGED <<up, open, reset, connections_map, chat_rooms, presented, view,
                     lagging>>
      /\ \A i \in 1..total_user : username[i] # name
  BY DEF handle_register, IsUsed, screens
<1> HIDE DEF slot
<1>3. TypeOK'
  <2>1. TypeOK
    BY Bounds
  <2>2. total_user' \in 0..MaxUsers
    BY <1>1, <1>2
  <2>3. room_number' \in [Slot -> -1..MaxRoom]
    BY <1>1, <1>2, <2>1 DEF TypeOK
  <2> QED BY <1>1, <1>2, <2>1, <2>2, <2>3 DEF TypeOK
<1>4. \A i \in Slot : i # slot =>
        /\ username'[i] = username[i] /\ password'[i] = password[i]
        /\ state'[i] = state[i] /\ room_number'[i] = room_number[i]
        /\ show_state'[i] = show_state[i]
  BY <1>1, <1>2, Bounds DEF TypeOK
<1>5. \A g \in Fd : Mapped(g) =>
        User(g) \in Slot /\ User(g) # slot /\ User(g) <= total_user
  BY <1>1, UserFacts DEF slot
<1>6. GuestUntouched'
  BY <1>1, <1>4, Bounds DEF IInv, GuestUntouched
<1>7. EntriesUsable'
  <2>1. total_user <= total_user'
    BY <1>1, <1>2 DEF slot
  <2> QED BY <1>1, <1>2, <1>4, <1>5, <2>1 DEF IInv, EntriesUsable, Exists, slot
<1>8. OpenMapped' /\ SessionPresentedPassword'
  BY <1>2, <1>4, <1>5, Bounds DEF IInv, OpenMapped, SessionPresentedPassword, TypeOK
<1>9. \A i \in 1..total_user' : i = slot \/ i \in 1..total_user
  BY <1>1, <1>2 DEF slot
<1>10. username'[slot] = name /\ password'[slot] = pass /\ show_state'[slot] = "offline"
  BY <1>1, <1>2, Bounds DEF TypeOK
<1>11. \A i \in 1..total_user : i # slot /\ i \in Slot
  BY <1>1 DEF slot
<1>12. AccountsDistinct'
  BY <1>2, <1>4, <1>9, <1>10, <1>11 DEF IInv, AccountsDistinct
<1>13. ShownAsTheyAre'
  BY <1>4, <1>10 DEF IInv, ShownAsTheyAre
<1>14. OwnersRegistered'
  <2>1. 1..total_user \subseteq 1..total_user'
    BY <1>1, <1>2 DEF slot
  <2> QED BY <1>2, <1>4, <1>11, <2>1 DEF IInv, OwnersRegistered, Exists
<1>15. PinValid'
  BY <1>2 DEF IInv, PinValid
<1> QED BY <1>3, <1>6, <1>7, <1>8, <1>12, <1>13, <1>14, <1>15 DEF IInv

\* The account's credentials have just been presented on fd; connections that
\* already shared the account have presented them before.
LEMMA LoginIInv ==
  ASSUME NEW fd \in Fd, NEW name \in Names, NEW pass \in Passwords
  PROVE  IInv /\ handle_login(fd, name, pass) => IInv'
<1> SUFFICES ASSUME IInv, handle_login(fd, name, pass) PROVE IInv'
  OBVIOUS
<1>1. PICK i \in 1..total_user :
        /\ username[i] = name /\ password[i] = pass
        /\ state'           = [state EXCEPT ![i] = 1]
        /\ show_state'      = [show_state EXCEPT ![i] = "online"]
        /\ room_number'     = [room_number EXCEPT ![i] = InNoRoom]
        /\ connections_map' = [connections_map EXCEPT ![fd] = i]
  BY DEF handle_login
<1>2. /\ presented' = [presented EXCEPT ![fd] = @ \union {<<name, pass>>}]
      /\ UNCHANGED <<up, open, reset, total_user, username, password, chat_rooms,
                     view, lagging>>
  BY DEF handle_login, users, screens
<1>3. i \in Slot /\ i # 0 /\ i # NoEntry /\ MaxRoom \in Nat
  BY Bounds
<1>4. TypeOK'
  <2>1. <<name, pass>> \in Names \X Passwords
    OBVIOUS
  <2>2. presented' \in [Fd -> SUBSET (Names \X Passwords)]
    BY <1>2, <2>1, Bounds DEF TypeOK
  <2> QED BY <1>1, <1>2, <1>3, <2>2, Bounds DEF TypeOK
<1>5. GuestUntouched' /\ ShownAsTheyAre'
  BY <1>1, <1>3, Bounds DEF IInv, GuestUntouched, ShownAsTheyAre, TypeOK
<1>6. EntriesUsable'
  <2> SUFFICES ASSUME NEW g \in Fd PROVE Usable(g)'
    BY DEF EntriesUsable
  <2>1. CASE User(g)' = i
    BY <1>1, <1>2, <1>3, <2>1, Bounds DEF TypeOK
  <2>2. CASE User(g)' # i
    <3>1. User(g)' = User(g)
      BY <1>1, <2>2, Bounds DEF TypeOK
    <3>2. CASE ~Mapped(g)
      BY <3>1, <3>2 DEF Usable
    <3>3. CASE Mapped(g)
      <4>1. User(g) \in Slot
        BY <3>3, UserFacts
      <4>2. /\ room_number'[User(g)] = room_number[User(g)]
            /\ state'[User(g)] = state[User(g)]
        BY <1>1, <2>2, <3>1, <4>1, Bounds DEF TypeOK
      <4> QED BY <1>2, <3>1, <4>2 DEF IInv, EntriesUsable, Exists
    <3> QED BY <3>2, <3>3
  <2> QED BY <2>1, <2>2
<1>7. OpenMapped'
  BY <1>1, <1>2, <1>3, Bounds DEF IInv, OpenMapped, TypeOK
<1>8. SessionPresentedPassword'
  BY <1>1, <1>2, Bounds DEF IInv, SessionPresentedPassword, TypeOK
<1>9. AccountsDistinct' /\ OwnersRegistered' /\ PinValid'
  BY <1>2 DEF IInv, AccountsDistinct, OwnersRegistered, PinValid, Exists
<1> QED BY <1>4, <1>5, <1>6, <1>7, <1>8, <1>9 DEF IInv

-----------------------------------------------------------------------------
\* Events that create no connection and register nobody leave these facts alone.
LEMMA AccountsFrame ==
  ASSUME IInv, UNCHANGED <<connections_map, users, presented>>, open' \subseteq open
  PROVE  OpenMapped' /\ SessionPresentedPassword' /\ AccountsDistinct'
BY DEF IInv, OpenMapped, SessionPresentedPassword, AccountsDistinct, users

LEMMA RoomsFrame ==
  ASSUME IInv, UNCHANGED <<chat_rooms, users>>
  PROVE  OwnersRegistered' /\ PinValid'
BY DEF IInv, OwnersRegistered, PinValid, Exists, users

\* All the connections that share the account are logged out together.
LEMMA LogoutIInv == ASSUME NEW fd \in Fd PROVE IInv /\ handle_logout(fd) => IInv'
<1> SUFFICES ASSUME IInv, handle_logout(fd) PROVE IInv'
  OBVIOUS
<1> DEFINE u == User(fd)
<1>1. /\ state'       = [state EXCEPT ![u] = 0]
      /\ show_state'  = [show_state EXCEPT ![u] = "offline"]
      /\ room_number' = [room_number EXCEPT ![u] = InNoRoom]
      /\ UNCHANGED <<up, open, reset, connections_map, users, total_user, username,
                     password, chat_rooms, presented, view, lagging>>
      /\ Mapped(fd) /\ LoggedIn(fd)
  BY DEF handle_logout, ShowOffline, AtPrompt, users, screens
<1>2. u \in Slot /\ u \in 1..total_user /\ u # 0
  BY <1>1, UserFacts DEF LoggedIn
<1> HIDE DEF u
<1>3. TypeOK'
  BY <1>1, <1>2, Bounds DEF TypeOK
<1>4. GuestUntouched' /\ ShownAsTheyAre'
  BY <1>1, <1>2, Bounds DEF IInv, GuestUntouched, ShownAsTheyAre, TypeOK
<1>5. EntriesUsable'
  <2> SUFFICES ASSUME NEW g \in Fd, Mapped(g) PROVE Usable(g)'
    BY <1>1 DEF EntriesUsable
  <2>1. User(g) \in Slot
    BY UserFacts
  <2> QED BY <1>1, <1>2, <2>1, Bounds DEF IInv, EntriesUsable, Exists, TypeOK
<1> QED BY <1>1, <1>3, <1>4, <1>5, AccountsFrame, RoomsFrame DEF IInv

\* The account leaves no room: it is at the prompt.
LEMMA ExitIInv == ASSUME NEW fd \in Fd PROVE IInv /\ handle_exit(fd) => IInv'
<1> SUFFICES ASSUME IInv, handle_exit(fd) PROVE IInv'
  OBVIOUS
<1> DEFINE u == User(fd)
<1>1. /\ \/ /\ state'      = [state EXCEPT ![u] = 0]
            /\ show_state' = [show_state EXCEPT ![u] = "offline"]
         \/ UNCHANGED <<state, show_state>>
      /\ connections_map' = [connections_map EXCEPT ![fd] = NoEntry]
      /\ open' = open \ {fd} /\ fd \notin reset
      /\ UNCHANGED <<up, reset, users, total_user, username, password, room_number,
                     chat_rooms, presented>>
      /\ Mapped(fd) /\ room_number[u] = InNoRoom
  BY DEF handle_exit, ShowOffline, AtPrompt, Live, users
<1>2. u \in Slot
  BY <1>1, UserFacts
<1> HIDE DEF u
<1>3. ScreensOK'
  BY BlankType, Bounds DEF handle_exit
<1>4. TypeOK'
  <2>1. state' \in [Slot -> {0, 1}]
    BY <1>1, <1>2, Bounds DEF TypeOK
  <2>2. show_state' \in [Slot -> Statuses \union {"online", "offline"}]
    BY <1>1, <1>2, Bounds DEF TypeOK
  <2> QED BY <1>1, <1>3, <2>1, <2>2, Bounds DEF TypeOK, ScreensOK
<1>5. GuestUntouched'
  BY <1>1, <1>2, Bounds DEF IInv, GuestUntouched, TypeOK
<1>6. ShownAsTheyAre'
  BY <1>1, <1>2, Bounds DEF IInv, ShownAsTheyAre, TypeOK
<1>7. EntriesUsable'
  <2> SUFFICES ASSUME NEW g \in Fd PROVE Usable(g)'
    BY DEF EntriesUsable
  <2>1. CASE g = fd
    BY <1>1, <2>1, Bounds DEF TypeOK
  <2>2. CASE g # fd /\ Mapped(g)
    <3>1. User(g)' = User(g) /\ User(g) \in Slot
      BY <1>1, <2>2, UserFacts, Bounds DEF TypeOK
    <3>2. User(g) # u => state'[User(g)] = state[User(g)]
      BY <1>1, <1>2, <3>1, Bounds DEF TypeOK
    <3> QED BY <1>1, <3>1, <3>2 DEF IInv, EntriesUsable, Exists
  <2>3. CASE g # fd /\ ~Mapped(g)
    BY <1>1, <2>3, Bounds DEF TypeOK
  <2> QED BY <2>1, <2>2, <2>3
<1>8. OpenMapped' /\ SessionPresentedPassword'
  BY <1>1, Bounds DEF IInv, OpenMapped, SessionPresentedPassword, TypeOK
<1>9. AccountsDistinct'
  BY <1>1 DEF IInv, AccountsDistinct
<1> QED BY <1>1, <1>4, <1>5, <1>6, <1>7, <1>8, <1>9, RoomsFrame DEF IInv

LEMMA SetStatusIInv ==
  ASSUME NEW fd \in Fd, NEW status \in Statuses
  PROVE  IInv /\ handle_set_status(fd, status) => IInv'
<1> SUFFICES ASSUME IInv, handle_set_status(fd, status) PROVE IInv'
  OBVIOUS
<1> DEFINE u == User(fd)
<1>1. /\ show_state' = [show_state EXCEPT ![u] = status]
      /\ UNCHANGED <<up, open, reset, connections_map, users, total_user, username,
                     password, state, room_number, chat_rooms, presented, view,
                     lagging>>
      /\ Mapped(fd) /\ state[u] = 1
  BY DEF handle_set_status, AtPrompt, LoggedIn, users, screens
<1>2. u \in Slot
  BY <1>1, UserFacts
<1> HIDE DEF u
<1>3. TypeOK'
  BY <1>1, <1>2, Bounds DEF TypeOK
<1>4. GuestUntouched' /\ ShownAsTheyAre' /\ EntriesUsable'
  BY <1>1, <1>2, Bounds
     DEF IInv, GuestUntouched, ShownAsTheyAre, EntriesUsable, Exists, TypeOK
<1> QED BY <1>1, <1>3, <1>4, AccountsFrame, RoomsFrame DEF IInv

-----------------------------------------------------------------------------
\* A command of a room that rewrites its records, and keeps them sound, keeps
\* the invariant.
LEMMA RewriteRoom ==
  ASSUME IInv, NEW r \in RoomNumber, Exists(r), NEW room, Sound(room, Names),
         room.creator = chat_rooms[r].creator,
         chat_rooms' = [chat_rooms EXCEPT ![r] = room],
         UNCHANGED <<up, open, connections_map, users, sessions, presented>>,
         reset' \subseteq open, ScreensOK'
  PROVE  IInv'
<1>1. UNCHANGED <<total_user, username, password, state, show_state, room_number>>
  BY DEF users, sessions
<1>2. room \in Room /\ room # NoRoom /\ PinPointsAtIt(room)
  BY NoRoomProperties DEF Sound
<1>3. /\ chat_rooms'[r] = room
      /\ \A q \in RoomNumber : q # r => chat_rooms'[q] = chat_rooms[q]
      /\ chat_rooms' \in [RoomNumber -> Room \union {NoRoom}]
  BY <1>2, Bounds DEF TypeOK
<1>4. TypeOK'
  BY <1>1, <1>3, Bounds DEF TypeOK, ScreensOK
<1>5. \A q \in RoomNumber : Exists(q)' <=> Exists(q)
  BY <1>2, <1>3 DEF Exists
<1>6. EntriesUsable'
  BY <1>1, <1>5 DEF IInv, EntriesUsable
<1>7. OwnersRegistered'
  BY <1>1, <1>3, <1>5 DEF IInv, OwnersRegistered
<1>8. PinValid'
  BY <1>2, <1>3 DEF IInv, PinValid
<1>9. GuestUntouched' /\ ShownAsTheyAre'
  BY <1>1 DEF IInv, GuestUntouched, ShownAsTheyAre
<1> QED BY <1>1, <1>4, <1>6, <1>7, <1>8, <1>9, AccountsFrame DEF IInv

LEMMA PinIInv == ASSUME NEW fd \in Fd PROVE IInv /\ pin(fd) => IInv'
<1> SUFFICES ASSUME IInv, pin(fd) PROVE IInv'
  OBVIOUS
<1> DEFINE r  == room_number[User(fd)]
           by == username[User(fd)]
<1>1. /\ UNCHANGED <<up, open, reset, connections_map, users, sessions, presented>>
      /\ chat_rooms' = [chat_rooms EXCEPT ![r] = SetPin(chat_rooms[r], by)]
      /\ broadcast_room(r, PinRecord(by))
  BY DEF pin
<1>2. /\ by \in Names /\ r \in RoomNumber /\ Exists(r)
      /\ Sound(chat_rooms[r], Names)
  BY RoomFacts DEF pin, InRoom
<1>3. ScreensOK'
  BY <1>1, <1>2, RecordType, BroadcastType, Bounds, BoundsAssumption
<1>4. Sound(SetPin(chat_rooms[r], by), Names)
  BY <1>2, SetPinSound
<1>5. SetPin(chat_rooms[r], by).creator = chat_rooms[r].creator
  BY <1>2 DEF SetPin, Sound, RoomsOf
<1>6. reset' \subseteq open
  BY <1>1, Bounds DEF TypeOK
<1> QED BY <1>1, <1>2, <1>3, <1>4, <1>5, <1>6, RewriteRoom

LEMMA DeletePinIInv == ASSUME NEW fd \in Fd PROVE IInv /\ delete_pin(fd) => IInv'
<1> SUFFICES ASSUME IInv, delete_pin(fd) PROVE IInv'
  OBVIOUS
<1> DEFINE r == room_number[User(fd)]
<1>1. /\ UNCHANGED <<up, open, reset, connections_map, users, sessions, presented,
                     view, lagging>>
      /\ chat_rooms' = [chat_rooms EXCEPT ![r] = ClearPin(chat_rooms[r])]
  BY DEF delete_pin, screens
<1>2. r \in RoomNumber /\ Exists(r) /\ Sound(chat_rooms[r], Names)
  BY RoomFacts DEF delete_pin, InRoom
<1>3. ScreensOK' /\ reset' \subseteq open
  BY <1>1, Bounds DEF TypeOK, ScreensOK
<1>4. Sound(ClearPin(chat_rooms[r]), Names)
  BY <1>2, ClearPinSound
<1>5. ClearPin(chat_rooms[r]).creator = chat_rooms[r].creator
  BY <1>2 DEF ClearPin, Sound, RoomsOf
<1> QED BY <1>1, <1>2, <1>3, <1>4, <1>5, RewriteRoom

\* A message, be it the empty one read from a connection that was reset.
LEMMA PostIInv ==
  ASSUME IInv, NEW fd \in Fd, InRoom(fd), Posts(fd), reset' \subseteq open,
         UNCHANGED <<up, open, connections_map, users, sessions, presented>>
  PROVE  IInv'
<1> DEFINE r  == room_number[User(fd)]
           by == username[User(fd)]
<1>1. /\ by \in Names /\ r \in RoomNumber /\ Exists(r)
      /\ Sound(chat_rooms[r], Names)
  BY RoomFacts DEF InRoom
<1>2. /\ chat_rooms' = [chat_rooms EXCEPT ![r] = PushChat(chat_rooms[r], by)]
      /\ broadcast_room(r, ChatRecord(by))
  BY <1>1 DEF Posts
<1>3. ScreensOK'
  BY <1>1, <1>2, RecordType, BroadcastType, Bounds, BoundsAssumption
<1>4. Sound(PushChat(chat_rooms[r], by), Names)
  BY <1>1, PushChatSound
<1>5. PushChat(chat_rooms[r], by).creator = chat_rooms[r].creator
  BY <1>1 DEF PushChat, Sound, RoomsOf
<1> QED BY <1>1, <1>2, <1>3, <1>4, <1>5, RewriteRoom

LEMMA MessageIInv == ASSUME NEW fd \in Fd PROVE IInv /\ handle_chat_message(fd) => IInv'
BY PostIInv, Bounds DEF handle_chat_message, TypeOK

LEMMA ResetIInv == ASSUME NEW fd \in Fd PROVE IInv /\ Reset(fd) => IInv'
<1> SUFFICES ASSUME IInv, Reset(fd) PROVE IInv'
  OBVIOUS
<1>1. reset' \subseteq open
  BY Bounds DEF Reset, Live, TypeOK
<1>2. CASE InRoom(fd) /\ Posts(fd)
  BY <1>1, <1>2, PostIInv DEF Reset
<1>3. CASE UNCHANGED <<chat_rooms, screens>>
  <2>1. TypeOK'
    BY <1>1, <1>3, Bounds DEF Reset, TypeOK, users, sessions, screens
  <2>2. GuestUntouched' /\ ShownAsTheyAre' /\ EntriesUsable'
    BY <1>3 DEF Reset, IInv, GuestUntouched, ShownAsTheyAre, EntriesUsable, Exists,
       users, sessions
  <2> QED BY <1>3, <2>1, <2>2, AccountsFrame, RoomsFrame DEF IInv, Reset
<1> QED BY <1>2, <1>3 DEF Reset

-----------------------------------------------------------------------------
\* Whoever enters shares the account's entry: its room exists from now on.
LEMMA EnterIInv ==
  ASSUME NEW fd \in Fd, NEW r \in RoomNumber
  PROVE  IInv /\ handle_enter_chat_room(fd, r) => IInv'
<1> SUFFICES ASSUME IInv, handle_enter_chat_room(fd, r) PROVE IInv'
  OBVIOUS
<1> DEFINE u == User(fd)
<1>1. /\ room_number' = [room_number EXCEPT ![u] = r]
      /\ UNCHANGED <<up, open, reset, connections_map, users, total_user, username,
                     password, state, show_state, presented>>
      /\ Mapped(fd) /\ state[u] = 1
  BY DEF handle_enter_chat_room, AtPrompt, LoggedIn, users
<1>2. u \in Slot /\ u \in 1..total_user /\ u # 0
  BY <1>1, UserFacts
<1>3. username[u] \in Names /\ r \in -1..MaxRoom /\ r # InNoRoom
  BY <1>2, BoundsAssumption DEF IInv, AccountsDistinct
<1>4. /\ Exists(r)' /\ chat_rooms' \in [RoomNumber -> Room \union {NoRoom}]
      /\ \A q \in RoomNumber : Exists(q) => chat_rooms'[q] = chat_rooms[q]
      /\ \A q \in RoomNumber : Exists(q)' /\ ~Exists(q) =>
           chat_rooms'[q] = new_room(username[u])
      /\ ScreensOK'
  <2>1. CASE ~Exists(r)
    <3>1. /\ chat_rooms' = [chat_rooms EXCEPT ![r] = new_room(username[u])]
          /\ UNCHANGED <<view, lagging>>
      BY <2>1 DEF handle_enter_chat_room, screens
    <3>2. new_room(username[u]) \in Room /\ new_room(username[u]) # NoRoom
      BY <1>3, NewRoomSound, NoRoomProperties DEF Sound
    <3> QED BY <2>1, <3>1, <3>2, Bounds DEF TypeOK, Exists, ScreensOK
  <2>2. CASE Exists(r)
    <3>1. chat_rooms' = chat_rooms
      BY <2>2 DEF handle_enter_chat_room
    <3>2. Sound(chat_rooms[r], Names)
      BY <2>2, Bounds DEF IInv, PinValid, TypeOK, Exists, Sound
    <3>3. Said(LatestRecords(chat_rooms[r])) \in Seq(Record)
      BY <3>2, LatestType, SaidType
    <3> HIDE DEF Record
    <3>4. ScreensOK'
      BY <2>2, <3>3, Bounds DEF handle_enter_chat_room, ScreensOK
    <3> QED BY <2>2, <3>1, <3>4, Bounds DEF TypeOK, Exists
  <2> QED BY <2>1, <2>2
<1> HIDE DEF u
<1>5. TypeOK'
  BY <1>1, <1>2, <1>3, <1>4, Bounds DEF TypeOK, ScreensOK
<1>6. GuestUntouched' /\ ShownAsTheyAre'
  BY <1>1, <1>2, Bounds DEF IInv, GuestUntouched, ShownAsTheyAre, TypeOK
<1>7. EntriesUsable'
  <2> SUFFICES ASSUME NEW g \in Fd, Mapped(g) PROVE Usable(g)'
    BY <1>1 DEF EntriesUsable
  <2>1. CASE User(g) = u
    BY <1>1, <1>2, <1>4, <2>1, Bounds DEF TypeOK
  <2>2. CASE User(g) # u
    <3>1. room_number'[User(g)] = room_number[User(g)]
      BY <1>1, <2>2, UserFacts, Bounds DEF TypeOK
    <3> QED BY <1>1, <1>4, <3>1 DEF IInv, EntriesUsable, Exists
  <2> QED BY <2>1, <2>2
<1>8. OwnersRegistered'
  BY <1>1, <1>2, <1>4 DEF IInv, OwnersRegistered, new_room
<1>9. PinValid'
  <2> SUFFICES ASSUME NEW q \in RoomNumber PROVE PinPointsAtIt(chat_rooms'[q])
    BY DEF PinValid
  <2>1. CASE ~Exists(q)'
    BY <2>1, NoRoomProperties DEF Exists
  <2>2. CASE Exists(q)
    BY <1>4, <2>2 DEF IInv, PinValid
  <2>3. CASE Exists(q)' /\ ~Exists(q)
    BY <1>3, <1>4, <2>3, NewRoomSound DEF Sound
  <2> QED BY <2>1, <2>2, <2>3
<1> QED BY <1>1, <1>5, <1>6, <1>7, <1>8, <1>9, AccountsFrame DEF IInv

\* Every account an entry points to is out of the room before the room goes.
LEMMA CloseIInv ==
  ASSUME NEW fd \in Fd, NEW r \in RoomNumber
  PROVE  IInv /\ handle_close_chat_room(fd, r) => IInv'
<1> SUFFICES ASSUME IInv, handle_close_chat_room(fd, r) PROVE IInv'
  OBVIOUS
<1>1. /\ room_number' = [i \in Slot |->
           IF \E g \in Occupants(r) : User(g) = i THEN InNoRoom ELSE room_number[i]]
      /\ chat_rooms' = [chat_rooms EXCEPT ![r] = NoRoom]
      /\ UNCHANGED <<up, open, reset, connections_map, users, total_user, username,
                     password, state, show_state, presented>>
  BY DEF handle_close_chat_room, users
<1>2. ScreensOK'
  BY BlankType, Bounds DEF handle_close_chat_room
<1>3. /\ \A q \in RoomNumber : q # r => chat_rooms'[q] = chat_rooms[q]
      /\ chat_rooms'[r] = NoRoom
      /\ chat_rooms' \in [RoomNumber -> Room \union {NoRoom}]
  BY <1>1, Bounds DEF TypeOK
<1>4. room_number' \in [Slot -> -1..MaxRoom]
  BY <1>1, Bounds DEF TypeOK
<1>5. TypeOK'
  BY <1>1, <1>2, <1>3, <1>4, Bounds DEF TypeOK, ScreensOK
<1>6. GuestUntouched' /\ ShownAsTheyAre'
  BY <1>1, Bounds DEF IInv, GuestUntouched, ShownAsTheyAre
<1>7. EntriesUsable'
  <2> SUFFICES ASSUME NEW g \in Fd, Mapped(g), room_number'[User(g)] # InNoRoom
               PROVE  /\ state[User(g)] = 1
                      /\ room_number'[User(g)] \in RoomNumber
                      /\ chat_rooms'[room_number'[User(g)]] # NoRoom
    BY <1>1 DEF EntriesUsable, Exists, IInv
  <2>1. room_number'[User(g)] = room_number[User(g)] /\ g \notin Occupants(r)
    BY <1>1, UserFacts
  <2>2. room_number[User(g)] # r
    BY <2>1 DEF Occupants
  <2> QED BY <1>3, <2>1, <2>2 DEF IInv, EntriesUsable, Exists
<1>8. OwnersRegistered'
  BY <1>1, <1>3 DEF IInv, OwnersRegistered, Exists
<1>9. PinValid'
  BY <1>3, NoRoomProperties DEF IInv, PinValid
<1> QED BY <1>1, <1>5, <1>6, <1>7, <1>8, <1>9, AccountsFrame DEF IInv

LEMMA ExitRoomIInv == ASSUME NEW fd \in Fd PROVE IInv /\ exit_chat_room(fd) => IInv'
<1> SUFFICES ASSUME IInv, exit_chat_room(fd) PROVE IInv'
  OBVIOUS
<1> DEFINE u == User(fd)
<1>1. /\ room_number' = [room_number EXCEPT ![u] = InNoRoom]
      /\ UNCHANGED <<up, open, reset, connections_map, users, total_user, username,
                     password, state, show_state, chat_rooms, presented>>
      /\ Mapped(fd)
  BY DEF exit_chat_room, InRoom, users
<1>2. u \in Slot
  BY <1>1, UserFacts
<1> HIDE DEF u
<1>3. ScreensOK'
  BY BlankType, Bounds DEF exit_chat_room
<1>4. TypeOK'
  BY <1>1, <1>2, <1>3, Bounds DEF TypeOK, ScreensOK
<1>5. GuestUntouched' /\ ShownAsTheyAre'
  BY <1>1, <1>2, Bounds DEF IInv, GuestUntouched, ShownAsTheyAre, TypeOK
<1>6. EntriesUsable'
  <2> SUFFICES ASSUME NEW g \in Fd, Mapped(g) PROVE Usable(g)'
    BY <1>1 DEF EntriesUsable
  <2>1. User(g) \in Slot
    BY UserFacts
  <2> QED BY <1>1, <1>2, <2>1, Bounds DEF IInv, EntriesUsable, Exists, TypeOK
<1> QED BY <1>1, <1>4, <1>5, <1>6, AccountsFrame, RoomsFrame DEF IInv

-----------------------------------------------------------------------------
\* Every event of the server keeps the invariant.
LEMMA NextIInv == IInv /\ [Next]_vars => IInv'
<1> SUFFICES ASSUME IInv, [Next]_vars PROVE IInv'
  OBVIOUS
<1>1. CASE Connection
  BY <1>1, AcceptIInv, AcceptFailsIInv, EofIInv, ResetIInv DEF Connection
<1>2. ASSUME NEW fd \in Fd, Session(fd) PROVE IInv'
  BY <1>2, RegisterIInv, LoginIInv, LogoutIInv, ExitIInv, SetStatusIInv DEF Session
<1>3. ASSUME NEW fd \in Fd, Chat(fd) PROVE IInv'
  BY <1>3, EnterIInv, CloseIInv, ExitRoomIInv, PinIInv, DeletePinIInv, MessageIInv
     DEF Chat
<1>4. CASE UNCHANGED vars
  BY <1>4 DEF vars, users, sessions, screens, IInv, TypeOK, GuestUntouched,
     EntriesUsable, OpenMapped, AccountsDistinct, SessionPresentedPassword,
     ShownAsTheyAre, OwnersRegistered, PinValid, Exists
<1> QED BY <1>1, <1>2, <1>3, <1>4 DEF Next

\* The inductive invariant holds in every reachable state.
THEOREM Invariance == Spec => []IInv
BY InitIInv, NextIInv, PTL DEF Spec

\* Every variable keeps its type; the histories and pins of the rooms with it.
THEOREM TypeCorrect == Spec => []TypeOK
<1>1. IInv => TypeOK
  BY DEF IInv
<1> QED BY <1>1, Invariance, PTL

\* The entry of an open connection can always be followed, and a connection is
\* treated as in a room only if its account is logged in and the room exists.
THEOREM EntriesAlwaysSound == Spec => []EntriesSound
<1>1. IInv => EntriesSound
  BY Bounds DEF IInv, TypeOK, OpenMapped, EntriesUsable, EntriesSound, LoggedIn
<1> QED BY <1>1, Invariance, PTL

\* No connection ever acts for an account whose password its client has not sent.
THEOREM OnlyWithPassword == Spec => []SessionPresentedPassword
<1>1. IInv => SessionPresentedPassword
  BY DEF IInv
<1> QED BY <1>1, Invariance, PTL

\* Nobody who is not logged in is shown online or busy.
THEOREM ListIsHonest == Spec => []ListedOnlineIsLoggedIn
<1>1. IInv => ListedOnlineIsLoggedIn
  <2> SUFFICES ASSUME IInv, NEW i \in 1..total_user, show_state[i] # "offline"
               PROVE  state[i] = 1
    BY DEF ListedOnlineIsLoggedIn, handle_list_user
  <2>1. i \in Slot
    BY Bounds
  <2> QED BY <2>1, Bounds DEF IInv, ShownAsTheyAre, TypeOK
<1> QED BY <1>1, Invariance, PTL

\* A room has exactly one account that may close it.
THEOREM RoomHasOneOwner == Spec => []OneOwner
<1>1. IInv => OneOwner
  <2> SUFFICES ASSUME IInv, NEW r \in RoomNumber, Exists(r)
               PROVE  Cardinality({i \in 1..total_user :
                                     username[i] = chat_rooms[r].creator}) = 1
    BY DEF OneOwner, list_chat_rooms
  <2>1. PICK j \in 1..total_user : username[j] = chat_rooms[r].creator
    BY DEF IInv, OwnersRegistered
  <2>2. {i \in 1..total_user : username[i] = chat_rooms[r].creator} = {j}
    BY <2>1 DEF IInv, AccountsDistinct
  <2> QED BY <2>2, FS_Singleton
<1> QED BY <1>1, Invariance, PTL

\* pin is always the index of the one pinned record, or says there is none.
THEOREM PinsAlwaysValid == Spec => []PinValid
<1>1. IInv => PinValid
  BY DEF IInv
<1> QED BY <1>1, Invariance, PTL

-----------------------------------------------------------------------------
\* A logged-in account never goes from one room straight to another.
THEOREM RoomsAreLeftFirst == Spec => NoRoomHop
<1> DEFINE Kept == \A i \in 1..total_user :
             state[i] = 1 /\ room_number[i] # InNoRoom =>
               room_number'[i] \in {room_number[i], InNoRoom}
<1>1. IInv /\ [Next]_vars => [Kept]_vars
  <2> SUFFICES ASSUME IInv, Next, NEW i \in 1..total_user, state[i] = 1,
                      room_number[i] # InNoRoom
               PROVE  room_number'[i] \in {room_number[i], InNoRoom}
    OBVIOUS
  <2>1. i \in Slot /\ i # total_user + 1 /\ room_number \in [Slot -> -1..MaxRoom]
    BY Bounds DEF TypeOK
  <2>2. CASE Connection
    BY <2>1, <2>2 DEF Connection, Accept, AcceptFails, Eof, Reset, sessions
  <2>3. ASSUME NEW fd \in Fd, Session(fd)
        PROVE  room_number'[i] \in {room_number[i], InNoRoom}
    BY <2>1, <2>3 DEF Session, handle_register, handle_login, handle_logout,
       handle_exit, handle_set_status
  <2>4. ASSUME NEW fd \in Fd, NEW r \in RoomNumber, handle_enter_chat_room(fd, r)
        PROVE  room_number'[i] = room_number[i]
    BY <2>1, <2>4 DEF handle_enter_chat_room, AtPrompt
  <2>5. ASSUME NEW fd \in Fd, NEW r \in RoomNumber, handle_close_chat_room(fd, r)
        PROVE  room_number'[i] \in {room_number[i], InNoRoom}
    BY <2>1, <2>5 DEF handle_close_chat_room
  <2>6. ASSUME NEW fd \in Fd,
               exit_chat_room(fd) \/ pin(fd) \/ delete_pin(fd) \/ handle_chat_message(fd)
        PROVE  room_number'[i] \in {room_number[i], InNoRoom}
    BY <2>1, <2>6 DEF exit_chat_room, pin, delete_pin, handle_chat_message, sessions
  <2> QED BY <2>2, <2>3, <2>4, <2>5, <2>6 DEF Next, Chat
<1> QED BY <1>1, Invariance, PTL DEF Spec, NoRoomHop

-----------------------------------------------------------------------------
\* The rooms as boards: what each operation on a room does to the board it shows.

LEMMA AuthorsAppend ==
  ASSUME NEW names, NEW s \in Seq(RecordsBy(names)), NEW e \in RecordsBy(names)
  PROVE  /\ Authors(s) \in Seq(names) /\ Len(Authors(s)) = Len(s)
         /\ Authors(Append(s, e)) = Append(Authors(s), e.by)
<1> DEFINE S == RecordsBy(names)
           a == Append(s, e)
           w == Append(Authors(s), e.by)
<1>1. \A t \in Seq(S) : /\ Authors(t) \in Seq(names) /\ Len(Authors(t)) = Len(t)
                        /\ \A i \in 1..Len(t) : Authors(t)[i] = t[i].by
  <2> SUFFICES ASSUME NEW t \in Seq(S)
               PROVE  /\ Authors(t) \in Seq(names) /\ Len(Authors(t)) = Len(t)
                      /\ \A i \in 1..Len(t) : Authors(t)[i] = t[i].by
    OBVIOUS
  <2>1. Len(t) \in Nat /\ \A i \in 1..Len(t) : t[i] \in S
    BY LenProperties, ElementOfSeq
  <2>2. Authors(t) \in [1..Len(t) -> names]
    BY <2>1 DEF Authors, RecordsBy
  <2>3. Authors(t) \in Seq(names)
    BY <2>1, <2>2, SeqDef
  <2>4. Len(Authors(t)) = Len(t)
    BY <2>1, <2>2, <2>3, LenProperties
  <2> QED BY <2>3, <2>4 DEF Authors
<1>2. /\ a \in Seq(S) /\ Len(a) = Len(s) + 1 /\ Len(s) \in Nat
      /\ \A i \in 1..Len(s) : a[i] = s[i]
      /\ a[Len(s) + 1] = e
  BY PushProperties, LenProperties
<1>3. e.by \in names
  BY DEF RecordsBy
<1>4. /\ w \in Seq(names) /\ Len(w) = Len(s) + 1
      /\ \A i \in 1..Len(s) : w[i] = Authors(s)[i]
      /\ w[Len(s) + 1] = e.by
  BY <1>1, <1>3, PushProperties
<1> HIDE DEF a, w
<1>5. \A i \in 1..Len(a) : Authors(a)[i] = w[i]
  <2> SUFFICES ASSUME NEW i \in 1..Len(a) PROVE Authors(a)[i] = w[i]
    OBVIOUS
  <2>1. CASE i \in 1..Len(s)
    BY <1>1, <1>2, <1>4, <2>1
  <2>2. CASE i = Len(s) + 1
    BY <1>1, <1>2, <1>4, <2>2
  <2> QED BY <1>2, <2>1, <2>2
<1>6. Authors(a) = w
  BY <1>1, <1>2, <1>4, <1>5, SeqEqual
<1> QED BY <1>1, <1>6 DEF a, w

-----------------------------------------------------------------------------
\* A room that does not exist shows no board, a new one an empty board.
LEMMA NoBoardShown == BoardOf(NoRoom) = Boards!NoBoard
<1>1. NoRoom.pin = NoPin /\ NoRoom.history = <<>> /\ Len(<<>>) = 0
  BY EmptySeq DEF NoRoom
<1>2. Authors(<<>>) = <<>>
  BY <1>1 DEF Authors
<1> QED BY <1>1, <1>2 DEF BoardOf, Unpinned, Boards!NoBoard, Boards!Nothing

LEMMA NewBoardShown ==
  ASSUME NEW by \in Names PROVE BoardOf(new_room(by)) = Boards!Empty
<1>1. /\ new_room(by).pin = NoPin /\ new_room(by).history = <<>> /\ Len(<<>>) = 0
      /\ new_room(by) # NoRoom
  BY EmptySeq, NamesAssumption DEF new_room, NoRoom, NoName
<1>2. Authors(<<>>) = <<>>
  BY <1>1 DEF Authors
<1>3. BoardOf(new_room(by)) = [exists |-> TRUE, chats |-> <<>>, pinned |-> Boards!Nothing]
  BY <1>1, <1>2 DEF BoardOf, Unpinned, Boards!Nothing
<1>4. Boards!Empty = [exists |-> TRUE, chats |-> <<>>, pinned |-> Boards!Nothing]
  <2>1. PICK no, yes : no = FALSE /\ yes = TRUE
    OBVIOUS
  <2>2. PICK board : board = [exists |-> no, chats |-> <<>>, pinned |-> Boards!Nothing]
    OBVIOUS
  <2>3. board = Boards!NoBoard
    BY <2>1, <2>2, Zenon DEF Boards!NoBoard
  <2>4. [board EXCEPT !.exists = yes] = [exists |-> yes, chats |-> <<>>, pinned |-> Boards!Nothing]
    BY <2>2
  <2> QED BY <2>1, <2>3, <2>4, Zenon DEF Boards!Empty
<1> QED BY <1>3, <1>4

\* The board of a room that exists, field by field.
LEMMA BoardFields ==
  ASSUME NEW room, Sound(room, Names)
  PROVE  /\ BoardOf(room).chats = Authors(Unpinned(room))
         /\ BoardOf(room).pinned =
              IF room.pin = NoPin THEN [by |-> "nobody", after |-> -1]
              ELSE [by |-> room.history[room.pin + 1].by, after |-> room.pin]
BY DEF BoardOf

LEMMA BoardExists ==
  ASSUME NEW room, Sound(room, Names)
  PROVE  BoardOf(room).exists = TRUE
BY NoRoomProperties, Zenon DEF Sound, Room, BoardOf

LEMMA BoardShape ==
  ASSUME NEW room
  PROVE  BoardOf(room) = [exists |-> BoardOf(room).exists, chats |-> BoardOf(room).chats,
                          pinned |-> BoardOf(room).pinned]
BY DEF BoardOf

\* Two boards that differ in one field.
LEMMA OtherField ==
  ASSUME NEW old, NEW new, Sound(old, Names), Sound(new, Names)
  PROVE  /\ BoardOf(new).pinned = BoardOf(old).pinned =>
              BoardOf(new) = [BoardOf(old) EXCEPT !.chats = BoardOf(new).chats]
         /\ BoardOf(new).chats = BoardOf(old).chats =>
              BoardOf(new) = [BoardOf(old) EXCEPT !.pinned = BoardOf(new).pinned]
<1>1. PICK e, c, p : BoardOf(old) = [exists |-> e, chats |-> c, pinned |-> p]
  BY BoardShape
<1>2. PICK f, d, q : BoardOf(new) = [exists |-> f, chats |-> d, pinned |-> q]
  BY BoardShape
<1>3. BoardOf(old).exists = BoardOf(new).exists
  BY BoardExists, Zenon
<1>4. e = f
  BY <1>1, <1>2, <1>3
<1>5. [BoardOf(old) EXCEPT !.chats = d] = [exists |-> e, chats |-> d, pinned |-> p]
  BY <1>1
<1>6. [BoardOf(old) EXCEPT !.pinned = q] = [exists |-> e, chats |-> c, pinned |-> q]
  BY <1>1
<1>7. BoardOf(new).chats = d /\ BoardOf(new).pinned = q /\ BoardOf(old).chats = c /\ BoardOf(old).pinned = p
  BY <1>1, <1>2
<1> QED BY <1>2, <1>4, <1>5, <1>6, <1>7

\* The messages of a room, its history without the pinned record: one posted joins
\* them at the end, and neither a pin nor an unpin changes them.
LEMMA PostUnpinned ==
  ASSUME NEW room, Sound(room, Names), NEW by \in Names
  PROVE  Unpinned(PushChat(room, by)) = Append(Unpinned(room), ChatRecord(by))
<1> DEFINE h   == room.history
           e   == ChatRecord(by)
           new == PushChat(room, by)
<1>1. /\ h \in Seq(RecordsBy(Names)) /\ room.pin \in Nat \union {-1}
      /\ room.pin + 1 \in 0..Len(h)
  BY DEF Sound, RoomsOf, NoPin, PinPointsAtIt
<1>2. e \in RecordsBy(Names)
  BY DEF RecordsBy, ChatRecord
<1>3. new.history = Append(h, e) /\ new.pin = room.pin
  BY DEF PushChat, Sound, RoomsOf
<1>4. CASE room.pin = NoPin
  BY <1>3, <1>4 DEF Unpinned
<1>5. CASE room.pin # NoPin
  <2>1. room.pin + 1 \in 1..Len(h)
    BY <1>1, <1>5, LenProperties DEF NoPin
  <2>2. RemoveAt(Append(h, e), room.pin + 1) = Append(RemoveAt(h, room.pin + 1), e)
    BY <1>1, <1>2, <2>1, RemoveThenAppend
  <2> QED BY <1>3, <1>5, <2>2 DEF Unpinned, EraseRecord
<1> QED BY <1>4, <1>5

LEMMA PinUnpinned ==
  ASSUME NEW room, Sound(room, Names), NEW by \in Names
  PROVE  Unpinned(SetPin(room, by)) = Unpinned(room)
<1> DEFINE u   == Unpinned(room)
           e   == PinRecord(by)
           new == SetPin(room, by)
<1>1. u \in Seq(RecordsBy(Names)) /\ Len(u) \in Nat /\ e \in RecordsBy(Names)
  BY UnpinnedProperties DEF RecordsBy, PinRecord
<1>2. new.history = Append(u, e) /\ new.pin = Len(u)
  BY DEF SetPin, Sound, RoomsOf
<1>3. new.pin # NoPin
  BY <1>1, <1>2 DEF NoPin
<1>4. RemoveAt(Append(u, e), Len(u) + 1) = u
  BY <1>1, AppendThenRemove
<1> QED BY <1>2, <1>3, <1>4 DEF Unpinned, EraseRecord

LEMMA UnpinUnpinned ==
  ASSUME NEW room, Sound(room, Names)
  PROVE  Unpinned(ClearPin(room)) = Unpinned(room)
<1>1. ClearPin(room).history = Unpinned(room) /\ ClearPin(room).pin = NoPin
  BY DEF ClearPin, Sound, RoomsOf
<1> QED BY <1>1 DEF Unpinned

\* A message is posted after those that are there, whatever is pinned.
LEMMA PostShown ==
  ASSUME NEW room, Sound(room, Names), NEW by \in Names
  PROVE  BoardOf(PushChat(room, by)) =
           [BoardOf(room) EXCEPT !.chats = Append(BoardOf(room).chats, by)]
<1> DEFINE S   == RecordsBy(Names)
           h   == room.history
           e   == ChatRecord(by)
           new == PushChat(room, by)
<1>1. /\ h \in Seq(S) /\ Len(h) \in Nat /\ room.pin \in Nat \union {-1}
      /\ room.pin + 1 \in 0..Len(h)
  BY LenProperties DEF Sound, RoomsOf, NoPin, PinPointsAtIt
<1>2. e \in S /\ e.by = by
  BY DEF RecordsBy, ChatRecord
<1>3. new.history = Append(h, e) /\ new.pin = room.pin /\ Sound(new, Names)
  BY PushChatSound DEF PushChat, Sound, RoomsOf
<1>4. Unpinned(new) = Append(Unpinned(room), e)
  BY PostUnpinned
<1>5. Authors(Unpinned(new)) = Append(Authors(Unpinned(room)), by)
  BY <1>2, <1>4, UnpinnedProperties, AuthorsAppend
<1>6. new.pin # NoPin => new.history[new.pin + 1] = h[room.pin + 1]
  <2>1. room.pin # NoPin => room.pin + 1 \in 1..Len(h)
    BY <1>1 DEF NoPin
  <2> QED BY <1>1, <1>2, <1>3, <2>1, PushProperties
<1> HIDE DEF new, e, h
<1>7. BoardOf(new).pinned = BoardOf(room).pinned
  BY <1>3, <1>6, BoardFields DEF h
<1>8. BoardOf(new).chats = Append(BoardOf(room).chats, by)
  BY <1>3, <1>5, BoardFields
<1> QED BY <1>3, <1>7, <1>8, OtherField DEF new

\* The new pinned record stands after all the messages, which are left as they are.
LEMMA PinShown ==
  ASSUME NEW room, Sound(room, Names), NEW by \in Names
  PROVE  BoardOf(SetPin(room, by)) =
           [BoardOf(room) EXCEPT !.pinned = [by |-> by, after |-> Len(BoardOf(room).chats)]]
<1> DEFINE S   == RecordsBy(Names)
           u   == Unpinned(room)
           e   == PinRecord(by)
           new == SetPin(room, by)
<1>1. u \in Seq(S) /\ Len(u) \in Nat
  BY UnpinnedProperties
<1>2. e \in S /\ e.by = by
  BY DEF RecordsBy, PinRecord
<1>3. new.history = Append(u, e) /\ new.pin = Len(u) /\ Sound(new, Names)
  BY SetPinSound DEF SetPin, Sound, RoomsOf
<1>4. Len(Authors(u)) = Len(u)
  BY <1>1, <1>2, AuthorsAppend
<1>5. new.history[new.pin + 1] = e
  BY <1>1, <1>2, <1>3, PushProperties
<1>6. new.pin # NoPin
  BY <1>1, <1>3 DEF NoPin
<1>7. Unpinned(new) = u
  BY PinUnpinned
<1>8. BoardOf(room).chats = Authors(u)
  BY BoardFields
<1> HIDE DEF new, e, u
<1>9. BoardOf(new).chats = BoardOf(room).chats
  BY <1>3, <1>7, <1>8, BoardFields
<1>10. BoardOf(new).pinned = [by |-> by, after |-> Len(BoardOf(room).chats)]
  BY <1>2, <1>3, <1>4, <1>5, <1>6, <1>8, BoardFields
<1> QED BY <1>3, <1>9, <1>10, OtherField DEF new

LEMMA UnpinShown ==
  ASSUME NEW room, Sound(room, Names)
  PROVE  BoardOf(ClearPin(room)) = [BoardOf(room) EXCEPT !.pinned = Boards!Nothing]
<1> DEFINE new == ClearPin(room)
<1>1. new.history = Unpinned(room) /\ new.pin = NoPin /\ Sound(new, Names)
  BY ClearPinSound DEF ClearPin, Sound, RoomsOf
<1>2. Unpinned(new) = Unpinned(room)
  BY UnpinUnpinned
<1> HIDE DEF new
<1>3. BoardOf(new).chats = BoardOf(room).chats
  BY <1>1, <1>2, BoardFields
<1>4. BoardOf(new).pinned = Boards!Nothing
  BY <1>1, BoardFields DEF Boards!Nothing
<1> QED BY <1>1, <1>3, <1>4, OtherField DEF new

-----------------------------------------------------------------------------
\* The rooms implement the boards, step by step.

Shown == [r \in RoomNumber |-> BoardOf(chat_rooms[r])]

\* One room is rewritten, the others are as they were.
LEMMA OneRoom ==
  ASSUME IInv, NEW r \in RoomNumber, NEW room,
         chat_rooms' = [chat_rooms EXCEPT ![r] = room]
  PROVE  Shown' = [Shown EXCEPT ![r] = BoardOf(room)] /\ Shown[r] = BoardOf(chat_rooms[r])
<1>1. chat_rooms'[r] = room /\ \A q \in RoomNumber : q # r => chat_rooms'[q] = chat_rooms[q]
  BY Bounds DEF TypeOK
<1>2. Shown' = [q \in RoomNumber |-> BoardOf(chat_rooms'[q])]
  BY DEF Shown
<1>3. DOMAIN Shown = RoomNumber /\ \A q \in RoomNumber : Shown[q] = BoardOf(chat_rooms[q])
  BY DEF Shown
<1>4. [Shown EXCEPT ![r] = BoardOf(room)] =
        [q \in RoomNumber |-> IF q = r THEN BoardOf(room) ELSE BoardOf(chat_rooms[q])]
  BY <1>3
<1>5. \A q \in RoomNumber :
        BoardOf(chat_rooms'[q]) = IF q = r THEN BoardOf(room) ELSE BoardOf(chat_rooms[q])
  BY <1>1
<1> QED BY <1>2, <1>3, <1>4, <1>5

LEMMA PostStep ==
  ASSUME IInv, NEW r \in RoomNumber, NEW by \in Names, Sound(chat_rooms[r], Names),
         chat_rooms' = [chat_rooms EXCEPT ![r] = PushChat(chat_rooms[r], by)]
  PROVE  Boards!Post(r, by)
<1>1. PICK old : old = Shown
  OBVIOUS
<1>2. PICK board : board = BoardOf(PushChat(chat_rooms[r], by))
  OBVIOUS
<1>3. Shown' = [old EXCEPT ![r] = board] /\ old[r] = BoardOf(chat_rooms[r])
  BY <1>1, <1>2, OneRoom
<1>4. board = [old[r] EXCEPT !.chats = Append(old[r].chats, by)]
  BY <1>2, <1>3, PostShown
<1>5. [old EXCEPT ![r].chats = Append(@, by)] = [old EXCEPT ![r] = board]
  BY <1>4
<1>6. Shown' = [old EXCEPT ![r].chats = Append(@, by)]
  BY <1>3, <1>5
<1>7. old[r].exists
  BY <1>3, BoardExists, Zenon
<1> QED BY <1>1, <1>6, <1>7 DEF Boards!Post, Shown

LEMMA PinStep ==
  ASSUME IInv, NEW r \in RoomNumber, NEW by \in Names, Sound(chat_rooms[r], Names),
         chat_rooms' = [chat_rooms EXCEPT ![r] = SetPin(chat_rooms[r], by)]
  PROVE  Boards!Pin(r, by)
<1>1. PICK old : old = Shown
  OBVIOUS
<1>2. PICK board : board = BoardOf(SetPin(chat_rooms[r], by))
  OBVIOUS
<1>3. Shown' = [old EXCEPT ![r] = board] /\ old[r] = BoardOf(chat_rooms[r])
  BY <1>1, <1>2, OneRoom
<1>4. board = [old[r] EXCEPT !.pinned = [by |-> by, after |-> Len(old[r].chats)]]
  BY <1>2, <1>3, PinShown
<1>5. [old EXCEPT ![r].pinned = [by |-> by, after |-> Len(old[r].chats)]] = [old EXCEPT ![r] = board]
  BY <1>4
<1>6. Shown' = [old EXCEPT ![r].pinned = [by |-> by, after |-> Len(old[r].chats)]]
  BY <1>3, <1>5
<1>7. old[r].exists
  BY <1>3, BoardExists, Zenon
<1> QED BY <1>1, <1>6, <1>7 DEF Boards!Pin, Shown

LEMMA UnpinStep ==
  ASSUME IInv, NEW r \in RoomNumber, Sound(chat_rooms[r], Names),
         chat_rooms' = [chat_rooms EXCEPT ![r] = ClearPin(chat_rooms[r])]
  PROVE  Boards!Unpin(r)
<1>1. PICK old : old = Shown
  OBVIOUS
<1>2. PICK board : board = BoardOf(ClearPin(chat_rooms[r]))
  OBVIOUS
<1>3. Shown' = [old EXCEPT ![r] = board] /\ old[r] = BoardOf(chat_rooms[r])
  BY <1>1, <1>2, OneRoom
<1>4. board = [old[r] EXCEPT !.pinned = Boards!Nothing]
  BY <1>2, <1>3, UnpinShown
<1>5. [old EXCEPT ![r].pinned = Boards!Nothing] = [old EXCEPT ![r] = board]
  BY <1>4
<1>6. Shown' = [old EXCEPT ![r].pinned = Boards!Nothing]
  BY <1>3, <1>5
<1>7. old[r].exists
  BY <1>3, BoardExists, Zenon
<1> QED BY <1>1, <1>6, <1>7 DEF Boards!Unpin, Shown

LEMMA CreateStep ==
  ASSUME IInv, NEW r \in RoomNumber, NEW by \in Names, ~Exists(r),
         chat_rooms' = [chat_rooms EXCEPT ![r] = new_room(by)]
  PROVE  Boards!Create(r)
<1>1. Shown' = [Shown EXCEPT ![r] = Boards!Empty] /\ Shown[r] = Boards!NoBoard
  BY OneRoom, NewBoardShown, NoBoardShown DEF Exists
<1>2. ~Shown[r].exists
  <2>1. Boards!NoBoard.exists = FALSE
    BY Zenon DEF Boards!NoBoard
  <2>2. Shown[r].exists = FALSE
    BY <1>1, <2>1
  <2> QED BY <2>2
<1> QED BY <1>1, <1>2 DEF Boards!Create, Shown

LEMMA CloseStep ==
  ASSUME IInv, NEW r \in RoomNumber, Exists(r),
         chat_rooms' = [chat_rooms EXCEPT ![r] = NoRoom]
  PROVE  Boards!Close(r)
<1>1. Shown' = [Shown EXCEPT ![r] = Boards!NoBoard] /\ Shown[r] = BoardOf(chat_rooms[r])
  BY OneRoom, NoBoardShown
<1>2. Shown[r].exists
  <2>1. chat_rooms[r] # NoRoom
    BY DEF Exists
  <2>2. BoardOf(chat_rooms[r]).exists = TRUE
    BY <2>1, Zenon DEF BoardOf
  <2>3. Shown[r].exists = TRUE
    BY <1>1, <2>2
  <2> QED BY <2>3
<1> QED BY <1>1, <1>2 DEF Boards!Close, Shown

\* An event of the server is one step of one board, or of none.
LEMMA BoardsNext == IInv /\ [Next]_vars => [Boards!Next]_Shown
<1> SUFFICES ASSUME IInv, Next, chat_rooms' # chat_rooms PROVE Boards!Next
  BY DEF vars, Shown
<1>1. ASSUME NEW fd \in Fd, InRoom(fd)
      PROVE  /\ username[User(fd)] \in Names /\ room_number[User(fd)] \in RoomNumber
             /\ Exists(room_number[User(fd)]) /\ Sound(chat_rooms[room_number[User(fd)]], Names)
  BY <1>1, RoomFacts DEF InRoom
<1>2. ASSUME NEW fd \in Fd, InRoom(fd), Posts(fd) PROVE Boards!Next
  <2>1. PICK r, by : r = room_number[User(fd)] /\ by = username[User(fd)]
    OBVIOUS
  <2>2. chat_rooms' = [chat_rooms EXCEPT ![r] = PushChat(chat_rooms[r], by)]
    BY <1>1, <1>2, <2>1 DEF Posts
  <2>3. Boards!Post(r, by) /\ r \in RoomNumber /\ by \in Names
    BY <1>1, <1>2, <2>1, <2>2, PostStep
  <2> QED BY <2>3 DEF Boards!Next
<1>3. ASSUME NEW fd \in Fd, pin(fd) PROVE Boards!Next
  <2>1. PICK r, by : r = room_number[User(fd)] /\ by = username[User(fd)]
    OBVIOUS
  <2>2. InRoom(fd) /\ chat_rooms' = [chat_rooms EXCEPT ![r] = SetPin(chat_rooms[r], by)]
    BY <1>3, <2>1 DEF pin
  <2>3. Boards!Pin(r, by) /\ r \in RoomNumber /\ by \in Names
    BY <1>1, <2>1, <2>2, PinStep
  <2> QED BY <2>3 DEF Boards!Next
<1>4. ASSUME NEW fd \in Fd, delete_pin(fd) PROVE Boards!Next
  <2>1. PICK r : r = room_number[User(fd)]
    OBVIOUS
  <2>2. InRoom(fd) /\ chat_rooms' = [chat_rooms EXCEPT ![r] = ClearPin(chat_rooms[r])]
    BY <1>4, <2>1 DEF delete_pin
  <2>3. Boards!Unpin(r) /\ r \in RoomNumber
    BY <1>1, <2>1, <2>2, UnpinStep
  <2> QED BY <2>3 DEF Boards!Next
<1>5. ASSUME NEW fd \in Fd, NEW r \in RoomNumber, handle_enter_chat_room(fd, r)
      PROVE  Boards!Next
  <2>1. ~Exists(r) /\ chat_rooms' = [chat_rooms EXCEPT ![r] = new_room(username[User(fd)])]
    BY <1>5 DEF handle_enter_chat_room
  <2>2. username[User(fd)] \in Names
    BY <1>5, UserFacts DEF handle_enter_chat_room, LoggedIn, IInv, AccountsDistinct
  <2>3. Boards!Create(r)
    BY <2>1, <2>2, CreateStep
  <2> QED BY <2>3 DEF Boards!Next
<1>6. ASSUME NEW fd \in Fd, NEW r \in RoomNumber, handle_close_chat_room(fd, r)
      PROVE  Boards!Next
  <2>1. Exists(r) /\ chat_rooms' = [chat_rooms EXCEPT ![r] = NoRoom]
    BY <1>6 DEF handle_close_chat_room
  <2>2. Boards!Close(r)
    BY <2>1, CloseStep
  <2> QED BY <2>2 DEF Boards!Next
<1>7. CASE Connection
  BY <1>2, <1>7 DEF Connection, Accept, AcceptFails, Eof, Reset
<1>8. ASSUME NEW fd \in Fd, Session(fd) PROVE FALSE
  BY <1>8 DEF Session, handle_register, handle_login, handle_logout, handle_exit, handle_set_status
<1>9. ASSUME NEW fd \in Fd, Chat(fd) PROVE Boards!Next
  <2>1. CASE exit_chat_room(fd)
    BY <2>1 DEF exit_chat_room
  <2>2. CASE handle_chat_message(fd)
    BY <1>2, <2>2 DEF handle_chat_message
  <2> QED BY <1>3, <1>4, <1>5, <1>6, <1>9, <2>1, <2>2 DEF Chat
<1> QED BY <1>7, <1>8, <1>9 DEF Next

LEMMA BoardsInit == Init => Boards!Init
BY NoBoardShown DEF Init, Boards!Init

\* Every room, whoever uses it and however often it is closed and created again, is
\* a board: messages in the order they were posted, none lost or moved by a pin, and
\* at most one pinned record beside them.
THEOREM RoomsImplementBoards == Spec => RoomsAreBoards
<1>1. IInv /\ [Next]_vars => [Boards!Next]_[r \in RoomNumber |-> BoardOf(chat_rooms[r])]
  BY BoardsNext DEF Shown
<1> QED BY <1>1, BoardsInit, Invariance, PTL DEF Spec, RoomsAreBoards, Boards!Spec

-----------------------------------------------------------------------------
\* What members see: the messages of a room are what Said keeps of its history.

\* The record Said takes out is the pinned one.
LEMMA SaidIsUnpinned ==
  ASSUME NEW authors, NEW room, Sound(room, authors)
  PROVE  Said(room.history) = Unpinned(room)
<1> DEFINE h == room.history
           p == room.pin + 1
<1>1. h \in Seq(RecordsBy(authors)) /\ Len(h) \in Nat /\ DOMAIN h = 1..Len(h)
      /\ room.pin \in Nat \union {-1}
  BY LenProperties DEF Sound, RoomsOf, NoPin
<1>2. p \in 0..Len(h) /\ \A i \in 1..Len(h) : IsPin(h[i]) <=> i = p
  BY DEF Sound, PinPointsAtIt
<1>3. CASE room.pin = NoPin
  <2>1. p \notin 1..Len(h)
    BY <1>3 DEF NoPin
  <2>2. ~ \E i \in DOMAIN h : IsPin(h[i])
    BY <1>1, <1>2, <2>1
  <2> QED BY <1>3, <2>2 DEF Said, Unpinned
<1>4. CASE room.pin # NoPin
  <2>1. p \in 1..Len(h)
    BY <1>1, <1>2, <1>4 DEF NoPin
  <2>2. /\ \E i \in DOMAIN h : IsPin(h[i])
        /\ (CHOOSE i \in DOMAIN h : IsPin(h[i])) = p
    BY <1>1, <1>2, <2>1
  <2> QED BY <1>4, <2>2 DEF Said, Unpinned, EraseRecord
<1> QED BY <1>3, <1>4

\* A broadcast message stays on a screen, a broadcast pinned record does not.
LEMMA SaidOne ==
  ASSUME NEW authors, NEW by \in authors
  PROVE  Said(<<ChatRecord(by)>>) = <<ChatRecord(by)>> /\ Said(<<PinRecord(by)>>) = <<>>
<1> DEFINE S == RecordsBy(authors)
           c == ChatRecord(by)
           p == PinRecord(by)
<1>1. c \in S /\ ~IsPin(c) /\ p \in S /\ IsPin(p)
  BY DEF RecordsBy, ChatRecord, PinRecord, IsPin
<1> HIDE DEF c, p, S
<1>2. Said(<<c>>) = <<c>>
  <2>1. DOMAIN <<c>> = {1} /\ <<c>>[1] = c
    OBVIOUS
  <2> QED BY <1>1, <2>1 DEF Said
<1>3. Said(<<p>>) = <<>>
  <2>1. DOMAIN <<p>> = {1} /\ <<p>>[1] = p
    OBVIOUS
  <2>2. /\ \E i \in DOMAIN <<p>> : IsPin(<<p>>[i])
        /\ (CHOOSE i \in DOMAIN <<p>> : IsPin(<<p>>[i])) = 1
    BY <1>1, <2>1
  <2>3. <<>> \in Seq(S) /\ Len(<<>>) = 0 /\ Append(<<>>, p) = <<p>>
    BY EmptySeq
  <2>4. RemoveAt(<<p>>, 1) = <<>>
    <3>1. RemoveAt(Append(<<>>, p), Len(<<>>) + 1) = <<>>
      BY <1>1, <2>3, AppendThenRemove
    <3>2. Len(<<>>) + 1 = 1
      BY <2>3
    <3> QED BY <2>3, <3>1, <3>2
  <2> QED BY <2>2, <2>4 DEF Said
<1> QED BY <1>2, <1>3 DEF c, p

\* The messages replayed to a newcomer are the latest ones, whether the pinned
\* record is among the records replayed, older than those, or absent.
LEMMA LatestIsSuffix ==
  ASSUME NEW authors, NEW room, Sound(room, authors)
  PROVE  IsSuffix(Said(LatestRecords(room)), Unpinned(room))
<1> DEFINE S     == RecordsBy(authors)
           h     == room.history
           p     == room.pin + 1
           start == IF Len(h) > MaxHistory THEN Len(h) - MaxHistory ELSE 0
           l     == SubSeq(h, start + 1, Len(h))
           u     == Unpinned(room)
           v     == Said(l)
<1>1. h \in Seq(S) /\ Len(h) \in Nat /\ \A j \in 1..Len(h) : h[j] \in S
  BY LenProperties, ElementOfSeq DEF Sound, RoomsOf
<1>2. p \in 0..Len(h) /\ \A i \in 1..Len(h) : IsPin(h[i]) <=> i = p
  BY DEF Sound, PinPointsAtIt
<1>3. start \in 0..Len(h)
  BY <1>1, MaxHistoryAssumption
<1>4. p = 0 <=> room.pin = NoPin
  BY DEF NoPin, Sound, RoomsOf
<1>5. p # 0 => u = RemoveAt(h, p)
  BY <1>4 DEF Unpinned, EraseRecord
<1>6. p = 0 => u = h
  BY <1>4 DEF Unpinned
<1>7. u \in Seq(S) /\ LatestRecords(room) = l
  BY UnpinnedProperties DEF LatestRecords
<1> HIDE DEF start, p, h, u
<1>8. /\ l \in Seq(S) /\ Len(l) = Len(h) - start
      /\ \A i \in 1..Len(l) : l[i] = h[start + i]
  <2>1. \A j \in start+1..Len(h) : h[j] \in S
    BY <1>1, <1>3
  <2>2. /\ l \in Seq(S)
        /\ Len(l) = IF start+1 <= Len(h) THEN Len(h)-(start+1)+1 ELSE 0
        /\ \A j \in 1..Len(h)-(start+1)+1 : l[j] = h[start+1+j-1]
    BY <1>1, <1>3, <2>1, SubSeqProperties
  <2>3. /\ Len(h)-(start+1)+1 = Len(h) - start /\ start \in Nat
        /\ (IF start+1 <= Len(h) THEN Len(h)-(start+1)+1 ELSE 0) = Len(h) - start
    BY <1>1, <1>3
  <2> HIDE DEF l
  <2>4. ASSUME NEW i \in 1..Len(h)-start PROVE l[i] = h[start + i]
    <3>1. i \in 1..Len(h)-(start+1)+1 /\ start+1+i-1 = start + i
      BY <1>1, <1>3
    <3> QED BY <2>2, <3>1
  <2> QED BY <2>2, <2>3, <2>4
<1>9. DOMAIN l = 1..Len(l) /\ Len(l) \in Nat
  BY <1>8, LenProperties
<1> HIDE DEF l
<1>10. \A i \in 1..Len(l) : IsPin(l[i]) <=> start + i = p
  BY <1>1, <1>2, <1>3, <1>8
<1>11. p # 0 => /\ Len(u) = Len(h) - 1
                /\ \A j \in 1..p-1 : u[j] = h[j]
                /\ \A j \in p..Len(h)-1 : u[j] = h[j+1]
  BY <1>1, <1>2, <1>5, RemoveAtProperties
<1>12. CASE p = 0
  <2>1. v = l
    BY <1>3, <1>9, <1>10, <1>12 DEF Said
  <2>2. IsRestOf(l, h, start)
    BY <1>1, <1>3, <1>8 DEF IsRestOf
  <2>3. start \in Nat /\ u = h
    BY <1>3, <1>6, <1>12
  <2>4. IsSuffix(l, h)
    BY <1>1, <1>8, <2>2, <2>3, SuffixIsRest
  <2> QED BY <1>7, <2>1, <2>3, <2>4 DEF u
<1>13. CASE p \in 1..start
  <2>1. v = l
    BY <1>3, <1>9, <1>10, <1>13 DEF Said
  <2>2. start - 1 \in Nat /\ Len(u) = Len(l) + (start - 1)
    BY <1>1, <1>3, <1>8, <1>11, <1>13
  <2>3. ASSUME NEW i \in 1..Len(l) PROVE l[i] = u[(start - 1) + i]
    <3>1. /\ (start - 1) + i \in p..Len(h)-1 /\ ((start - 1) + i) + 1 = start + i
          /\ p # 0
      BY <1>1, <1>3, <1>8, <1>13
    <3>2. PICK j : j = (start - 1) + i
      OBVIOUS
    <3> QED BY <1>8, <1>11, <3>1, <3>2
  <2>4. IsRestOf(l, u, start - 1)
    BY <2>2, <2>3 DEF IsRestOf
  <2>5. IsSuffix(l, u)
    BY <1>7, <1>8, <2>2, <2>4, SuffixIsRest
  <2> QED BY <1>7, <2>1, <2>5 DEF u
<1>14. CASE p > start
  <2>1. PICK k \in 1..Len(l) : start + k = p
    <3>1. p - start \in 1..Len(l) /\ start + (p - start) = p
      BY <1>1, <1>2, <1>3, <1>8, <1>14
    <3> QED BY <3>1
  <2>2. \A i \in 1..Len(l) : IsPin(l[i]) <=> i = k
    BY <1>2, <1>3, <1>9, <1>10, <2>1
  <2>3. v = RemoveAt(l, k)
    <3>1. (\E i \in DOMAIN l : IsPin(l[i])) /\ (CHOOSE i \in DOMAIN l : IsPin(l[i])) = k
      BY <1>9, <2>1, <2>2
    <3> QED BY <3>1 DEF Said
  <2> HIDE DEF v
  <2>4. /\ v \in Seq(S) /\ Len(v) = Len(l) - 1
        /\ \A j \in 1..k-1 : v[j] = l[j]
        /\ \A j \in k..Len(l)-1 : v[j] = l[j+1]
    BY <1>8, <2>1, <2>3, RemoveAtProperties
  <2>5. Len(u) = Len(v) + start /\ p # 0
    BY <1>1, <1>2, <1>3, <1>8, <1>11, <1>14, <2>4
  <2>6. ASSUME NEW i \in 1..Len(v) PROVE v[i] = u[start + i]
    <3>1. PICK j : j = start + i
      OBVIOUS
    <3>2. CASE i < k
      <4>1. i \in 1..k-1 /\ i \in 1..Len(l) /\ j \in 1..p-1
        BY <1>1, <1>2, <1>3, <1>8, <2>1, <2>4, <3>1, <3>2
      <4> QED BY <1>8, <1>11, <2>4, <2>5, <3>1, <4>1
    <3>3. CASE i >= k
      <4>1. PICK m : m = i + 1
        OBVIOUS
      <4>2. /\ i \in k..Len(l)-1 /\ m \in 1..Len(l) /\ j \in p..Len(h)-1
            /\ start + m = j + 1
        BY <1>1, <1>2, <1>3, <1>8, <2>1, <2>4, <3>1, <3>3, <4>1
      <4>3. v[i] = l[m] /\ l[m] = h[start + m] /\ u[j] = h[j+1]
        BY <1>8, <1>11, <2>4, <2>5, <4>1, <4>2
      <4> QED BY <3>1, <4>2, <4>3
    <3> QED BY <2>1, <2>4, <3>2, <3>3
  <2>7. IsRestOf(v, u, start)
    BY <2>5, <2>6 DEF IsRestOf
  <2>8. IsSuffix(v, u)
    BY <1>3, <1>7, <2>4, <2>7, SuffixIsRest
  <2> QED BY <1>7, <2>8 DEF v, u
<1> QED BY <1>1, <1>2, <1>3, <1>7, <1>12, <1>13, <1>14 DEF u

-----------------------------------------------------------------------------
\* v is a run of the room's latest messages.
Fits(v, room) == IsSuffix(v, Said(room.history))

LEMMA FitsUnpinned ==
  ASSUME NEW room, Sound(room, Names)
  PROVE  /\ Unpinned(room) \in Seq(Record)
         /\ \A v : Fits(v, room) <=> IsSuffix(v, Unpinned(room))
<1>1. Said(room.history) = Unpinned(room)
  BY SaidIsUnpinned
<1>2. Unpinned(room) \in Seq(Record)
  BY UnpinnedProperties
<1> QED BY <1>1, <1>2 DEF Fits

LEMMA EmptyFits ==
  ASSUME NEW room, Sound(room, Names) PROVE Fits(<<>>, room)
BY FitsUnpinned, SuffixEmpty

LEMMA LatestFits ==
  ASSUME NEW room, Sound(room, Names) PROVE Fits(Said(LatestRecords(room)), room)
BY FitsUnpinned, LatestIsSuffix

\* A message pushed to the room and broadcast.
LEMMA ChatFits ==
  ASSUME NEW room, Sound(room, Names), NEW by \in Names,
         NEW v \in Seq(Record), Fits(v, room)
  PROVE  Fits(v \o Said(<<ChatRecord(by)>>), PushChat(room, by))
<1> DEFINE e == ChatRecord(by)
<1>1. e \in Record
  BY RecordType
<1>2. v \o Said(<<e>>) = Append(v, e)
  BY <1>1, SaidOne, AppendIsConcat
<1>3. IsSuffix(v, Unpinned(room)) /\ Unpinned(room) \in Seq(Record)
  BY FitsUnpinned
<1>4. IsSuffix(Append(v, e), Append(Unpinned(room), e))
  BY <1>1, <1>3, SuffixAppend
<1>5. Sound(PushChat(room, by), Names) /\ Unpinned(PushChat(room, by)) = Append(Unpinned(room), e)
  BY PushChatSound, PostUnpinned
<1> QED BY <1>2, <1>4, <1>5, FitsUnpinned

\* A pinned record set, moved or erased changes no message.
LEMMA PinFits ==
  ASSUME NEW room, Sound(room, Names), NEW by \in Names,
         NEW v \in Seq(Record), Fits(v, room)
  PROVE  Fits(v \o Said(<<PinRecord(by)>>), SetPin(room, by))
<1>1. v \o Said(<<PinRecord(by)>>) = v
  BY SaidOne, ConcatEmptySeq
<1>2. Sound(SetPin(room, by), Names) /\ Unpinned(SetPin(room, by)) = Unpinned(room)
  BY SetPinSound, PinUnpinned
<1> QED BY <1>1, <1>2, FitsUnpinned

LEMMA UnpinFits ==
  ASSUME NEW room, Sound(room, Names), NEW v, Fits(v, room)
  PROVE  Fits(v, ClearPin(room))
BY ClearPinSound, UnpinUnpinned, FitsUnpinned

-----------------------------------------------------------------------------
\* ViewSuffix, connection by connection.
Screen(fd) ==
  /\ fd \notin reset \union lagging /\ room_number[User(fd)] # InNoRoom =>
       Fits(view[fd], chat_rooms[room_number[User(fd)]])
  /\ room_number[User(fd)] = InNoRoom => view[fd] = <<>>

LEMMA ScreenByScreen == ViewSuffix <=> \A fd \in open : Screen(fd)
BY DEF ViewSuffix, Screen, Fits

\* The screen of a connection whose room the event leaves alone.
LEMMA ScreenKept ==
  ASSUME NEW fd, Screen(fd),
         NEW n, n = room_number[User(fd)], room_number'[User(fd)'] = n,
         n # InNoRoom => chat_rooms'[n] = chat_rooms[n],
         view'[fd] = view[fd],
         fd \in reset \union lagging => fd \in reset' \union lagging'
  PROVE  Screen(fd)'
BY DEF Screen

\* The screen of a connection that has left its room.
LEMMA ScreenBlank ==
  ASSUME NEW fd, room_number'[User(fd)'] = InNoRoom, view'[fd] = <<>>
  PROVE  Screen(fd)'
BY DEF Screen

LEMMA ScreensSuffice ==
  ASSUME \A fd \in open' : Screen(fd)' PROVE ViewSuffix'
<1>1. (ViewSuffix <=> \A fd \in open : Screen(fd))'
  BY ScreenByScreen, PTL
<1> QED BY <1>1

LEMMA OpenScreen ==
  ASSUME IInv, ViewSuffix, NEW fd \in open
  PROVE  Screen(fd) /\ fd \in Fd /\ Mapped(fd)
BY ScreenByScreen DEF IInv, TypeOK, OpenMapped

\* A room is changed by one of its members and what it did is broadcast.
LEMMA BroadcastScreens ==
  ASSUME IInv, ViewSuffix, NEW r \in RoomNumber, NEW record, NEW room,
         UNCHANGED <<open, connections_map, sessions>>, reset \subseteq reset',
         chat_rooms' = [chat_rooms EXCEPT ![r] = room],
         broadcast_room(r, record),
         \A v \in Seq(Record) :
           Fits(v, chat_rooms[r]) => Fits(v \o Said(<<record>>), room)
  PROVE  ViewSuffix'
<1> SUFFICES ASSUME NEW fd \in open PROVE Screen(fd)'
  BY ScreensSuffice
<1>2. Screen(fd) /\ fd \in Fd /\ Mapped(fd)
  BY OpenScreen
<1>3. PICK n : n = room_number[User(fd)]
  OBVIOUS
<1>4. r # InNoRoom
  BY BoundsAssumption
<1>5. /\ room_number'[User(fd)'] = n
      /\ chat_rooms'[r] = room /\ \A q \in RoomNumber : q # r => chat_rooms'[q] = chat_rooms[q]
  <2>1. chat_rooms \in [RoomNumber -> Room \union {NoRoom}]
    BY DEF IInv, TypeOK
  <2>2. connections_map' = connections_map /\ room_number' = room_number
    BY DEF sessions
  <2> QED BY <1>3, <2>1, <2>2
<1>6. n # InNoRoom => n \in RoomNumber /\ LoggedIn(fd)
  BY <1>2, <1>3, RoomFacts DEF LoggedIn
<1>7. PICK lost \in SUBSET (SlowFd \intersect (Members(r) \intersect (open \ reset'))) :
        /\ lagging' = lagging \union lost
        /\ view' = [g \in Fd |->
             IF g \in lost THEN <<>>
             ELSE IF g \in (Members(r) \intersect (open \ reset')) \ lagging
               THEN view[g] \o Said(<<record>>)
             ELSE view[g]]
  BY DEF broadcast_room
<1>8. fd \in Members(r) <=> n = r
  BY <1>2, <1>3, <1>4, <1>6 DEF Members
<1>9. CASE n # r
  <2>1. view'[fd] = view[fd]
    BY <1>2, <1>7, <1>8, <1>9
  <2>2. n # InNoRoom => chat_rooms'[n] = chat_rooms[n]
    BY <1>5, <1>6, <1>9
  <2>3. fd \in reset \union lagging => fd \in reset' \union lagging'
    BY <1>7
  <2> QED BY <1>2, <1>3, <1>5, <2>1, <2>2, <2>3, ScreenKept
<1>10. CASE n = r /\ fd \notin reset' \union lagging'
  <2>1. fd \notin lost /\ fd \notin lagging /\ fd \notin reset
    BY <1>7, <1>10
  <2>2. view'[fd] = view[fd] \o Said(<<record>>)
    BY <1>2, <1>7, <1>8, <1>10, <2>1
  <2>3. PICK v : v = view[fd]
    OBVIOUS
  <2>4. v \in Seq(Record) /\ Fits(v, chat_rooms[r])
    BY <1>2, <1>3, <1>4, <1>10, <2>1, <2>3, Bounds DEF Screen, ScreensOK
  <2>5. Fits(v \o Said(<<record>>), room)
    BY <2>4
  <2> QED BY <1>4, <1>5, <1>10, <2>2, <2>3, <2>5 DEF Screen
<1>11. CASE n = r /\ fd \in reset' \union lagging'
  BY <1>4, <1>5, <1>11 DEF Screen
<1> QED BY <1>9, <1>10, <1>11

-----------------------------------------------------------------------------
LEMMA InitView == Init => ViewSuffix
BY DEF Init, ViewSuffix

\* The new connection starts with nothing on its screen, whatever the connection
\* that had the descriptor before has left.
LEMMA AcceptView == IInv /\ ViewSuffix /\ Accept => ViewSuffix'
<1> SUFFICES ASSUME IInv, ViewSuffix, Accept, NEW g \in open' PROVE Screen(g)'
  BY ScreensSuffice
<1>1. PICK fd \in Fd \ open :
        /\ open' = open \union {fd}
        /\ connections_map' = NewEntry(fd)
        /\ Blank({fd})
  BY DEF Accept
<1>2. /\ room_number' = [room_number EXCEPT ![GuestSlot] = InNoRoom]
      /\ UNCHANGED <<reset, chat_rooms>>
  BY DEF Accept
<1>3. /\ connections_map \in [Fd -> Slot \union {NoEntry}]
      /\ room_number \in [Slot -> -1..MaxRoom] /\ room_number[GuestSlot] = InNoRoom
      /\ GuestSlot \in Slot
  BY Bounds DEF IInv, TypeOK, GuestUntouched
<1>4. CASE g = fd
  <2>1. User(g)' = GuestSlot /\ room_number'[GuestSlot] = InNoRoom
    BY <1>1, <1>2, <1>3, <1>4 DEF NewEntry
  <2>2. view'[g] = <<>>
    BY <1>1, <1>4 DEF Blank
  <2> QED BY <2>1, <2>2, ScreenBlank
<1>5. CASE g # fd
  <2>1. Screen(g) /\ g \in Fd /\ Mapped(g)
    BY <1>1, <1>5, OpenScreen
  <2>2. PICK n : n = room_number[User(g)]
    OBVIOUS
  <2>3. User(g)' = User(g) /\ room_number'[User(g)] = n
    BY <1>1, <1>2, <1>3, <1>5, <2>1, <2>2 DEF NewEntry
  <2>4. /\ view'[g] = view[g] /\ chat_rooms' = chat_rooms
        /\ g \in reset \union lagging => g \in reset' \union lagging'
    BY <1>1, <1>2, <1>5, <2>1 DEF Blank
  <2> QED BY <2>1, <2>2, <2>3, <2>4, ScreenKept
<1> QED BY <1>4, <1>5

LEMMA EofView == ASSUME NEW fd \in Fd PROVE IInv /\ ViewSuffix /\ Eof(fd) => ViewSuffix'
<1> SUFFICES ASSUME IInv, ViewSuffix, Eof(fd), NEW g \in open' PROVE Screen(g)'
  BY ScreensSuffice
<1>1. Screen(g) /\ g \in Fd /\ g # fd
  BY OpenScreen DEF Eof
<1>2. PICK n : n = room_number[User(g)]
  OBVIOUS
<1>3. /\ User(g)' = User(g) /\ room_number'[User(g)] = n /\ chat_rooms' = chat_rooms
  BY <1>2 DEF Eof, sessions
<1>4. view'[g] = view[g] /\ (g \in reset \union lagging => g \in reset' \union lagging')
  BY <1>1 DEF Eof, Blank
<1> QED BY <1>1, <1>2, <1>3, <1>4, ScreenKept

\* An event that takes no connection in or out of a room and is not broadcast.
LEMMA QuietView ==
  ASSUME IInv, ViewSuffix, UNCHANGED <<open, reset, chat_rooms, screens>>,
         \A g \in open : room_number'[User(g)'] = room_number[User(g)]
  PROVE  ViewSuffix'
<1> SUFFICES ASSUME NEW g \in open PROVE Screen(g)'
  BY ScreensSuffice
<1>1. Screen(g)
  BY OpenScreen
<1>2. PICK n : n = room_number[User(g)]
  OBVIOUS
<1>3. room_number'[User(g)'] = n /\ chat_rooms' = chat_rooms /\ view' = view
      /\ reset' = reset /\ lagging' = lagging
  BY <1>2 DEF screens
<1> QED BY <1>1, <1>2, <1>3, ScreenKept

\* The unset room number of a new account is nobody's room: no entry points to it.
LEMMA RegisterView ==
  ASSUME NEW fd \in Fd, NEW name \in Names, NEW pass \in Passwords
  PROVE  IInv /\ ViewSuffix /\ handle_register(fd, name, pass) => ViewSuffix'
<1> SUFFICES ASSUME IInv, ViewSuffix, handle_register(fd, name, pass) PROVE ViewSuffix'
  OBVIOUS
<1>1. UNCHANGED <<open, reset, chat_rooms, screens, connections_map>>
  BY DEF handle_register
<1>2. PICK junk : room_number' = [room_number EXCEPT ![total_user + 1] = junk]
  BY DEF handle_register
<1>3. ASSUME NEW g \in open PROVE User(g) # total_user + 1 /\ User(g) \in Slot
  BY UserFacts, OpenScreen
<1>4. room_number \in [Slot -> -1..MaxRoom]
  BY DEF IInv, TypeOK
<1>5. \A g \in open : room_number'[User(g)'] = room_number[User(g)]
  BY <1>1, <1>2, <1>3, <1>4
<1> QED BY <1>1, <1>5, QuietView

\* An account that is not logged in is in no room, whoever still has its entry.
LEMMA LoginView ==
  ASSUME NEW fd \in Fd, NEW name \in Names, NEW pass \in Passwords
  PROVE  IInv /\ ViewSuffix /\ handle_login(fd, name, pass) => ViewSuffix'
<1> SUFFICES ASSUME IInv, ViewSuffix, handle_login(fd, name, pass) PROVE ViewSuffix'
  OBVIOUS
<1>1. UNCHANGED <<open, reset, chat_rooms, screens>> /\ room_number[User(fd)] = InNoRoom
  BY DEF handle_login, AtPrompt
<1>2. PICK i \in 1..total_user :
        /\ state[i] # 1
        /\ room_number' = [room_number EXCEPT ![i] = InNoRoom]
        /\ connections_map' = [connections_map EXCEPT ![fd] = i]
  BY DEF handle_login
<1>3. /\ room_number \in [Slot -> -1..MaxRoom] /\ i \in Slot
      /\ connections_map \in [Fd -> Slot \union {NoEntry}]
  BY Bounds DEF IInv, TypeOK
<1>4. ASSUME NEW g \in open PROVE room_number'[User(g)'] = room_number[User(g)]
  <2>1. g \in Fd /\ Mapped(g) /\ User(g) \in Slot
    BY UserFacts, OpenScreen
  <2>2. User(g) = i => room_number[User(g)] = InNoRoom
    BY <1>2, <2>1, RoomFacts
  <2> QED BY <1>1, <1>2, <1>3, <2>1, <2>2
<1> QED BY <1>1, <1>4, QuietView

LEMMA LogoutView == ASSUME NEW fd \in Fd PROVE IInv /\ ViewSuffix /\ handle_logout(fd) => ViewSuffix'
<1> SUFFICES ASSUME IInv, ViewSuffix, handle_logout(fd) PROVE ViewSuffix'
  OBVIOUS
<1>1. /\ UNCHANGED <<open, reset, chat_rooms, screens, connections_map>>
      /\ room_number[User(fd)] = InNoRoom
      /\ room_number' = [room_number EXCEPT ![User(fd)] = InNoRoom]
  BY DEF handle_logout, AtPrompt
<1>2. room_number \in [Slot -> -1..MaxRoom]
  BY DEF IInv, TypeOK
<1>3. ASSUME NEW g \in open PROVE User(g) \in Slot
  BY UserFacts, OpenScreen
<1>4. \A g \in open : room_number'[User(g)'] = room_number[User(g)]
  BY <1>1, <1>2, <1>3
<1> QED BY <1>1, <1>4, QuietView

LEMMA SetStatusView ==
  ASSUME NEW fd \in Fd, NEW status
  PROVE  IInv /\ ViewSuffix /\ handle_set_status(fd, status) => ViewSuffix'
BY QuietView DEF handle_set_status

LEMMA ExitView == ASSUME NEW fd \in Fd PROVE IInv /\ ViewSuffix /\ handle_exit(fd) => ViewSuffix'
<1> SUFFICES ASSUME IInv, ViewSuffix, handle_exit(fd), NEW g \in open' PROVE Screen(g)'
  BY ScreensSuffice
<1>1. Screen(g) /\ g \in Fd /\ g # fd
  BY OpenScreen DEF handle_exit
<1>2. PICK n : n = room_number[User(g)]
  OBVIOUS
<1>3. connections_map \in [Fd -> Slot \union {NoEntry}]
  BY DEF IInv, TypeOK
<1>4. User(g)' = User(g) /\ room_number'[User(g)] = n /\ chat_rooms' = chat_rooms
  BY <1>1, <1>2, <1>3 DEF handle_exit
<1>5. view'[g] = view[g] /\ (g \in reset \union lagging => g \in reset' \union lagging')
  BY <1>1 DEF handle_exit, Blank
<1> QED BY <1>1, <1>2, <1>4, <1>5, ScreenKept

\* The connections of the account enter together: the one that asked is shown the
\* latest messages, the others nothing yet.
LEMMA EnterView ==
  ASSUME NEW fd \in Fd, NEW r \in RoomNumber
  PROVE  IInv /\ ViewSuffix /\ handle_enter_chat_room(fd, r) => ViewSuffix'
<1> SUFFICES ASSUME IInv, ViewSuffix, handle_enter_chat_room(fd, r), NEW g \in open
             PROVE  Screen(g)'
  BY ScreensSuffice DEF handle_enter_chat_room
<1>1. /\ room_number[User(fd)] = InNoRoom /\ LoggedIn(fd) /\ Mapped(fd)
      /\ room_number' = [room_number EXCEPT ![User(fd)] = r]
      /\ UNCHANGED <<reset, connections_map>>
      /\ username[User(fd)] \in Names
  BY UserFacts DEF handle_enter_chat_room, AtPrompt, LoggedIn, IInv, AccountsDistinct
<1>2. /\ room_number \in [Slot -> -1..MaxRoom]
      /\ chat_rooms \in [RoomNumber -> Room \union {NoRoom}]
      /\ view \in [Fd -> Seq(Record)]
  BY DEF IInv, TypeOK
<1>3. Screen(g) /\ g \in Fd /\ Mapped(g) /\ User(g) \in Slot
  BY UserFacts, OpenScreen
<1>4. PICK n : n = room_number[User(g)]
  OBVIOUS
<1>5. /\ \A q \in RoomNumber : q # r => chat_rooms'[q] = chat_rooms[q]
      /\ g # fd => view'[g] = view[g]
      /\ g \in reset \union lagging => g \in reset' \union lagging'
      /\ r # InNoRoom
  <2>1. \/ /\ chat_rooms' = [chat_rooms EXCEPT ![r] = new_room(username[User(fd)])]
           /\ view' = view /\ lagging' = lagging
        \/ /\ chat_rooms' = chat_rooms
           /\ \/ /\ view' = [view EXCEPT ![fd] = Said(LatestRecords(chat_rooms[r]))]
                 /\ lagging' = lagging
              \/ view' = view /\ lagging' = lagging \union {fd}
    BY DEF handle_enter_chat_room, screens
  <2>2. \A q \in RoomNumber : q # r => chat_rooms'[q] = chat_rooms[q]
    BY <1>2, <2>1
  <2>3. g # fd => view'[g] = view[g]
    BY <1>2, <1>3, <2>1
  <2>4. g \in reset \union lagging => g \in reset' \union lagging'
    BY <1>1, <2>1
  <2>5. r # InNoRoom
    BY BoundsAssumption
  <2> QED BY <2>2, <2>3, <2>4, <2>5
<1>6. CASE User(g) # User(fd)
  <2>1. room_number'[User(g)'] = n /\ g # fd
    BY <1>1, <1>2, <1>3, <1>4, <1>6
  <2>2. n # InNoRoom => chat_rooms'[n] = chat_rooms[n]
    <3>1. CASE Exists(r)
      BY <3>1 DEF handle_enter_chat_room
    <3>2. CASE ~Exists(r)
      BY <1>3, <1>4, <1>5, <3>2, RoomFacts
    <3> QED BY <3>1, <3>2
  <2> QED BY <1>3, <1>4, <1>5, <2>1, <2>2, ScreenKept
<1>7. CASE User(g) = User(fd)
  <2>1. room_number'[User(g)'] = r /\ view[g] = <<>>
    BY <1>1, <1>2, <1>3, <1>7 DEF Screen
  <2>2. CASE ~Exists(r)
    <3>1. PICK room : room = new_room(username[User(fd)])
      OBVIOUS
    <3>2. chat_rooms'[r] = room /\ view' = view
      BY <1>2, <2>2, <3>1 DEF handle_enter_chat_room, screens
    <3>3. Fits(<<>>, room)
      BY <1>1, <3>1, NewRoomSound, EmptyFits
    <3> QED BY <1>5, <2>1, <3>2, <3>3 DEF Screen
  <2>3. CASE Exists(r)
    <3>1. PICK room : room = chat_rooms[r]
      OBVIOUS
    <3>2. chat_rooms'[r] = room /\ Sound(room, Names)
      BY <1>2, <2>3, <3>1 DEF handle_enter_chat_room, Sound, IInv, PinValid, Exists
    <3>3. Fits(<<>>, room) /\ Fits(Said(LatestRecords(room)), room)
      BY <3>2, EmptyFits, LatestFits
    <3>4. \/ view' = [view EXCEPT ![fd] = Said(LatestRecords(room))]
          \/ fd \in lagging' /\ view' = view
      BY <2>3, <3>1 DEF handle_enter_chat_room
    <3>5. CASE g # fd
      BY <1>5, <2>1, <3>2, <3>3, <3>5 DEF Screen
    <3>6. CASE g = fd /\ view' = [view EXCEPT ![fd] = Said(LatestRecords(room))]
      <4>1. view'[g] = Said(LatestRecords(room))
        BY <1>2, <1>3, <3>6
      <4> QED BY <1>5, <2>1, <3>2, <3>3, <4>1 DEF Screen
    <3>7. CASE g = fd /\ fd \in lagging'
      BY <1>5, <2>1, <3>7 DEF Screen
    <3> QED BY <3>4, <3>5, <3>6, <3>7
  <2> QED BY <2>2, <2>3
<1> QED BY <1>6, <1>7

\* Closing a room takes every connection that is in it out of it.
LEMMA CloseView ==
  ASSUME NEW fd \in Fd, NEW r \in RoomNumber
  PROVE  IInv /\ ViewSuffix /\ handle_close_chat_room(fd, r) => ViewSuffix'
<1> SUFFICES ASSUME IInv, ViewSuffix, handle_close_chat_room(fd, r), NEW g \in open
             PROVE  Screen(g)'
  BY ScreensSuffice DEF handle_close_chat_room
<1>1. Screen(g) /\ g \in Fd /\ Mapped(g) /\ User(g) \in Slot
  BY UserFacts, OpenScreen
<1>2. PICK n : n = room_number[User(g)]
  OBVIOUS
<1>3. /\ room_number' = [i \in Slot |->
           IF \E h \in Occupants(r) : User(h) = i THEN InNoRoom ELSE room_number[i]]
      /\ Blank(Occupants(r))
      /\ chat_rooms' = [chat_rooms EXCEPT ![r] = NoRoom]
      /\ UNCHANGED <<reset, connections_map>>
  BY DEF handle_close_chat_room
<1>4. g \in Occupants(r) <=> n = r
  BY <1>1, <1>2 DEF Occupants
<1>5. CASE n = r
  BY <1>1, <1>3, <1>4, <1>5, ScreenBlank DEF Blank
<1>6. CASE n # r
  <2>1. ~ \E h \in Occupants(r) : User(h) = User(g)
    BY <1>2, <1>6 DEF Occupants
  <2>2. room_number'[User(g)'] = n
    BY <1>1, <1>2, <1>3, <2>1
  <2>3. n # InNoRoom => chat_rooms'[n] = chat_rooms[n]
    <3>1. n # InNoRoom => n \in RoomNumber
      BY <1>1, <1>2, RoomFacts
    <3>2. chat_rooms \in [RoomNumber -> Room \union {NoRoom}]
      BY DEF IInv, TypeOK
    <3> QED BY <1>3, <1>6, <3>1, <3>2
  <2>4. view'[g] = view[g] /\ (g \in reset \union lagging => g \in reset' \union lagging')
    BY <1>1, <1>3, <1>4, <1>6 DEF Blank
  <2> QED BY <1>1, <1>2, <2>2, <2>3, <2>4, ScreenKept
<1> QED BY <1>5, <1>6

\* The connections of an account leave together too.
LEMMA ExitRoomView == ASSUME NEW fd \in Fd PROVE IInv /\ ViewSuffix /\ exit_chat_room(fd) => ViewSuffix'
<1> SUFFICES ASSUME IInv, ViewSuffix, exit_chat_room(fd), NEW g \in open PROVE Screen(g)'
  BY ScreensSuffice DEF exit_chat_room
<1>1. Screen(g) /\ g \in Fd /\ User(g) \in Slot
  BY UserFacts, OpenScreen
<1>2. PICK n : n = room_number[User(g)]
  OBVIOUS
<1>3. /\ room_number' = [room_number EXCEPT ![User(fd)] = InNoRoom]
      /\ Blank(Aliases(fd))
      /\ UNCHANGED <<reset, connections_map, chat_rooms>>
      /\ room_number \in [Slot -> -1..MaxRoom]
  BY DEF exit_chat_room, IInv, TypeOK
<1>4. g \in Aliases(fd) <=> User(g) = User(fd)
  BY <1>1 DEF Aliases
<1>5. CASE User(g) = User(fd)
  BY <1>1, <1>3, <1>4, <1>5, ScreenBlank DEF Blank
<1>6. CASE User(g) # User(fd)
  <2>1. room_number'[User(g)'] = n
    BY <1>1, <1>2, <1>3, <1>6
  <2>2. view'[g] = view[g] /\ (g \in reset \union lagging => g \in reset' \union lagging')
    BY <1>1, <1>3, <1>4, <1>6 DEF Blank
  <2> QED BY <1>1, <1>2, <1>3, <2>1, <2>2, ScreenKept
<1> QED BY <1>5, <1>6

LEMMA PinView == ASSUME NEW fd \in Fd PROVE IInv /\ ViewSuffix /\ pin(fd) => ViewSuffix'
<1> SUFFICES ASSUME IInv, ViewSuffix, pin(fd) PROVE ViewSuffix'
  OBVIOUS
<1>1. PICK r, by : r = room_number[User(fd)] /\ by = username[User(fd)]
  OBVIOUS
<1>2. /\ chat_rooms' = [chat_rooms EXCEPT ![r] = SetPin(chat_rooms[r], by)]
      /\ broadcast_room(r, PinRecord(by))
      /\ UNCHANGED <<open, reset, connections_map, sessions>>
  BY <1>1 DEF pin
<1>3. r \in RoomNumber /\ by \in Names /\ Sound(chat_rooms[r], Names)
  BY <1>1, RoomFacts DEF pin, InRoom
<1>4. \A v \in Seq(Record) : Fits(v, chat_rooms[r]) =>
        Fits(v \o Said(<<PinRecord(by)>>), SetPin(chat_rooms[r], by))
  BY <1>3, PinFits
<1> QED BY <1>2, <1>3, <1>4, BroadcastScreens

LEMMA PostView ==
  ASSUME NEW fd \in Fd
  PROVE  /\ IInv /\ ViewSuffix /\ InRoom(fd) /\ Posts(fd)
         /\ UNCHANGED <<open, connections_map, sessions>> /\ reset \subseteq reset'
         => ViewSuffix'
<1> SUFFICES ASSUME IInv, ViewSuffix, InRoom(fd), Posts(fd),
                    UNCHANGED <<open, connections_map, sessions>>, reset \subseteq reset'
             PROVE  ViewSuffix'
  OBVIOUS
<1>1. PICK r, by : r = room_number[User(fd)] /\ by = username[User(fd)]
  OBVIOUS
<1>2. r \in RoomNumber /\ by \in Names /\ Sound(chat_rooms[r], Names) /\ Exists(r)
  BY <1>1, RoomFacts DEF InRoom
<1>3. /\ chat_rooms' = [chat_rooms EXCEPT ![r] = PushChat(chat_rooms[r], by)]
      /\ broadcast_room(r, ChatRecord(by))
  BY <1>1, <1>2 DEF Posts
<1>4. \A v \in Seq(Record) : Fits(v, chat_rooms[r]) =>
        Fits(v \o Said(<<ChatRecord(by)>>), PushChat(chat_rooms[r], by))
  BY <1>2, ChatFits
<1> QED BY <1>2, <1>3, <1>4, BroadcastScreens

LEMMA ResetView == ASSUME NEW fd \in Fd PROVE IInv /\ ViewSuffix /\ Reset(fd) => ViewSuffix'
<1> SUFFICES ASSUME IInv, ViewSuffix, Reset(fd) PROVE ViewSuffix'
  OBVIOUS
<1>1. reset \subseteq reset' /\ UNCHANGED <<open, connections_map, sessions>>
  BY DEF Reset
<1>2. CASE InRoom(fd) /\ Posts(fd)
  BY <1>1, <1>2, PostView
<1>3. CASE UNCHANGED <<chat_rooms, screens>>
  <2> SUFFICES ASSUME NEW g \in open PROVE Screen(g)'
    BY <1>1, ScreensSuffice
  <2>1. Screen(g)
    BY OpenScreen
  <2>2. PICK n : n = room_number[User(g)]
    OBVIOUS
  <2>3. /\ room_number'[User(g)'] = n /\ chat_rooms' = chat_rooms /\ view' = view
        /\ g \in reset \union lagging => g \in reset' \union lagging'
    BY <1>1, <1>3, <2>2 DEF screens, sessions
  <2> QED BY <2>1, <2>2, <2>3, ScreenKept
<1> QED BY <1>2, <1>3 DEF Reset

LEMMA DeletePinView == ASSUME NEW fd \in Fd PROVE IInv /\ ViewSuffix /\ delete_pin(fd) => ViewSuffix'
<1> SUFFICES ASSUME IInv, ViewSuffix, delete_pin(fd), NEW g \in open PROVE Screen(g)'
  BY ScreensSuffice DEF delete_pin
<1>1. Screen(g) /\ g \in Fd /\ Mapped(g)
  BY OpenScreen
<1>2. PICK n, r : n = room_number[User(g)] /\ r = room_number[User(fd)]
  OBVIOUS
<1>3. /\ chat_rooms' = [chat_rooms EXCEPT ![r] = ClearPin(chat_rooms[r])]
      /\ UNCHANGED <<reset, connections_map, room_number, view, lagging>>
      /\ chat_rooms \in [RoomNumber -> Room \union {NoRoom}]
  BY <1>2 DEF delete_pin, sessions, screens, IInv, TypeOK
<1>4. r \in RoomNumber /\ Sound(chat_rooms[r], Names)
  BY <1>2, RoomFacts DEF delete_pin, InRoom
<1>5. n # InNoRoom => n \in RoomNumber
  BY <1>1, <1>2, RoomFacts
<1>6. PICK v, room : v = view[g] /\ room = ClearPin(chat_rooms[r])
  OBVIOUS
<1>7. CASE n # r
  BY <1>1, <1>2, <1>3, <1>5, <1>7, ScreenKept
<1>8. CASE n = r
  <2>1. g \notin reset \union lagging /\ n # InNoRoom => Fits(v, room)
    BY <1>1, <1>2, <1>4, <1>6, <1>8, UnpinFits DEF Screen
  <2>2. room_number'[User(g)'] = n /\ chat_rooms'[n] = room /\ view'[g] = v
        /\ (n = InNoRoom => v = <<>>)
    BY <1>1, <1>2, <1>3, <1>4, <1>6, <1>8 DEF Screen
  <2> QED BY <1>3, <2>1, <2>2 DEF Screen
<1> QED BY <1>7, <1>8

LEMMA NextView == IInv /\ ViewSuffix /\ [Next]_vars => ViewSuffix'
<1> SUFFICES ASSUME IInv, ViewSuffix, [Next]_vars PROVE ViewSuffix'
  OBVIOUS
<1>1. CASE UNCHANGED vars
  BY <1>1, QuietView DEF vars, sessions
<1>2. CASE Connection
  BY <1>2, AcceptView, EofView, ResetView, QuietView DEF Connection, AcceptFails, sessions
<1>3. ASSUME NEW fd \in Fd, Session(fd) PROVE ViewSuffix'
  BY <1>3, RegisterView, LoginView, LogoutView, ExitView, SetStatusView DEF Session
<1>4. ASSUME NEW fd \in Fd, Chat(fd) PROVE ViewSuffix'
  <2>1. CASE handle_chat_message(fd)
    BY <2>1, PostView DEF handle_chat_message
  <2> QED BY <1>4, <2>1, EnterView, CloseView, ExitRoomView, PinView, DeletePinView DEF Chat
<1> QED BY <1>1, <1>2, <1>3, <1>4 DEF Next

\* What a member has been shown since it entered is always the latest messages of its
\* room, none missing, repeated or out of order, for as long as every send to it
\* succeeds: over the replay, the broadcasts, pins set, moved and taken off by others,
\* rooms closed and made again, and entries that several connections share.
THEOREM ScreensShowLatest == Spec => []ViewSuffix
BY InitView, NextView, Invariance, PTL DEF Spec
=============================================================================
