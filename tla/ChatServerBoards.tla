-------------------------- MODULE ChatServerBoards --------------------------
(***************************************************************************)
(* The rooms of the chat server implement PinBoard: the messages of a      *)
(* board are the records left when the pinned one is taken out, and its    *)
(* pinned record is the one pin points to.                                 *)
(***************************************************************************)
EXTENDS ChatServer

Authors(records) == [i \in 1..Len(records) |-> records[i].by]

BoardOf(room) ==
  [exists |-> room # NoRoom,
   chats  |-> Authors(Unpinned(room)),
   pinned |-> IF room.pin = NoPin
                THEN [by |-> "nobody", after |-> -1]
                ELSE [by |-> room.history[room.pin + 1].by, after |-> room.pin]]

Boards == INSTANCE PinBoard WITH
  RoomId <- RoomNumber,
  Author <- Names,
  boards <- [r \in RoomNumber |-> BoardOf(chat_rooms[r])]

\* Every room, whoever uses it and however often it is closed and re-created,
\* behaves as a board: messages in the order they were posted and at most one
\* pinned record beside them.
RoomsAreBoards == Boards!Spec
=============================================================================
