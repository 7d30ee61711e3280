------------------------------ MODULE RoomLog ------------------------------
(***************************************************************************)
(* One chat_room_t of hw2/hw2_chat_server.cpp: the room's creator, its     *)
(* chat_history and the index of its pinned record, with the operations    *)
(* the handlers perform on them.                                           *)
(*                                                                         *)
(* The field member of the struct is left out: the code pushes to it and   *)
(* never reads it.  The text of a record is abstracted to its kind and its *)
(* author.  pin is 0-based, as in the code; sequences are 1-based.         *)
(***************************************************************************)
EXTENDS Integers, SequencesExt

CONSTANTS MaxHistory  \* MAX_CHAT_HISTORY, the records replayed to a newcomer

ASSUME MaxHistoryAssumption == MaxHistory \in Nat \ {0}

NoPin == -1

ChatRecord(by) == [kind |-> "chat", by |-> by]
PinRecord(by)  == [kind |-> "pin",  by |-> by]
IsPin(record)  == record.kind = "pin"

RecordsBy(authors) == [kind : {"chat", "pin"}, by : authors]
RoomsOf(authors) ==
  [creator : authors, history : Seq(RecordsBy(authors)), pin : Nat \union {NoPin}]

new_room(creator) == [creator |-> creator, history |-> <<>>, pin |-> NoPin]

\* chat_history.erase(chat_history.begin() + index)
EraseRecord(history, index) == RemoveAt(history, index + 1)

\* chat_history.push_back(formattedMessage)
PushChat(room, by) == [room EXCEPT !.history = Append(@, ChatRecord(by))]

\* The history once the pinned record, if there is one, has been erased.
Unpinned(room) ==
  IF room.pin = NoPin THEN room.history ELSE EraseRecord(room.history, room.pin)

\* Mutant: the old pinned record is left where it was.
SetPinOver(room, by) ==
  [room EXCEPT !.history = Append(@, PinRecord(by)), !.pin = Len(room.history)]

\* "/pin": the old pinned record goes, the new one is pushed at the end.
SetPin(room, by) ==
  [room EXCEPT !.history = Append(Unpinned(room), PinRecord(by)),
               !.pin     = Len(Unpinned(room))]

\* "/delete-pin" in a room that has a pinned record.
ClearPin(room) == [room EXCEPT !.history = Unpinned(room), !.pin = NoPin]

\* Mutant: the loop ends one record early.
AllButLast(room) ==
  LET size  == Len(room.history)
      start == IF size > MaxHistory THEN size - MaxHistory ELSE 0
  IN  SubSeq(room.history, start + 1, size - 1)

\* send_chat_history: the latest MaxHistory records, oldest first.
LatestRecords(room) ==
  LET size  == Len(room.history)
      start == IF size > MaxHistory THEN size - MaxHistory ELSE 0
  IN  SubSeq(room.history, start + 1, size)

\* Of the records sent to a member its screen keeps the messages; a history has
\* at most one pinned record.
Said(records) ==
  IF \E i \in DOMAIN records : IsPin(records[i])
    THEN RemoveAt(records, CHOOSE i \in DOMAIN records : IsPin(records[i]))
    ELSE records

\* The one record of kind "pin", if there is one, is where pin says.
PinPointsAtIt(room) ==
  /\ room.pin + 1 \in 0..Len(room.history)
  /\ \A i \in 1..Len(room.history) : IsPin(room.history[i]) <=> i = room.pin + 1
=============================================================================
