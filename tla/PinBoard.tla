------------------------------ MODULE PinBoard ------------------------------
(***************************************************************************)
(* What chat rooms promise their members: the messages posted in a room    *)
(* are kept in the order they were posted until the room is closed, and    *)
(* besides them a room shows at most one pinned record, at the place in    *)
(* the conversation where it was pinned.  Pinning, re-pinning and          *)
(* unpinning never disturb the posted messages, and no room is affected by *)
(* what happens in another.                                                *)
(***************************************************************************)
EXTENDS Integers, Sequences

CONSTANTS RoomId,      \* the rooms there may be
          Author       \* who may post and pin

VARIABLES boards       \* what each room shows, or NoBoard

Nothing == [by |-> "nobody", after |-> -1]
NoBoard == [exists |-> FALSE, chats |-> <<>>, pinned |-> Nothing]
Empty   == [NoBoard EXCEPT !.exists = TRUE]

Init == boards = [r \in RoomId |-> NoBoard]

Create(r) == /\ ~boards[r].exists
             /\ boards' = [boards EXCEPT ![r] = Empty]

Post(r, a) == /\ boards[r].exists
              /\ boards' = [boards EXCEPT ![r].chats = Append(@, a)]

Pin(r, a) == /\ boards[r].exists
             /\ boards' = [boards EXCEPT
                  ![r].pinned = [by |-> a, after |-> Len(boards[r].chats)]]

Unpin(r) == /\ boards[r].exists
            /\ boards' = [boards EXCEPT ![r].pinned = Nothing]

Close(r) == /\ boards[r].exists
            /\ boards' = [boards EXCEPT ![r] = NoBoard]

Next == \E r \in RoomId :
          \/ Create(r) \/ Unpin(r) \/ Close(r)
          \/ \E a \in Author : Post(r, a) \/ Pin(r, a)

Spec == Init /\ [][Next]_boards
=============================================================================
