# Verification of the network programming exercises

The repository holds eleven small C and C++ programs written for a course in
network programming: two homeworks (`src/hw1`, `src/hw2`) and seven labs. They
share no code. This directory models all of them and checks the models with TLC, and
TLAPS proves each invariant that a passing run checks for every value of the constants.
Section 13 says what the runs alone show: liveness, and what depends on it.

## 1. Inventory

| Part | State | Operations | Talks to |
|---|---|---|---|
| Chat server: sessions and accounts (`hw2_chat_server.cpp`) | `connections_map` (descriptor to `user_t*`), `userlist`, `total_user`, the `user_info` of the accept branch | accept, end of file, reset, `handle_register`, `handle_login`, `handle_logout`, `handle_exit`, `handle_set_status`, `handle_list_user` | up to `RLIMIT_NOFILE` clients over TCP |
| Chat server: rooms (same file) | `chat_rooms`: creator, history, `pin` | `handle_enter_chat_room`, `handle_close_chat_room`, `list_chat_rooms`, and in a room: message, `/pin`, `/delete-pin`, `/list-user`, `/exit-chat-room` | the sessions, through `room_number` of the account; clients through `broadcast_room` |
| Chat server: event loop | the epoll set, the batch of events, up to 20 | `epoll_wait`, accept, one read for each event, the prompt after it, both closes of a descriptor | both of the above, clients |
| File transfer (`lab6/cli.c`, `lab6/srv.c`) | client: `count`, `seq`, `total`, `buffer`, `re_count`, the alarm; server: `count`, `seq`, `total`, the open file | `send_file_data`, `do_send` (the SIGALRM handler), `write_file` | each other over UDP |
| HTTP file server (`hw1/server.c`) | open descriptors; `method` and `path`, as the stack keeps them from one request to the next | `handle_request`, `urldecode`, `get_content_type` | browsers, the file system |
| Queen placement (`lab7/sol.c`) | `grid`, `canx`, `cany`, `canp`, `canm` | `processResponse`, `putQueen` | a referee over a UNIX socket |
| Maze clients (`lab3/code.c`, `code2.c`, `code3.c`, `4code.c`) | `receivedData`, `maze`, `currentPath`, `pathLength`, the position `r`, `c` of the view port | reading the first text, `findPath`, reading by view port (`code3.c`), exploring an unknown maze (`4code.c`), walking straight to the exit (`code.c`) | a referee over TCP |
| Flag reader (`lab2/all.c`) | array of blocks, the data put together | checksum filter, sort by offset, reassembly, flag | a downloaded file, a web service through curl |
| One-time-password client (`lab4/code.c`) | `response`, `otp` | `urlEncode`, three HTTP requests | an HTTP server |
| Capture readers (`lab1/*.c`) | lengths by sequence number, `begin`, `end`, datagrams counted | `packet_handler`, waiting for tcpdump's file, handing in the flag | tcpdump through a file, a referee over UDP |
| Bandwidth meter (`lab5/*.c`) | bytes counted and measured | greeting, send and receive loops | each other over TCP |

Where these programs are hard to test:

* **Chat server.** One thread, so handlers are atomic, but sessions interleave
  freely, and state outlives what it was made for: an entry of
  `connections_map` survives its connection (lines 549-557 close the descriptor
  and nothing else), the next connection gets the same descriptor number, a
  logged-out connection still points at its account (lines 160-166), and a room
  may be closed under its members. What makes it correct: the entry a handler
  follows always leads somewhere sensible; nobody acts for an account without
  having given its password; a room has one owner; the pinned index is the index
  of the pinned record; and a member sees the conversation without a gap.
* **File transfer.** Datagrams are lost, duplicated, delayed and reordered, and
  a signal handler shares globals with the loop it interrupts. What makes it
  correct: what is stored is what was sent, the client does not run ahead of the
  server, and the client ends.
* **Searches** (queens, maze). Undo must restore exactly what was changed, or a
  later branch works on a damaged board.
* **HTTP server.** Early returns, each of which has to release what was opened,
  a buffer and two words that keep what the last request has left in them, and
  one thread that waits for whoever is slow.
* **Event loop.** The events of a batch get older while it is worked through, and
  descriptors are blocking.
* **Readers of TCP.** The clients of lab3, lab4 and lab5 read a stream as if a
  read returned what the peer had sent at a time. What makes them correct: what
  is put together is what was sent, and they fail only where a cut leaves them no choice.
* **Exploration.** The map is right only if the client's reckoning of its own
  position is, and the reckoning only if the map is.
* **Captures and blocks.** Another program writes the file that is read, or the file is
  damaged; order, repetition and loss must make no difference to what is found.

`PROJECT.json` lists each hazard at its line with the properties that watch it.

## 2. The chat server: `RoomLog`, `ChatServer`

### Correspondence with the code

`RoomLog` has the value of one `chat_room_t` and what is done to it: `PushChat`,
`SetPin`, `ClearPin`, `LatestRecords`. `ChatServer` has the server's globals as
variables, under their names, and one action for each readiness event with the
whole handler it leads to. A handler that refuses its command changes nothing
except the reply and is a stuttering step, so its conditions appear as guards.

* **Pointers.** `connections_map[fd]` is a slot number. Slots
  `1..total_user` are entries of `userlist`; slot 0 is the `user_info` of the
  accept branch (line 523). It is a local variable whose address is stored and
  used after its block has ended, which the language leaves undefined. The
  Makefile compiles without optimisation, `main` never returns in the meantime,
  and no other variable of `main` is given its place, so what happens is that all the
  connections that have not logged in share one record, written again by each
  accept. That is what is modelled; `GuestUntouched`, a part of `IInv`, then says that no handler
  changes it.
* **Unset memory.** `room_number` of an account that has registered is copied from an
  unset local: the action chooses any value.
* **Lost connections.** `Eof` is the branch of lines 549-557: the descriptor is closed, the entry and
  the account stay. `Reset` is a read that returns -1, which the code handles as
  an empty line: in a room, it is posted as a message.
* **Slow clients.** `send` with `MSG_DONTWAIT` may fail. For the descriptors of
  `SlowFd` each broadcast and replay may be lost; a partial send counts as lost.
* **The event batch.** `epoll_wait` returns up to 20 events, each descriptor at
  most once. A descriptor closed by its own handler is not handled again in the same batch
  and no handler closes another's, so handling them one at a time in any order is
  the same as the batches. `EventLoop` (section 7) checks that.
* **History variables.** `presented` (credentials a connection's client has sent with success), `view` (messages it was shown in
  its present room) and `lagging` (it has missed one) are not in the code; nothing else
  depends on them. `view` keeps messages and leaves out pinned records, which
  are shown at other moments by design.
* **Left out.** Wording of replies, `snprintf` truncation (names are shorter
  than the 20 bytes of `username`, statuses are among the three the code
  accepts), prompts, and the splitting of TCP input, one read being one command (section 7 says when that is so).

`PinBoard` says, without any index arithmetic, what a room promises: messages in
the order they were posted, and at most one pinned record besides them.
`ChatServerBoards` maps each `chat_room_t` to such a board.

### Runs

| Run | Bounds | Shows |
|---|---|---|
| `sessions` | 2 descriptors, 2 accounts, 3 names, 2 passwords, 2 rooms, statuses `busy` and `offline`, no messages | `EntriesSound`, `SessionPresentedPassword`, `NoRoomHop`, and that `IInv` is an invariant |
| `rooms` | 2 descriptors of which one slow, 2 accounts, 1 room of at most 3 records of which 2 are replayed | `ViewSuffix`, and that rooms implement `PinBoard` |
| `shared_account` | as `sessions` | `OneClientPerAccount` fails |
| `locked_out` | as `sessions` | `RefusalHasHolder` fails |

Two descriptors are enough for a descriptor to be reused while another client
holds the account its entry points to; two accounts and two rooms for a
connection to change from one to the other. With three records a pinned record
may have messages on both sides and the replay of two leaves one out, so
that removing the wrong record or replaying the wrong ones shows.
The bounds are `MaxFd`, `MaxUsers`, `MaxRoom` (numbers a client can ask for),
`MaxLog` (records of a room; a guard that stands for the end of the experiment)
and `MaxHistory`. `SpaceLeft` stops registration when `userlist` is full: the
code has no such guard and would write past the array. `CHECK_DEADLOCK FALSE`
is needed because the server stops when `accept` fails.

`sessions`, `shared_account` and `locked_out` have one user name more than
`userlist` has places, so that the array does fill up. `shared_account` needs a
client that logs out and stays, and a second that logs in as the same account;
the first is then logged in again without having done anything. `locked_out` needs one lost
connection: `state` stays 1, each later login is refused with "Please logout
first.", and no open connection leads to the account.

### Proofs

`ChatServer_proofs` begins with what the record operations of `RoomLog` preserve (`SetPinSound`:
whatever the history was, after a pin the index is the place of the one pinned record). `SequenceFacts`
has the lemmas about sequences that several proofs need: removing an entry, reversing,
what stays distinct, what remains a suffix. `ChatServer_proofs` then proves, for all values of the constants,

* `Invariance`: `Spec => []IInv`, one lemma for each action;
* `EntriesAlwaysSound` and `OnlyWithPassword`: the invariants of `sessions`;
* `TypeCorrect`, `ListIsHonest`, `RoomHasOneOwner`, `PinsAlwaysValid`: `TypeOK`,
  `ListedOnlineIsLoggedIn`, `OneOwner` and `PinValid`, which are in `IInv` or
  follow from it and are not checked on their own;
* `RoomsAreLeftFirst`: the action property `NoRoomHop`;
* `RoomsImplementBoards`: the refinement `RoomsAreBoards`;
* `ScreensShowLatest`: `ViewSuffix`.

The assumptions are `BoundsAssumption` and `NamesAssumption`. `EntriesSound` is
not inductive: it speaks of open descriptors, while `broadcast_room` and
`handle_close_chat_room` follow the entries of closed ones too, and a closed
descriptor's entry comes back to life if nothing replaces it. `IInv` therefore
says of *every* descriptor that its entry leads to an account that, when it is
in a room, is logged in and in a room that exists (`EntriesUsable`). That in turn needs
the guests' record to stay as it is, accounts to have different names, and each
account shown as online to be logged in.

For `RoomsImplementBoards` each event is shown to be one step of `PinBoard` for one room or to
leave every board as it is. Of a board's two parts the messages are the harder one: pinning
appends a record and removes the old one from somewhere in the middle, so the messages must be
shown to be the same with the pinned record left out, before and after (`PostUnpinned`, `PinUnpinned`, `UnpinUnpinned`).

`ViewSuffix` is inductive together with `IInv`. Its second part, that a connection in no room has been
shown nothing, is there for that: entering a room adds the replay to what has been shown, and the result is
the end of the conversation only if nothing was shown before. A message goes to every connection whose
account is in the room, those of lost clients too, and appears on each screen as it does
in the history. The argument is one about suffixes (`SuffixAppend`, `LatestIsSuffix`) and needs no induction:
a suffix is a sequence whose entries agree, counted from the end.

## 3. The file transfer: `FileTransfer`

### Correspondence with the code

Both programs are in one module with the network between them. `SendChunk`,
`SendLast` and `EndOfFile` are the outcomes of one turn of the loop in
`send_file_data`; `ReceiveAck` is the `recvfrom` loop and what follows it;
`do_send` is the alarm handler, which builds the packet from the globals
again. `ReceiveEnd`, `ReceiveLast` and `Acknowledge` are the branches of
`write_file` in their order. A chunk is acknowledged (`srv.c:98`) before it is looked at again
and, if it is the next one, written (`srv.c:103`), which is `Write`, a step of its own: the client
may act on the acknowledgement in between, while the packet is in `hand`. `packets` and `acks` are the sets of all datagrams
ever sent: a datagram may be received at any time after that, any number of
times or never, which is loss, duplication, delay and reordering at once. The
five or ten copies of a packet that the client sends are then one addition to the set.
A chunk's contents are abstracted to the file and position it was read from,
except that some chunks read `END` (`EndChunks`), which the server takes for a
signal. `fwrite` of a chunk is an element of `stored` with the number of bytes written: `stored` is what
`fwrite` has been given, some of which is in the stream's buffer, and all of it in the file once that is
closed (`srv.c:113`). A `sendto` that fails ends the client; that of the last chunk is not looked at.
The reply to `END` is ten bytes of text, which as an integer is the number 27503: files are
taken to be shorter than that many chunks, so no client waits for it. The files the client is
told to send exist.

### Runs

| Run | Bounds | Shows |
|---|---|---|
| `transfer` | one file of eight chunks; one of three chunks of which the second reads `END`; files of two and of three chunks; or two chunks, one chunk that reads `END` and an exact multiple of `SIZE`; 2 resends | `DiskSound`, `OneFileIsSource`, `NeverAhead`, `ClientStops`, `Completes` |
| `stale_chunk` | two files of one chunk | `FinishedIsSource` fails |

What the client is told to send is its `job`; `transfer` has four of them, and
each behaviour has one. With one file none of whose chunks reads `END`, nothing the network does can make the stored file differ from
the source (`OneFileIsSource`). With several there is no such guarantee: the branch for
the last chunk (`srv.c:88`) does not look at `file_num`, so a copy of one
file's last chunk ends the next file. What remains true then is
`OrderedPrefix`, in `DiskSound`. `ClientStops` assumes `WF_vars(Client)`: the client is
a running process, and while it waits its alarm goes off (`cli.c:164` sets it
before each wait). Nothing is assumed of the server or the network.

`NeverAhead` is also about one file: the client is at a chunk only when the server has those before it,
given to `fwrite` or in hand and wanted (`InHand`), whatever is under way says the same (the packets' `seq`,
and the acknowledgements, which are of such chunks), and the last part concerns the end. The last chunk is sent ten times and never acknowledged, so a client that ends well may
have left it unwritten; it has left nothing else.
`Completes` is about one file and a network that delivers in the end. `due` has the packets that have not
been received since they were last sent, and `Delivers`, the premise, says that one of them does not stay
unread for ever, and that the server runs; a datagram that has been received need not come again.
Then the server completes the file, or the client gives up. With two files it is not so, and no
property claims it: the first chunk of the second may come before the last one of the first, when it is
acknowledged and not written, and a client that has its acknowledgement does not send it again, so the
server waits for ever although every datagram was delivered.

A file whose size is a multiple of `SIZE` is never completed by the server: the
client tests `>=` (`cli.c:139`), the server `>` (`srv.c:88`). That is the other premise of
`Completes`, which fails without it. No statement of the repository contradicts
it, so no run is made of the failure.
`CHECK_DEADLOCK FALSE` is set because both programs end.

### Proofs

`FileTransfer_proofs`: `DiskAlwaysSound`, `NobodyRunsAhead` and `OneFileArrives`, for any jobs, `SIZE`
and `MaxResend` (`SizeAssumption`, `JobsAssumption`) and a network that does what it likes.
What the server has written (`OrderedPrefix`) follows from the packets only if these are right, and
a packet is built from the client's globals, by `send_file_data` or by the alarm handler after it. So
`DiskSound` is inductive with five parts more: what the globals are while the client waits
(`WaitingForChunk`) and while it reads on (`ReadingInStep`), that every packet ever sent is true of its
chunk (`PacketsTrue`), and that `total` of the server is what it has written (`WritingInStep`);
`OneInHand` says that the packet it has acknowledged is one of them. `PacketsTrue` and `WritingInStep` also hold for files
that have been mixed up: a last chunk that comes from another file is one short piece at the end, never in the middle.
`NeverAhead` adds that what the server has only grows under an acknowledgement (`DiskGrows`). `OneFileArrives` is that with
one file and no `END` in it, a file is finished only by its own last chunk, when
all others have been written.

## 4. The queens: `Queens`

### Correspondence with the code

`putQueen` is recursive. Its calls that have placed a queen are the frames of
`stack`, innermost last, each with its row and its place in `order`; `mode`
says whether the innermost call begins, has returned `res`, or is about to go on
with its loop. `Descend` and `ReturnFalse` are the two ways the loops at lines
82-87 can start, `Undo` lines 93-94, `Retry` and `Exhausted` the rest
of the inner loop. The loops over rows and columns are predicates: `FirstFree`
is the first row with `canx` 1, after which line 97 leaves the outer loop, and
`NextFree` the next column of `order` that passes `check_ok`. `grid` is the set of squares
with a `Q`. `processResponse` gives the first state: the referee's queens, or an
empty board when the reply has none. `queenNum` is `Known` plus the depth, since
`main` calls `putQueen(3, 0)` and each call adds one. The parameter `line` is
never read. What is sent afterwards is a loop over the board and is left out.

### Run

`queens` (`IInv`, `TrueIsSolved`, `FalseIsHopeless`, `SearchEnds`) has `N = 6`, two given queens on any two squares that do not attack
each other, and `order` from the outside in, as the code has it for 30. Some of
these boards have a solution and some do not, six being the smallest size with both a
solution and long backtracking. `FairSpec` adds `WF_vars(Next)`: it
is a sequential program that goes on as long as it can.

`FalseIsHopeless` compares an answer of `false` with all placements of
one queen to a row; `SearchEnds` is that there is an answer. `TrueIsSolved` counts the rows without a queen when the answer is `true`: at most as
many as queens were given less than `main` takes for granted. That is none if the board was read; if it was not, the
search starts from an empty board, which is among the run's first states, and stops up to `Known` queens short.

### Proofs

`Queens_proofs`: `Invariance`, `BoardAlwaysSound`, `ArraysMatch`,
`TrueMeansSolved` and `FalseMeansHopeless`, for any `N`, `Known` and `order` (`SizeAssumption`,
`OrderAssumption`). `setcan(x, y, 1)` clears four lines without knowing who
holds them. That it restores what was there follows only because no two queens
ever share a line (`BoardSound`), which in turn follows because the arrays
match the board (`CanMatchesGrid`): neither is inductive without the other, nor without
`OwnQueens`, by which the queen taken back is the call's own. `TrueMeansSolved`
is a counting argument: the queens are in different rows, so as many rows are empty as there are queens fewer than `N`.

`FalseIsHopeless` is about every placement that was passed over. That needs no induction over the
search but an invariant of it, `NothingSkipped`: if the given queens can be completed at all
(`Completable`), then the board as it is can be, or some call under way has a later column with which
the board of the calls before it can be (`Branch`). When a call places a queen, the completion has a queen in the
same row (`RowOfSolution`): if it is in the column tried it remains a completion of the board, and if not,
its column comes later in `order`, since the columns passed over have a line that is taken, which a
completion excludes (`PlaceSkipsNone`). That a free row is left is a matter of counting (`RowFound`): the board has no more queens than the search takes for granted,
which is why `OwnQueens` says that no more than `Known` were given. When the first call has returned `false` no call is left to have a later
column, and the board is as it was given.

## 5. Reading the maze by view port: `Survey`

### Correspondence with the code

`code3.c` sees `vrow` by `vcol` characters of the maze at a time. It moves up by
the number in the row label, left until the first row is blank, right until it is
wall, and then reads the maze in rows of tiles. `port_row` and `port_col` are
where the referee has the view port, which the client is never told; `r` and
`c` of the code are the client's own count, `row` and `col` here.
`maze` is `mazeRead`, which holds for each cell which cell it
was copied from, instead of the character. The referee is external: a move in the code's alphabet moves the port by one,
off the maze too, where rows and columns are shown blank.

*Segments.* Each command is answered by a view (parts 1 and 2 of the reply) and a prompt (parts 3 and 4).
`coming` is how many parts have not been read; a read gets one or more of them, and with none left it
blocks for ever, which is a state without a step. Each `read` of the code is an action or the first half of one: `FirstReply` is
the loop at 170-178, which goes on until a segment has a prompt, and the command after it; `MoveLeft` and `MoveRight`
are the reads in the heads of the two loops (188, 204) with what they decide by the view, `SkipLeft` and `SkipRight` the second
reads (222, 201 and 217), whose result is not looked at, with the command after them; `ReadView` the one read for
the next tile (286, 291); `ReadTile` the copying at 240-251 out of the last segment; `AwaitPrompt` the loop at 253-256,
which does not terminate the segment, so behind half a prompt it may find an old one. `ScanRight`, `ScanDown` and `ScanLast` are
the branches at 278-292. If a segment brings view and prompt together, the second read waits for ever while the
referee waits for a move; if a view comes in two segments, the client decides by a word that is old or unset, or copies
from behind a null pointer. In the model the first has no next step and the second is `adrift`, a mode that is not followed further.

*The label.* Line 140 skips `strlen("%d x %d\n\n  ")`, eleven characters, whatever the digits of the size. Behind a size of
six characters, such as the referee's `11 x 7`, the last two of the label follow, of which `-9` to `99` are read right. Behind a size of five
characters the last digit and the colon are read, which is right for row 10 only (a colon counts as ten); behind one of seven the two characters before the last, which are right for no row of
the maze but the first, and for that one the blank makes `a` negative and `up[a]` is outside the array
(`BeforeUp`). `Label` is what the two characters become.

Both are conditions under which the program works, and the properties say so: `InStep` is that the size has six characters (`SixChars`)
and that every read so far got one view or one prompt (`tidy`, a history variable). No statement of the repository claims more, so
no run is made of the failures; TLC finds them if either condition is dropped from `SurveyEnds`.

### Run

`survey` (`IInv`, `AllRead`, `SurveyEnds`): `MCSurvey` has mazes of 2 by 21, 3 by 10, 12 by 5 and 11 by 11, and ports of
1 by 10, 2 by 11, 10 by 2 and 11 by 1, whose sizes have six characters, besides 2 by 3 and 10 by 10 with five and seven; any first position
from two rows and columns off the maze (`MaxOff`); and any segments. Ports that divide the maze, ports that do
not and ports larger than the maze are among them, row labels of two digits, and mazes wider than the four columns
that one `JJJJ` moves, so that `MoveLeft` repeats.
`SurveyEnds` assumes `WF_vars(Next)`: the program reads until it has an answer and the
referee answers each command; its premise is `[](SixChars /\ tidy)`. Under it, it says that every reply is
read to its end before the next command and never beyond. `CHECK_DEADLOCK FALSE`: the client ends, or waits for ever.

### Proofs

`Labs_proofs` begins with `SurveyInvariance`, `ReckoningStaysRight`, `NothingMisplaced` and
`NothingMissed`, for mazes of up to 100 rows and columns and ports of up to 98: `goLeft` has room for 200 characters
and `goRight` for 100 (`BoundsAssumption`). `ReckoningRight` alone says nothing of what was read before; `IInv` adds that
`col` is always a whole number of tiles (`OnTile`), so that `BackToLeft`
leads to column 0, that all above and to the left has been read
(`ReadSoFar`), where the port is while it approaches (`Approach`), and how much of the reply is
still to come in each mode (`InTurn`): a view is copied only from a segment that has one.

## 6. The way out: `FindPath`

### Correspondence with the code

`findPath` is the same in `code2.c` and `code3.c`. As with the queens, the
calls that have marked a cell are the frames of `stack`, each with the direction
it is going; `here` is the cell the innermost call is for. `Found`, `TurnBack` and
`Enter` are the beginnings of a call, `Turn` the step from one direction to the next with
its rewriting of `currentPath`, `Backtrack` the end of a call without success, `Send` what
`main` does at the end, whatever was found. `maze` is the set of cells marked
`V`, `path` is `currentPath[0..pathLength-1]` with the newline once it is written.
The referee's mazes have a wall all around (`Init`).

### Run

`find_path` (`IInv`, `SentWalksOut`, `FoundIfReachable`, `SearchEnds`): every maze with an inside of 3 by 3, every start and exit, so
mazes without a way out, with cycles and with dead ends of several cells are
among them. `FoundIfReachable` compares the answer with the definition
of reachability by closed sets. `SearchEnds` again assumes `WF_vars(Next)`. It matters here: a cell is
unmarked when it fails, so it is entered again from elsewhere, and that
this ends is not plain from the code.

### Proofs

`FindPath_proofs`: `Invariance`, `SentPathWalksOut`, `FailureLeavesNothing`,
`PathAlwaysFits`, `FoundExactlyIfReachable`, for mazes of any size. `IInv` says that the calls under way are a walk from
the start that never crosses itself (`Trail`), that `currentPath` spells it
(`PathSpellsTrail`), where the innermost call is (`HereIsAhead`) and that no way out is passed over (`NothingSkipped`).
`PathAlwaysFits` counts: the walk has each cell once, and neither the exit nor the
corner of the wall, which leaves room for the newline and the terminator in an
array as long as the maze has cells.

`NothingSkipped` is what makes unmarking right. `Leads(s, marked)` is that the exit can be walked to from `s`
off the walls and the cells of `marked`. If there is a way out of the maze, one leads on from the cell the
innermost call is about to be made for, or from a call under way, in a direction it has not
tried and through cells that no call *before* it has marked: those that later calls have
marked may be in the way now, but will be unmarked when these return. The step that has to
be argued is `Enter`, which marks one more cell: a way from that cell can be taken to go on through a neighbour and
not to come back (`LeadsOn`), which is a fact about closed sets. When the first call has failed, no call is left, so there was no way.

## 7. The event loop of the chat server: `ReadyEvents`, `EventLoop`

### Correspondence with the code

`ReadyEvents` is what the loop promises and what `ChatServer` takes for granted: a connection that
waits is accepted and a descriptor that is readable is read, one event at a time in any order.
`EventLoop` is the loop as it is: `epoll_wait` (line 502) takes up to `Batch` events, 20 in the code,
and the loop of line 503 handles them in order with `HandleAccept` and `HandleRead`. The
kernel is external: `ready` is its list of descriptors, from the front of which
it takes, and to the end of which it puts back what it watches by level, as it
does here. A handler is reduced to what the loop needs of it: whether it closes
the descriptor, and the prompts it sends. `credit` counts the prompts a client
has received less the commands it has sent. The greeting has two (lines
534-539: the banner ends with one and another is sent), so a client that sends
when it has *one* prompt may send two commands that are read as one. `Patience`
is the number it waits for. With 2, `OneAtATime` holds; with 1 it fails. There is one more way to a
prompt: closing a room sends one to every connection whose account is in it (line 415, `CloseRoom`). For a client that
has entered the room (`quiet`: its last command brought no prompt) that is the prompt it has not had. But a client that
has logged out still has its entry lead to the account; if another client logs in to that (`Login`) and enters a room, the first is sent a prompt when the room
is closed, beside the one it had for its own command. Such clients are in `shared` until their connection ends, and
`OneAtATime` is not about them: no number of prompts is enough to wait for, and two of their commands may be read as one.
Inside
a room there are no prompts, and a client that wants another read for each
line has to see its own line broadcast first; the model's clients are then
silent. A command cut in two is not modelled. When no descriptor is left `main` returns (`AcceptFails`).

### Run

`event_loop` (`IInv`, `ServesAsFlat`): three clients for two descriptors, so that `accept` can fail and
numbers are used again, also within a batch of two. `IInv` is the types, `NothingForgotten`,
`NeverBlocks` and `OneAtATime`, with what the proof needs besides: `ConnectionsDistinct`, `BatchFresh` and `PromptsCounted`.
`NeverBlocks` compares each event with the state it meets when its turn comes: the
descriptor still has the connection it had when the batch was taken, and
the blocking `accept` or `read` returns at once. `ServesAsFlat` is the refinement:
`ReadyEvents!Spec`, with weak fairness of `Accept` and of each client's
`Read`, follows from weak fairness of `Main` alone, because the kernel's list
is a queue. Under `ByEdge` (a watch by edge) both `NothingForgotten` and the
refinement fail. `CHECK_DEADLOCK FALSE`: the server may stop.

### Proofs

`EventLoop_proofs`: `Invariance`, for any clients, number of descriptors, `Batch`, `MaxInbox` and `Patience`
(`SizeAssumption`, `BatchAssumption`). The events of the batch are those the kernel's list had
when `epoll_wait` looked at it, one by one, each put back at the end of the list if it is watched by level; the
lemmas `ScanKeeps` and `WaitKeeps` are about that scan. `NeverBlocks` speaks of each event when its turn comes and follows from
`BatchFresh`, which says of every event that waits in the batch that its descriptor still has its
connection and something to read. That survives the events before it because a
handler closes only its own descriptor, because no descriptor is in a batch twice, and because
only clients add to what can be read. `PromptsCounted` is the sum behind `OneAtATime`: a client that is not shared has at most the greeting's two prompts,
one less while it is quiet (`PromptsOf` has what each command does to the sum). `MaxPrompts` bounds what a shared client counts.
Of `ServesAsFlat` nothing is proved. What it says beyond the steps, which `EventLoop` has from `ReadyEvents` as they are,
is fairness.

## 8. The HTTP server: `HttpServer`, and both codecs: `UrlCodec`

### Correspondence with the code

`handle_request` is split at its sends and opens, since clients act in between:
`Recv`, then the ways out (`NotImplemented`, `NotFound`, `Redirect`,
`Forbidden`) or `Open`, `OpenIndex` or `PlainFile`, `SendHeader`, `SendBody`,
`Finish`. `used` counts the descriptors of the process, and `Return` says
how many stay open. A path is a name, whether a slash follows, and the query
after that; `Cut` is lines 114-124, where a dot anywhere in the path or the query
decides whether the slash goes with the query. `sscanf` sets only the words that are
there, and nothing initialises `method` and `path`: `Recv` chooses any method and any path
that an earlier call could have left on the stack (`Leftover`), which is a path as it was asked for or as it was cut and decoded. A send to a client that has
closed its end is followed by a reset sooner or later, and one after a reset
raises SIGPIPE (`Kills`). Sockets are blocking, and a send to a client that does not read is
taken to return, as it does while what is sent fits into the sockets' buffers. The types and dates of the header are left out. What the
file system has is a constant; nothing in the repository changes it.

`UrlCodec` has `urlEncode` (lab4) and `urldecode` (hw1) byte by byte; what
the first returns is the second's argument, decoded in the same buffer.

### Runs

`http` (`IInv`, `AnswerDeserved`, `RedirectFinds`, `Served`) has two clients, seven
names, six requests and three descriptors beside the listener's. `IInv` is the
types, `ConnectionsHeld`, `DescriptorsAccounted`, `RequestInHand`, `FollowsToDir` and `AnswerDeserved`. `UrlCodec` is in the run
`labs` (section 12): strings of up to three of seven bytes, which are `%`, three hexadecimal digits, a
special character, a space and another letter.

Three descriptors are one for a connection, one for its file and one that leaks.
`DescriptorsAccounted` shows that 301, 403 and a directory's index are the only
ways out that leak, one descriptor each, and that leaking needs two: the
last descriptor is never lost, `accept` never fails, and a server that has
run out says 404 or 403 to everything, for ever. `AnswerDeserved` compares each
answer with `Expected`, written from the request alone, whatever came
before; `Served` assumes that the server runs (`WF_vars(Server)`) and that a client
which has said nothing says something or leaves in the end (`Speak`): the only thread waits in `recv` for it.
`DecodesInPlace` is that `urlEncode` stays within what it has allocated, also when everything that is left needs three bytes
(`EncodedFits`), and that decoding in place neither writes over what is still to be read nor runs past
the end (`ReadsAhead`). `RoundTrip` is that what is left in the buffer is what the encoded string means,
each escape taken once and from the left. It is said without recursion: the digits of an escape are never `%`, so
escapes do not overlap, and a byte of the meaning begins wherever every escape before has ended (`Begins`).
`Means` compares the buffer with these bytes one by one; `EncodedSoFar` and `DecodedSoFar` say of every turn of the two
loops how far they have got. Strings of three bytes encode to
up to nine, so that escapes stand next to each other, and `%` followed by two
digits is among them. `%` is not among the special characters, so the last part of `RoundTrip`
is an equivalence: a string comes back exactly if it has no escape in it. Nor is the space, although the
comment at `src/lab4/code.c:13` counts it ("空格") among what usually has to be encoded.

### Proofs

`HttpServer_proofs`: `Invariance`, `AnswersDeserved` and `RedirectsFind`, for any clients,
names, file system and `Limit` that `ParameterAssumption` allows, with one lemma for each event of `handle_request` and one (`ReturnIInv`)
for what all its ways out have in common. `AnswerDeserved` is not inductive: when the header is sent the
answer depends on a request that came several steps earlier, into words that keep what the one before
has left. `RequestInHand` says what `method`, `path` and the opened file are at each point of
`handle_request`, compared with what the client has asked; `DescriptorsAccounted` gives the exception, when an
`open` has failed; and `FollowsToDir` is what a client that has been redirected asks for, from which `RedirectsFind` follows.

`CodecStaysInBounds` proves `DecodesInPlace` for strings of any length of any bytes but 0. `DecodesInPlace` is its own inductive
invariant: the room that `EncodedFits` leaves for the rest of the string is what the next byte takes, and
an escape has three bytes where it leaves one, so writing falls behind reading and never catches up.

`PasswordComesBack` proves `RoundTrip` for the same strings; the two are inductive together. While
encoding, the place of each byte in the result is known from how many before it took three bytes
(`EncodedAt`), and it stands there as itself or as its escape (`Stands`). While decoding, `pos` counts the bytes begun
so far and the next unread byte begins one (`DecodedSoFar`); that the byte at hand has not been written over is `ReadsAhead`.
At the end the two are compared: if the string had no escape in it, the places where bytes were put are exactly those where bytes
begin, so each comes back to its own index; if it had one, more places were written than bytes begin,
so the result is shorter. Both are facts about the cardinality of sets of places.

## 9. Reading segments: `Segments`, `MazeReader`, `FirstClient`, `OtpClient`, `Bandwidth`

### Correspondence with the code

`Segments` is one `read` into a buffer with `buffer[n] = '\0'` after it; where the peer's
text is cut is any choice, and what an earlier, longer segment has left
behind the terminator stays there. The byte behind a full buffer is taken to be
memory: the code writes one there in that case. `MazeReader` is the loop of lab3's
`code2.c`, `code3.c` and `4code.c`, which looks for the prompt in the last segment and
puts the text together from all in `receivedData`. What they take from it differs: `code2.c` the maze; `code3.c` the sizes and the first row label,
its views come later (section 5); `4code.c` the sizes, but its first view from `buffer` (`4code.c:194`), where only the last
segment is (`TakeFirstView`). The note that it looks for there has two bytes in the model, at `NoteAt`, and without it the search's null pointer is
followed (`crashed`); `FirstClient` is `code.c`, which takes the
maze from one segment and then walks without looking; `OtpClient` is lab4's
`main` with its three requests. Texts have one byte for each part the code
looks for, and two or three for a word that can be cut. `Bandwidth` has both
programs of lab5: only numbers of bytes matter there, so `Sizes` is what a recv may return.
Whether a read is too slow to be counted is any choice.

### What is checked

In the run `labs`, with a buffer of six bytes for all three readers: a first text of ten bytes
(`MazeRight`), a room of 3 by 3 told in six bytes (`RoomRight`), an answer of eight (`OtpRight`, `OtpFinishes`), and
two clients of the meter with one byte of greeting and three of data (`MetersEnd`).
The buffer is shorter than some texts, so that no segment can have all of them, and longer than the words looked
for. The properties say exactly what a cut can do. `ReadsWhole`: client and referee wait for each other only
if a segment begins inside the prompt; and `4code.c` crashes exactly if the last segment begins behind the
first byte of the note, so that it takes its first view from a whole one or not at all. `LostOnlyIfCut`: the password is lost
only if a segment ended inside the id. `WrongOnlyIfCut`: `code.c` fails only if the text was cut between the size and the last
row. What can go wrong in those cases is modelled too (`crashed`; a command computed from memory never written:
the comment at `src/lab3/code.c:98` takes the maze to be stored by then, but if the segment with the size has no row in it
nothing is). `Finishes` has the premise that the server closes: the second
read after the verification (line 162) otherwise waits for a segment that need not come.
In `Bandwidth` the greeting is taken to come in one recv, which may have data with it; they are missing from `total`, so
`total<DATA_SIZE` stays true and only the end of the connection ends the loop: `AllEnd` is that
it does end, and that nothing else is missing. Fairness is that the programs run.

### Proofs

`Labs_proofs` has `MazeReadWhole`, `RoomWalkedRight` and `OtpTakenRight`, which prove `ReadsWhole`, `RoomInv`
and `OtpInv` for texts, rooms and buffers of any size, and `MazeReadRight`, `RoomWalkRight` and `OtpRightAlways`, which are the
same of `LabsSpec` (section 12). Each is its own inductive invariant. Each
says that what is left of the stream is the end of the peer's text (`RestOf`; in `ReadsWhole`, that it completes what was received).
The step to argue is the read: what it leaves in the buffer is a piece of the text, the terminator, and behind it the end of some longer
segment before. A search that stops at the terminator finds a word exactly if all of it is in the piece, so a word is missed
only if a segment ends inside it. The maze is read to its end unless the last segment is shorter than the prompt; the
password is lost only if the id was cut; and `code.c` has all rows of the room or none, unless the cut was between them.
`Bandwidth` has no safety property of its own.

## 10. Captures and blocks: `Capture`, `VerifyFlag`, `BinFlag`

### Correspondence with the code

`Capture` is lab1's `part2-3.c` up to the flag and `part2-2.c`: `packet_handler` for each
packet of the file, then the flag or what is printed. tcpdump is external: it starts some time after `system` has returned, sees what comes
from then on, and writes it when it likes. A datagram is its number; the other packets of
the conversation have none and are counted as number 0. `VerifyFlag` is how `part2-1.c` and `part2-3.c`
hand the flag in: at the hundredth datagram, and in `part2-1.c` once before; `early` tells which
program it is. Anything may be lost that is sent once: `hello` and the id (`Hello`), `chals` (`Chals`), the flags and the verdicts on them
(`Lose`); after one of the first three, `recvfrom` waits for ever. A capture that an earlier run has left under the name of the new one
is not modelled: the file is taken to be made by this run's tcpdump. `BinFlag` is lab2's `all.c` with bits for bytes and
offsets of 2 * `Half` values, of which an int takes the upper half for negative: blocks in any order with damaged ones among them, a file that may end
anywhere, `compareOffsets` with its difference taken for an int, and a `qsort` that
promises order only if the comparison is one. In `Capture` the loop over the numbers
between `begin` and `end` is `EndOfFile`, one `Spell` for each number and `MakeFlag`.

### What is checked

In the run `labs`: four kinds of datagrams, five of them sent, and the file looked at after four (`MessageRight`); a flag
handed in at the third datagram, with three places in the socket's queue (`VerifyEnds`); data of up to six
bits, eight values for an offset (`Half` is 4) and one damaged block (`FlagRight`).
Five datagrams of four kinds leave room for one to come twice, for one to be missing and for every order.
`MessageRight` says of every file what comes out: the letters that were in it, each at its place. That the file has all the
datagrams when it is read (the comment at `src/lab1/part2-3.c:143` says "文件有足夠數據") is not so: `minimum_file_size` is 1, which
the header alone exceeds, so a file with no datagram is among the behaviours.
Offsets up to 4 of these eight are near enough for the comparison, and too far apart for it, in different files of the run:
`PutTogether` has that as its condition (`Near`).
`EndsUnlessAllLost` has the two ways not to end: `hello`, the id or `chals` was lost (`StartLost`), or each flag or its verdict was. It assumes that the program runs, that numbered datagrams keep coming (the count
depends on them), and, strongly, that the referee judges a flag it can judge: a verdict may find the
socket's queue full again and again.

### Proofs

In `Labs_proofs`, for any numbers of datagrams, data of any size and any number of damaged blocks:

* `MessageTakenRight` and `LabsMessageRight`: `MessageRight`. The parts of it are inductive one after the other. `FoundIsSet` is why order
  and repetition do not matter: after any number of packets, the lengths and `begin` and `end` are a function of the *set* of numbers that were read.
  From then on that set is fixed, and `FlagIsMessage` and `PrintsInOrder` go through the numbers the
  loop has been at (`Reached`).
* `FlagTakenRight` and `LabsFlagRight`: `FlagRight`. A bit turned over changes the sum of one of the two checksums, so the array never has
  a damaged block (`KeepsIntact`). If no offset is `Half` or more from another, the difference taken for an int has the sign of the
  difference, so the comparison orders the blocks and what `qsort` returns is in the order of the offsets (`InOrder`). `Copying` counts:
  `currentOffset` is the cardinality of the places of the blocks copied, which do not overlap, so there is room for the next
  block even if they are in a wrong order or some are missing; and in the right order with none missing each block begins where the last one ended, which
  gives `PutTogether`. `Answers` carries it to the flag.

`VerifyFlag` is checked for `VerifyEnds` only, which is liveness.

## 11. Exploring an unknown maze: `Explore`

### Correspondence with the code

`4code.c` sees only the cells around the player. `Look` is one turn of its loop
up to the search: the view is copied to `maze` at the row the referee's label
gives and the column `c` the client has reckoned. `findPath` is as in `FindPath`
but has `visit` for its marks, looks for an unseen cell or for the exit, and
stops before the unseen cell. `SendPath`, `SearchOn`, `SendNothing` and `GoRound` are what main does
with the result; `Obey` and `Answer` are the referee; `Reckon` is the loop over the letters sent
(lines 336-343). `shift`, the column of `maze` that stands for column 0 of the referee's, is in no program.
A view that comes in more than one segment is not modelled here.

### What is checked

In the run `labs`: every maze with an inside of 2 by 4, every start and exit, seen
through a view of 3 by 3: so the exit can be out of sight, walls hide
what is behind, and the map grows to both sides. The core of `ExploreInv` is `KnownIsTrue`, by which each
cell on the map is what is there; it depends on the reckoning (`Located`), which depends on
`WalkIsOpen`, since a letter that runs into a wall would be counted.
`ReachesExit` compares with reachability by closed sets: if there is a way the client neither gives up nor
walks for ever. It assumes `WF` of the next step: program and referee go on.

### Proofs

`MapStaysRight` and `LabsMapStaysRight` of `Labs_proofs` prove `ExploreInv` for mazes and views of any size for which `maze` has
the columns (`SizeAssumption`). It is its own inductive invariant, and none of its parts is without the others: the view is copied to the right
place because the reckoning is right (`Located`); what is copied is what is there (`KnownIsTrue`, with `AroundPlayer` for the cells
next to the player); the search goes only through cells known to be open (`Trail`) and `currentPath` spells its way
(`PathSpellsTrail`), so that the referee obeys every letter that is sent (`WalkIsOpen`);
and hence the count of the letters is again where the player is.

## 12. The run `labs`: `MCLabs`

The programs of sections 9 to 11 and `UrlCodec` are small and have nothing to do with each
other. `MCLabs` extends their modules; its variable `running` picks one of them in
the first state, and only that one takes steps, under the fairness its own
specification (`ExploreSpec`, `OtpSpec` and so on) states. The others' variables keep the values of one fixed first state.
The three readers of segments share `stream` and `buffer`, so their
invariants are stated for the program that runs (`MazeRight`, `RoomRight`,
`OtpRight`), and so are the liveness properties, since a program that does not run
does not go on (`ExplorerGetsOut`, `OtpFinishes`, `VerifyEnds`, `MetersEnd`). Nothing is composed
here: each behaviour is a behaviour of one program. The theorems about `LabsSpec` state the invariants of the run as
it checks them; each rests on the lemmas of the theorem about the program alone. `UrlCodec` is
the exception, of which `HttpServer_proofs` has the theorems about `CodecSpec` only. `CHECK_DEADLOCK FALSE`: they end, or wait for ever.

## 13. What is only model-checked

* All liveness: `ClientStops`, `Completes`, the `SearchEnds` of two modules, `SurveyEnds`, `Served`,
  `OtpFinishes`, `VerifyEnds`, `MetersEnd`, `ExplorerGetsOut`. It depends on fairness, and so does
  `ServesAsFlat`, whose abstract specification states it.
  The prover has neither fairness nor ENABLED within its reach.
* `VerifyFlag` and `Bandwidth`: what can go wrong in them is that they wait for ever, so liveness is all that is checked of them.
* With several files, what a finished file contains. `DiskSound` is proved for them; that such a file is
  the source is not so (`stale_chunk`).

## 14. What is not modelled

Every program has a module. Left out of them, besides what each section says:

* `get_content_type`, the dates and the text of headers (hw1), the text of the requests (lab4),
  times and the division that gives the bandwidth (lab5), the digits in the bytes of a datagram
  (lab1), the sending of the queens (lab7): formatting and arithmetic without state.
* A write past `userlist` when it is full, past `buffer` by one when a read fills
  it, past `otp`: what it does is up to the layout of memory. The hazards in `PROJECT.json` name each.
* In the chat server, a command that is cut into two segments.
* TLS (`port_https` in hw1 is set and never used).
