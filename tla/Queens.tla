------------------------------- MODULE Queens -------------------------------
(***************************************************************************)
(* lab7/sol.c: completing a board on which the referee has placed Known    *)
(* queens.  putQueen is recursive; here its calls are the frames of a      *)
(* stack, each with the row of the call and the place in order of the      *)
(* column it is trying.  grid is the set of squares that hold a 'Q'.       *)
(***************************************************************************)
EXTENDS Integers, Sequences, FiniteSets

CONSTANTS
  N,        \* GRID_SIZE (30)
  Known,    \* main calls putQueen(3, 0): the queens it takes to be there
  order     \* the order in which columns are tried

Row    == 0..N-1
Col    == 0..N-1
Square == Row \X Col
Diag   == 0..2*N-1

ASSUME SizeAssumption  == N \in Nat /\ Known \in 0..N
ASSUME OrderAssumption ==
  /\ order \in [1..N -> Col]
  /\ \A y \in Col : \E j \in 1..N : order[j] = y

VARIABLES
  given,                      \* history: what the referee's board had
  grid, canx, cany, canp, canm,
  stack,                      \* the calls of putQueen, the innermost last
  mode, res                   \* where the innermost call is, what it returned

board == <<grid, canx, cany, canp, canm>>
vars  == <<given, board, stack, mode, res>>

Frame == [x : Row, j : 1..N]

TypeOK ==
  /\ given \subseteq Square /\ grid \subseteq Square
  /\ canx \in [Row -> {0, 1}] /\ cany \in [Col -> {0, 1}]
  /\ canp \in [Diag -> {0, 1}] /\ canm \in [Diag -> {0, 1}]
  /\ stack \in Seq(Frame)
  /\ mode \in {"call", "return", "retry"}
  /\ res \in BOOLEAN

-----------------------------------------------------------------------------
Attacks(p, q) ==
  /\ p # q
  /\ \/ p[1] = q[1] \/ p[2] = q[2]
     \/ p[1] + p[2] = q[1] + q[2] \/ p[1] - p[2] = q[1] - q[2]
Peaceful(queens) == \A p, q \in queens : ~Attacks(p, q)

\* Mutant: the falling diagonal is not released.
setcanPartly(x, y, value) ==
  /\ canx' = [canx EXCEPT ![x] = value] /\ cany' = [cany EXCEPT ![y] = value]
  /\ canp' = [canp EXCEPT ![x + y] = value]
  /\ canm' = [canm EXCEPT ![x - y + N] = 0]
setcan(x, y, value) ==
  /\ canx' = [canx EXCEPT ![x] = value] /\ cany' = [cany EXCEPT ![y] = value]
  /\ canp' = [canp EXCEPT ![x + y] = value]
  /\ canm' = [canm EXCEPT ![x - y + N] = value]

check_ok(x, y)  == cany[y] = 1 /\ canp[x + y] = 1 /\ canm[x - y + N] = 1

\* processResponse: the board and what it rules out.  A reply without a board
\* leaves the grid empty and nothing ruled out.
processResponse(queens) ==
  /\ grid = queens
  /\ canx = [x \in Row |-> IF \E q \in queens : q[1] = x THEN 0 ELSE 1]
  /\ cany = [y \in Col |-> IF \E q \in queens : q[2] = y THEN 0 ELSE 1]
  /\ canp = [d \in Diag |-> IF \E q \in queens : q[1] + q[2] = d THEN 0 ELSE 1]
  /\ canm = [d \in Diag |-> IF \E q \in queens : q[1] - q[2] + N = d THEN 0 ELSE 1]

-----------------------------------------------------------------------------
\* putQueen

Depth    == Len(stack)
Top      == stack[Depth]
queenNum == Known + Depth

\* The row a call works on: the first without a queen.
FirstFree(x) == canx[x] = 1 /\ \A w \in 0..x-1 : canx[w] = 0

\* Mutant: the column before is tried again, the next one is skipped.
SkipsOne(x, j, from) ==
  j > from + 1 /\ check_ok(x, order[j]) /\ \A k \in from+2..j-1 : ~check_ok(x, order[k])
\* Mutant: the column that has failed is tried again.
TriesAgain(x, j, from) ==
  j >= from /\ check_ok(x, order[j]) /\ \A k \in 1..j-1 : k >= from => ~check_ok(x, order[k])
\* The next column that is free, after the place from in the order.
NextFree(x, j, from) ==
  j > from /\ check_ok(x, order[j]) /\ \A k \in from+1..j-1 : ~check_ok(x, order[k])

\* A queen is placed and putQueen called for the next one.
Place(x, j, callers) ==
  /\ grid' = grid \union {<<x, order[j]>>}
  /\ setcan(x, order[j], 0)
  /\ stack' = Append(callers, [x |-> x, j |-> j])
  /\ mode' = "call" /\ UNCHANGED <<given, res>>

\* Mutant: one queen too few.
Nearly == queenNum >= N - 1
Enough == queenNum >= N

\* All queens are there.
ReturnTrue ==
  /\ mode = "call" /\ Enough
  /\ mode' = "return" /\ res' = TRUE
  /\ UNCHANGED <<given, board, stack>>

\* The first free row and its first free column.
Descend ==
  /\ mode = "call" /\ ~Enough
  /\ \E x \in Row, j \in 1..N :
       FirstFree(x) /\ NextFree(x, j, 0) /\ Place(x, j, stack)

\* No row, or no column of the row, is free.
ReturnFalse ==
  /\ mode = "call" /\ ~Enough
  /\ \A x \in Row, j \in 1..N : ~(FirstFree(x) /\ NextFree(x, j, 0))
  /\ mode' = "return" /\ res' = FALSE
  /\ UNCHANGED <<given, board, stack>>

\* The call made for the top frame has failed and its queen is taken back.
Undo ==
  /\ mode = "return" /\ ~res /\ stack # <<>>
  /\ grid' = grid \ {<<Top.x, order[Top.j]>>}
  /\ setcan(Top.x, order[Top.j], 1)
  /\ mode' = "retry"
  /\ UNCHANGED <<given, stack, res>>

Callers == SubSeq(stack, 1, Depth - 1)

\* The loop goes on with the next free column of the row ...
Retry ==
  /\ mode = "retry"
  /\ \E j \in 1..N : NextFree(Top.x, j, Top.j) /\ Place(Top.x, j, Callers)

\* ... or ends, and the call fails too.
Exhausted ==
  /\ mode = "retry"
  /\ \A j \in 1..N : ~NextFree(Top.x, j, Top.j)
  /\ stack' = Callers
  /\ mode' = "return"
  /\ UNCHANGED <<given, board, res>>

-----------------------------------------------------------------------------
\* The referee sends Known queens that do not attack each other, or an answer
\* in which processResponse finds no board.
Openings ==
  {queens \in {{q[i] : i \in 1..Known} : q \in [1..Known -> Square]} :
     Cardinality(queens) = Known /\ Peaceful(queens)}

Init ==
  /\ given \in Openings \union {{}}
  /\ processResponse(given)
  /\ stack = <<>> /\ mode = "call" /\ res = FALSE

Next == ReturnTrue \/ Descend \/ ReturnFalse \/ Undo \/ Retry \/ Exhausted

Spec     == Init /\ [][Next]_vars
FairSpec == Spec /\ WF_vars(Next)

-----------------------------------------------------------------------------
Returned == mode = "return" /\ (res \/ stack = <<>>)

\* The calls that have a queen on the board, and its square.
Held  == IF mode = "retry" THEN Depth - 1 ELSE Depth
At(i) == <<stack[i].x, order[stack[i].j]>>

\* No two queens ever attack each other, and the board has the referee's queens
\* and those of the calls under way, no matter how often queens have been
\* placed and taken back.
BoardSound == Peaceful(grid) /\ grid = given \union {At(i) : i \in 1..Held}

\* The four arrays say of each line of the board whether a queen is on it: what
\* taking a queen back releases was held by that queen alone.
CanMatchesGrid ==
  /\ \A x \in Row : canx[x] = 0 <=> \E q \in grid : q[1] = x
  /\ \A y \in Col : cany[y] = 0 <=> \E q \in grid : q[2] = y
  /\ \A d \in Diag : canp[d] = 0 <=> \E q \in grid : q[1] + q[2] = d
  /\ \A d \in Diag : canm[d] = 0 <=> \E q \in grid : q[1] - q[2] + N = d

\* Each queen a call has placed is its own, so taking it back takes nobody
\* else's; TRUE is returned only with enough queens, of which the referee gave no
\* more than main counts.
OwnQueens ==
  /\ \A i \in 1..Held : At(i) \notin given
  /\ \A i, k \in 1..Held : At(i) = At(k) => i = k
  /\ mode = "retry" => stack # <<>> /\ canx[Top.x] = 1
  /\ res => mode = "return" /\ Enough
  /\ Cardinality(given) <= Known

\* One queen in each row, none attacking another; and the squares that are part
\* of such a board.
Solutions == {queens \in {{<<x, column[x]>> : x \in Row} : column \in [Row -> Col]} :
                Peaceful(queens)}
Completable(queens) == \E solution \in Solutions : queens \subseteq solution

\* The innermost call has failed with the column it was trying.
Failed == mode = "retry" \/ (mode = "return" /\ ~res)

\* The board of the calls before the i-th, and with that one's queen in order[j].
Branch(i, j) == given \union {At(k) : k \in 1..i-1} \union {<<stack[i].x, order[j]>>}

\* No solution is passed over: one that holds the referee's queens can still be
\* reached, from the board as it is or with a later column of some call under way.
NothingSkipped ==
  Completable(given) =>
    \/ ~Failed /\ Completable(grid)
    \/ \E i \in 1..Depth, j \in 1..N : j > stack[i].j /\ Completable(Branch(i, j))

\* What the board, the arrays and the calls owe each other, in every state of
\* the search: none of the parts survives a step without the others.
IInv == TypeOK /\ BoardSound /\ CanMatchesGrid /\ OwnQueens /\ NothingSkipped

\* TRUE means there is a queen in every row, but for as many rows as the referee's
\* board had queens less than main takes for granted: none if it was read.
EmptyRows == {x \in Row : \A q \in grid : q[1] # x}
TrueIsSolved == res => Cardinality(EmptyRows) <= Known - Cardinality(given)

\* FALSE for the whole search means that no solution contains the referee's
\* queens, and the board is as it was: no column is skipped on the way back.
FalseIsHopeless ==
  Returned /\ ~res => grid = given /\ ~Completable(given)

\* The search ends, although it goes back and forth over the same squares.
SearchEnds == <>Returned
=============================================================================
