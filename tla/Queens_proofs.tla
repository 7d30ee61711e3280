---------------------------- MODULE Queens_proofs ----------------------------
(***************************************************************************)
(* The board of the queen search is sound in every state, for boards of    *)
(* any size, any order of columns and any position the referee starts      *)
(* from; and TRUE is returned only for a full board.                       *)
(***************************************************************************)
EXTENDS Queens, FiniteSetTheorems, SequenceFacts

\* IInv without what is said of the solutions.
BoardInv == TypeOK /\ BoardSound /\ CanMatchesGrid /\ OwnQueens

\* The index of a diagonal is within the arrays.
LEMMA Lines ==
  ASSUME NEW x \in Row, NEW y \in Col
  PROVE  x + y \in Diag /\ x - y + N \in Diag
BY SizeAssumption DEF Row, Col, Diag

\* A square whose row and column are free and that check_ok accepts can take a
\* queen: no queen attacks it, and the arrays then say what the grid says.
LEMMA PlaceSound ==
  ASSUME TypeOK, Peaceful(grid), CanMatchesGrid,
         NEW x \in Row, NEW y \in Col,
         canx[x] = 1, check_ok(x, y),
         grid' = grid \union {<<x, y>>}, setcan(x, y, 0)
  PROVE  Peaceful(grid)' /\ CanMatchesGrid' /\ <<x, y>> \notin grid
<1> DEFINE s == <<x, y>>
<1>0. s \in Square /\ s[1] = x /\ s[2] = y /\ grid \subseteq Square
  BY DEF Square, TypeOK
<1>1. \A q \in grid : /\ q[1] # x /\ q[2] # y
                      /\ q[1] + q[2] # x + y /\ q[1] - q[2] + N # x - y + N
  BY Lines DEF CanMatchesGrid, check_ok
<1>2. \A q \in grid : q[1] \in Int /\ q[2] \in Int
  BY SizeAssumption DEF TypeOK, Square, Row, Col
<1>3. \A q \in grid : ~Attacks(s, q) /\ ~Attacks(q, s)
  <2> SUFFICES ASSUME NEW q \in grid PROVE ~Attacks(s, q) /\ ~Attacks(q, s)
    OBVIOUS
  <2>1. q[1] - q[2] # x - y
    BY <1>1, <1>2, SizeAssumption DEF Row, Col
  <2> QED BY <1>0, <1>1, <2>1 DEF Attacks
<1>4. Peaceful(grid)'
  <2> SUFFICES ASSUME NEW p \in grid', NEW q \in grid' PROVE ~Attacks(p, q)
    BY DEF Peaceful, Attacks
  <2>1. CASE p \in grid /\ q \in grid
    BY <2>1 DEF Peaceful
  <2>2. CASE p = s \/ q = s
    BY <2>2, <1>3 DEF Attacks
  <2> QED BY <2>1, <2>2
<1>5. CanMatchesGrid'
  <2> USE <1>0, <1>1 DEF TypeOK, setcan
  <2>1. (\A u \in Row : canx[u] = 0 <=> \E q \in grid : q[1] = u)'
    BY DEF CanMatchesGrid
  <2>2. (\A v \in Col : cany[v] = 0 <=> \E q \in grid : q[2] = v)'
    BY DEF CanMatchesGrid
  <2>3. (\A d \in Diag : canp[d] = 0 <=> \E q \in grid : q[1] + q[2] = d)'
    BY Lines DEF CanMatchesGrid
  <2>4. (\A d \in Diag : canm[d] = 0 <=> \E q \in grid : q[1] - q[2] + N = d)'
    BY Lines DEF CanMatchesGrid
  <2> QED BY <2>1, <2>2, <2>3, <2>4 DEF CanMatchesGrid
<1> QED BY <1>0, <1>1, <1>4, <1>5

\* Taking a queen off the board releases its lines and no other: no second
\* queen was on them.
LEMMA RemoveSound ==
  ASSUME TypeOK, Peaceful(grid), CanMatchesGrid,
         NEW x \in Row, NEW y \in Col, <<x, y>> \in grid,
         grid' = grid \ {<<x, y>>}, setcan(x, y, 1)
  PROVE  Peaceful(grid)' /\ CanMatchesGrid'
<1> DEFINE s == <<x, y>>
<1>0. s \in Square /\ s[1] = x /\ s[2] = y /\ grid \subseteq Square
  BY DEF Square, TypeOK
<1>1. \A q \in grid' : /\ q \in grid /\ q # s
                       /\ q[1] # x /\ q[2] # y /\ q[1] + q[2] # x + y
                       /\ q[1] - q[2] # x - y
  BY <1>0 DEF Peaceful, Attacks
<1>2. \A q \in grid : q[1] \in Int /\ q[2] \in Int
  BY SizeAssumption DEF TypeOK, Square, Row, Col
<1>3. Peaceful(grid)'
  BY <1>1 DEF Peaceful, Attacks
<1>4. \A q \in grid' : q[1] - q[2] + N # x - y + N
  BY <1>1, <1>2, SizeAssumption DEF Row, Col
<1>5. CanMatchesGrid'
  <2> USE <1>0, <1>1, <1>4 DEF TypeOK, setcan
  <2>1. (\A u \in Row : canx[u] = 0 <=> \E q \in grid : q[1] = u)'
    BY DEF CanMatchesGrid
  <2>2. (\A v \in Col : cany[v] = 0 <=> \E q \in grid : q[2] = v)'
    BY DEF CanMatchesGrid
  <2>3. (\A d \in Diag : canp[d] = 0 <=> \E q \in grid : q[1] + q[2] = d)'
    BY Lines DEF CanMatchesGrid
  <2>4. (\A d \in Diag : canm[d] = 0 <=> \E q \in grid : q[1] - q[2] + N = d)'
    BY Lines DEF CanMatchesGrid
  <2> QED BY <2>1, <2>2, <2>3, <2>4 DEF CanMatchesGrid
<1> QED BY <1>3, <1>5

-----------------------------------------------------------------------------
\* Placing a queen, from the first call of a row or from a later turn of its
\* loop: callers are the calls whose queens are on the board.
LEMMA PlaceKeepsBoard ==
  ASSUME BoardInv, NEW callers \in Seq(Frame), Len(callers) = Held,
         \A i \in 1..Held : callers[i] = stack[i],
         NEW x \in Row, NEW j \in 1..N,
         canx[x] = 1, check_ok(x, order[j]), ~res,
         Place(x, j, callers)
  PROVE  BoardInv'
<1> DEFINE y == order[j]
           s == <<x, y>>
           frame == [x |-> x, j |-> j]
<1>0. y \in Col /\ s \in Square /\ frame \in Frame
  BY OrderAssumption DEF Square, Frame
<1>1. Peaceful(grid)' /\ CanMatchesGrid' /\ s \notin grid
  <2>1. /\ TypeOK /\ Peaceful(grid) /\ CanMatchesGrid
        /\ grid' = grid \union {s} /\ setcan(x, y, 0)
    BY DEF BoardInv, BoardSound, Place
  <2> QED BY <1>0, <2>1, PlaceSound
<1>2. TypeOK'
  <2>1. given' = given /\ res' = res /\ mode' = "call" /\ stack' = Append(callers, frame)
        /\ grid' = grid \union {s} /\ setcan(x, y, 0)
    BY DEF Place
  <2>2. (canx \in [Row -> {0, 1}] /\ cany \in [Col -> {0, 1}])'
    BY <2>1 DEF BoardInv, TypeOK, setcan
  <2>3. (canp \in [Diag -> {0, 1}] /\ canm \in [Diag -> {0, 1}])'
    BY <2>1 DEF BoardInv, TypeOK, setcan
  <2>4. stack' \in Seq(Frame)
    BY <1>0, <2>1
  <2> QED BY <1>0, <2>1, <2>2, <2>3, <2>4 DEF BoardInv, TypeOK
<1>h. PICK h \in Nat : h = Held
  BY DEF BoardInv, Depth
<1>3. /\ mode' = "call" /\ Held' = h + 1
      /\ At(h + 1)' = s
      /\ \A i \in 1..h : At(i)' = At(i)
  <2>1. stack' = Append(callers, frame) /\ mode' = "call"
    BY DEF Place
  <2>2. Len(stack') = h + 1
    BY <2>1, <1>0, <1>h
  <2>3. stack'[h + 1] = frame /\ \A i \in 1..h : stack'[i] = stack[i]
    BY <2>1, <2>2, <1>0, <1>h
  <2>4. Held' = h + 1
    BY <2>1, <2>2 DEF Depth, Held
  <2>5. At(h + 1)' = s
    BY <2>3 DEF At
  <2>6. \A i \in 1..h : At(i)' = At(i)
    BY <2>3 DEF At
  <2> QED BY <2>1, <2>4, <2>5, <2>6
<1>4. BoardSound'
  <2>1. given' = given /\ grid' = grid \union {s}
    BY DEF Place
  <2>2. {At(i) : i \in 1..Held}' = {At(i) : i \in 1..Held} \union {s}
    <3>1. 1..(h + 1) = 1..h \union {h + 1}
      OBVIOUS
    <3>2. {At(i) : i \in 1..Held}' = {At(i)' : i \in 1..(h + 1)}
      BY <1>3
    <3> QED BY <3>1, <3>2, <1>3, <1>h
  <2> QED BY <1>1, <2>1, <2>2 DEF BoardInv, BoardSound
<1>5. OwnQueens'
  <2>0. given' = given /\ res' = res /\ ~res
    BY DEF Place
  <2>1. \A i \in 1..h : At(i) \in grid /\ At(i) \notin given
    BY <1>h DEF BoardInv, BoardSound, OwnQueens
  <2>2. s \notin given
    BY <1>1 DEF BoardInv, BoardSound
  <2>3. \A i \in 1..(h + 1) : i \in 1..h \/ i = h + 1
    OBVIOUS
  <2>4. (\A i \in 1..Held : At(i) \notin given)'
    <3>1. \A i \in 1..(h + 1) : At(i)' \notin given
      BY <1>3, <2>1, <2>2, <2>3
    <3> QED BY <1>3, <2>0, <3>1
  <2>5. (\A i, k \in 1..Held : At(i) = At(k) => i = k)'
    <3>1. \A i, k \in 1..h : At(i) = At(k) => i = k
      BY <1>h DEF BoardInv, OwnQueens
    <3>2. \A i \in 1..h : At(i)' # s
      BY <1>1, <1>3, <2>1
    <3>3. \A i, k \in 1..(h + 1) : At(i)' = At(k)' => i = k
      BY <1>3, <2>3, <3>1, <3>2
    <3> QED BY <1>3, <3>3
  <2>6. (Cardinality(given) <= Known)'
    BY <2>0 DEF BoardInv, OwnQueens
  <2> QED BY <1>3, <2>0, <2>4, <2>5, <2>6 DEF OwnQueens
<1> QED BY <1>1, <1>2, <1>4, <1>5 DEF BoardInv

LEMMA InitBoard == Init => BoardInv
<1> SUFFICES ASSUME Init PROVE BoardInv
  OBVIOUS
<1>1. given \subseteq Square /\ Peaceful(given)
  <2>1. CASE given \in Openings
    <3>1. PICK q \in [1..Known -> Square] : given = {q[i] : i \in 1..Known}
      BY <2>1 DEF Openings
    <3> QED BY <2>1, <3>1 DEF Openings
  <2>2. CASE given = {}
    BY <2>2 DEF Peaceful
  <2> QED BY <2>1, <2>2 DEF Init
<1>2. TypeOK /\ grid = given
  <2>1. grid = given /\ stack = <<>> /\ mode = "call" /\ res = FALSE
    BY DEF Init, processResponse
  <2>2. canx \in [Row -> {0, 1}] /\ cany \in [Col -> {0, 1}]
    BY DEF Init, processResponse
  <2>3. canp \in [Diag -> {0, 1}] /\ canm \in [Diag -> {0, 1}]
    BY DEF Init, processResponse
  <2>4. stack \in Seq(Frame)
    BY <2>1
  <2> QED BY <1>1, <2>1, <2>2, <2>3, <2>4 DEF TypeOK
<1>3. Depth = 0 /\ Held = 0
  BY DEF Init, Depth, Held
<1>4. BoardSound
  BY <1>1, <1>2, <1>3 DEF BoardSound
<1>5. CanMatchesGrid
  BY DEF Init, processResponse, CanMatchesGrid
<1>6. OwnQueens
  <2>1. Cardinality(given) <= Known
    <3>1. CASE given \in Openings
      BY <3>1, SizeAssumption DEF Openings
    <3>2. CASE given = {}
      BY <3>2, FS_EmptySet, SizeAssumption
    <3> QED BY <3>1, <3>2 DEF Init
  <2> QED BY <1>3, <2>1 DEF Init, OwnQueens
<1> QED BY <1>2, <1>4, <1>5, <1>6 DEF BoardInv

\* Each step of the search keeps the invariant.
LEMMA NextBoard == BoardInv /\ [Next]_vars => BoardInv'
<1> SUFFICES ASSUME BoardInv, [Next]_vars PROVE BoardInv'
  OBVIOUS
<1>0. Depth \in Nat /\ stack \in Seq(Frame)
  BY DEF BoardInv, TypeOK, Depth
<1>1. CASE UNCHANGED vars
  <2>1. UNCHANGED <<given, grid, canx, cany, canp, canm, stack, mode, res>>
    BY <1>1 DEF vars, board
  <2>2. /\ Depth' = Depth /\ Held' = Held /\ Top' = Top /\ Enough' = Enough
        /\ \A i : At(i)' = At(i)
    BY <2>1 DEF Depth, Held, At, Top, Enough, queenNum
  <2>3. TypeOK' /\ CanMatchesGrid'
    BY <2>1 DEF BoardInv, TypeOK, CanMatchesGrid
  <2>4. BoardSound'
    BY <2>1, <2>2 DEF BoardInv, BoardSound, Peaceful
  <2>5. OwnQueens'
    BY <2>1, <2>2 DEF BoardInv, OwnQueens
  <2> QED BY <2>3, <2>4, <2>5 DEF BoardInv
<1>2. CASE ReturnTrue \/ ReturnFalse
  <2>1. UNCHANGED <<given, grid, canx, cany, canp, canm, stack>>
        /\ mode = "call" /\ mode' = "return" /\ res' \in BOOLEAN /\ (res' => Enough)
    BY <1>2 DEF ReturnTrue, ReturnFalse, board
  <2>2. Depth' = Depth /\ Held' = Held /\ (Enough' <=> Enough)
        /\ \A i : At(i)' = At(i)
    BY <2>1 DEF Depth, Held, At, Enough, queenNum
  <2>3. TypeOK' /\ CanMatchesGrid'
    BY <2>1 DEF BoardInv, TypeOK, CanMatchesGrid
  <2>4. BoardSound'
    BY <2>1, <2>2 DEF BoardInv, BoardSound, Peaceful
  <2>5. OwnQueens'
    BY <2>1, <2>2 DEF BoardInv, OwnQueens
  <2> QED BY <2>3, <2>4, <2>5 DEF BoardInv
<1>3. CASE Descend
  <2>1. PICK x \in Row, j \in 1..N :
          FirstFree(x) /\ NextFree(x, j, 0) /\ Place(x, j, stack)
    BY <1>3 DEF Descend
  <2>2. Held = Len(stack) /\ ~res
    BY <1>3 DEF Descend, Held, Depth, BoardInv, OwnQueens
  <2> QED BY <1>0, <2>1, <2>2, PlaceKeepsBoard DEF FirstFree, NextFree
<1>4. CASE Retry
  <2>1. PICK j \in 1..N : NextFree(Top.x, j, Top.j) /\ Place(Top.x, j, Callers)
    BY <1>4 DEF Retry
  <2>2. /\ mode = "retry" /\ stack # <<>> /\ canx[Top.x] = 1 /\ ~res
        /\ Held = Depth - 1
    BY <1>4 DEF Retry, BoardInv, OwnQueens, Held
  <2>3. Depth \in Nat \ {0} /\ Top \in Frame
    BY <1>0, <2>2 DEF Depth, Top
  <2>4. /\ Callers \in Seq(Frame) /\ Len(Callers) = Held
        /\ \A i \in 1..Held : Callers[i] = stack[i]
    BY <1>0, <2>2, <2>3 DEF Callers, Depth
  <2>5. Top.x \in Row
    BY <2>3 DEF Frame
  <2> QED BY <2>1, <2>2, <2>4, <2>5, PlaceKeepsBoard DEF NextFree
<1>5. CASE Undo
  <2>1. /\ mode = "return" /\ ~res /\ stack # <<>> /\ mode' = "retry"
        /\ UNCHANGED <<given, stack, res>>
        /\ grid' = grid \ {At(Depth)}
        /\ setcan(Top.x, order[Top.j], 1)
    BY <1>5 DEF Undo, At, Top
  <2>2. Depth \in Nat \ {0} /\ Top \in Frame
    BY <1>0, <2>1 DEF Depth, Top
  <2>3. Top.x \in Row /\ Top.j \in 1..N /\ order[Top.j] \in Col
    BY <2>2, OrderAssumption DEF Frame
  <2>4. /\ Held = Depth /\ Depth' = Depth /\ Held' = Depth - 1
        /\ At(Depth) = <<Top.x, order[Top.j]>>
        /\ \A i : At(i)' = At(i)
    BY <2>1 DEF Held, Depth, At, Top
  <2>5. At(Depth) \in grid /\ At(Depth) \notin given
        /\ \A i \in 1..Depth-1 : At(i) # At(Depth)
    BY <2>2, <2>4 DEF BoardInv, BoardSound, OwnQueens
  <2>6. Peaceful(grid)' /\ CanMatchesGrid'
    BY <2>1, <2>3, <2>4, <2>5, RemoveSound DEF BoardInv, BoardSound
  <2>7. TypeOK'
    BY <2>1, <2>3, Lines, SizeAssumption DEF BoardInv, TypeOK, setcan
  <2>8. BoardSound'
    <3>1. {At(i) : i \in 1..Held}' = {At(i) : i \in 1..Depth-1}
      BY <2>4
    <3>2. {At(i) : i \in 1..Depth} = {At(i) : i \in 1..Depth-1} \union {At(Depth)}
      BY <2>2
    <3> QED BY <2>1, <2>4, <2>5, <2>6, <3>1, <3>2 DEF BoardInv, BoardSound
  <2>9. OwnQueens'
    <3>1. canx'[Top.x] = 1 /\ Top' = Top
      BY <2>1, <2>3, <2>4 DEF BoardInv, TypeOK, setcan, Top
    <3> QED BY <2>1, <2>2, <2>4, <3>1 DEF BoardInv, OwnQueens
  <2> QED BY <2>6, <2>7, <2>8, <2>9 DEF BoardInv
<1>6. CASE Exhausted
  <2>1. /\ mode = "retry" /\ mode' = "return" /\ stack' = Callers /\ ~res
        /\ UNCHANGED <<given, grid, canx, cany, canp, canm, res>> /\ stack # <<>>
    BY <1>6 DEF Exhausted, board, BoardInv, OwnQueens
  <2>2. Depth \in Nat \ {0}
    BY <1>0, <2>1 DEF Depth
  <2>3. /\ stack' \in Seq(Frame) /\ Depth' = Depth - 1
        /\ Held = Depth - 1 /\ Held' = Held
        /\ \A i \in 1..Held : At(i)' = At(i)
    <3>1. stack' \in Seq(Frame) /\ Len(stack') = Len(stack) - 1
          /\ \A i \in 1..Depth-1 : stack'[i] = stack[i]
      <4>1. /\ Callers \in Seq(Frame) /\ Len(Callers) = Len(stack) - 1
            /\ \A i \in 1..Depth-1 : Callers[i] = stack[i]
        <5>1. Callers = SubSeq(stack, 1, Depth - 1) /\ Depth = Len(stack)
          BY DEF Callers, Depth
        <5>2. Callers = [i \in 1..Depth-1 |-> stack[i]] /\ Callers \in Seq(Frame)
          BY <1>0, <2>2, <5>1
        <5> QED BY <2>2, <5>1, <5>2
      <4> QED BY <2>1, <4>1
    <3> QED BY <2>1, <3>1 DEF Depth, Held, At
  <2>4. TypeOK' /\ CanMatchesGrid'
    BY <2>1, <2>3 DEF BoardInv, TypeOK, CanMatchesGrid
  <2>5. BoardSound'
    BY <2>1, <2>3 DEF BoardInv, BoardSound, Peaceful
  <2>6. OwnQueens'
    BY <2>1, <2>3 DEF BoardInv, OwnQueens
  <2> QED BY <2>4, <2>5, <2>6 DEF BoardInv
<1> QED BY <1>1, <1>2, <1>3, <1>4, <1>5, <1>6 DEF Next

-----------------------------------------------------------------------------
\* No solution is passed over.

\* If a column after the place from is free, the loop stops at one.
LEMMA ColumnFound ==
  ASSUME NEW x, NEW from \in Nat, NEW p \in 1..N, p > from, check_ok(x, order[p])
  PROVE  \E j \in 1..N : NextFree(x, j, from)
<1> DEFINE S == {k \in 1..N : k > from /\ check_ok(x, order[k])}
<1>1. S \subseteq Nat /\ p \in S
  BY SizeAssumption
<1>2. PICK j \in S : \A k \in S : j <= k
  BY <1>1, LeastOf
<1>3. \A k \in from+1..j-1 : k \in 1..N /\ k > from /\ ~(j <= k)
  BY <1>2, SizeAssumption
<1>4. NextFree(x, j, from)
  BY <1>2, <1>3 DEF NextFree
<1> QED BY <1>2, <1>4

\* The column in which a solution has its queen is one that check_ok accepts.
LEMMA SolutionFits ==
  ASSUME TypeOK, CanMatchesGrid, NEW x \in Row, NEW y \in Col, canx[x] = 1,
         Completable(grid \union {<<x, y>>})
  PROVE  check_ok(x, y)
<1> DEFINE s == <<x, y>>
<1>1. PICK solution \in Solutions : grid \union {s} \subseteq solution
  BY DEF Completable
<1>2. \A q \in grid : ~Attacks(s, q)
  BY <1>1 DEF Solutions, Peaceful
<1>3. \A q \in grid : q[1] # x /\ q[1] \in Int /\ q[2] \in Int
  BY SizeAssumption DEF CanMatchesGrid, TypeOK, Square, Row, Col
<1>4. \A q \in grid : /\ q[2] # y /\ q[1] + q[2] # x + y /\ q[1] - q[2] # x - y
  BY <1>2, <1>3 DEF Attacks
<1>5. \A q \in grid : q[1] - q[2] + N # x - y + N
  BY <1>3, <1>4, SizeAssumption DEF Row, Col
<1>6. cany[y] # 0 /\ canp[x + y] # 0 /\ canm[x - y + N] # 0
  BY <1>4, <1>5, Lines DEF CanMatchesGrid
<1> QED BY <1>6, Lines DEF check_ok, TypeOK

\* While queens are missing there is a row without one: the given queens and those
\* of the calls are fewer than the rows.
LEMMA RowFound ==
  ASSUME BoardInv, mode = "call", ~Enough
  PROVE  \E x \in Row : FirstFree(x)
<1> DEFINE own  == {At(i) : i \in 1..Depth}
           rows == {q[1] : q \in grid}
<1>1. Depth \in Nat /\ Known + Depth < N /\ Held = Depth /\ grid = given \union own
      /\ grid \subseteq Square /\ Cardinality(given) <= Known
  <2>1. Depth \in Nat
    BY DEF BoardInv, TypeOK, Depth
  <2> QED BY <2>1, SizeAssumption DEF BoardInv, BoardSound, OwnQueens, TypeOK, Held, Enough, queenNum
<1>2. IsFiniteSet(Row) /\ Cardinality(Row) = N /\ IsFiniteSet(Square)
  <2>1. IsFiniteSet(0..N-1) /\ Cardinality(0..N-1) = N
    BY FS_Interval, SizeAssumption
  <2> QED BY <2>1, FS_Product DEF Row, Col, Square
<1>3. IsFiniteSet(own) /\ Cardinality(own) <= Depth
  <2> DEFINE f == [i \in 1..Depth |-> At(i)]
  <2>1. f \in Surjection(1..Depth, own)
    BY DEF Surjection
  <2>2. IsFiniteSet(1..Depth) /\ Cardinality(1..Depth) = Depth
    BY FS_Interval, <1>1
  <2> QED BY <2>1, <2>2, FS_Surjection
<1>4. IsFiniteSet(grid) /\ Cardinality(grid) < N
  <2>1. IsFiniteSet(given)
    BY <1>1, <1>2, FS_Subset
  <2>2. /\ IsFiniteSet(given \intersect own)
        /\ Cardinality(given \intersect own) \in Nat /\ Cardinality(given) \in Nat
        /\ Cardinality(own) \in Nat
    BY <1>3, <2>1, FS_Intersection, FS_CardinalityType
  <2>3. IsFiniteSet(grid) /\ Cardinality(grid) =
          Cardinality(given) + Cardinality(own) - Cardinality(given \intersect own)
    BY <1>1, <1>3, <2>1, FS_Union
  <2> QED BY <1>1, <1>3, <2>2, <2>3, SizeAssumption
<1>5. rows # Row
  <2> SUFFICES ASSUME rows = Row PROVE FALSE
    OBVIOUS
  <2> DEFINE f == [q \in grid |-> q[1]]
  <2>1. f \in Surjection(grid, rows)
    BY DEF Surjection
  <2>2. Cardinality(rows) <= Cardinality(grid) /\ Cardinality(grid) \in Nat
    BY <1>4, <2>1, FS_Surjection, FS_CardinalityType
  <2>3. Cardinality(rows) = N
    BY <1>2
  <2> HIDE DEF rows
  <2> QED BY <1>4, <2>2, <2>3, SizeAssumption
<1> DEFINE S == {x \in Row : canx[x] = 1}
<1>6. S # {}
  <2>1. PICK x \in Row : x \notin rows
    BY <1>1, <1>5 DEF Square
  <2>2. canx[x] # 0 /\ canx[x] \in {0, 1}
    BY <2>1 DEF BoardInv, CanMatchesGrid, TypeOK
  <2> QED BY <2>2
<1>7. S \subseteq Nat
  BY SizeAssumption DEF Row
<1>8. PICK x \in S : \A w \in S : x <= w
  BY <1>6, <1>7, LeastOf
<1>9. \A w \in 0..x-1 : w \in Row /\ ~(x <= w)
  BY <1>8, SizeAssumption DEF Row
<1>10. \A w \in 0..x-1 : canx[w] = 0
  BY <1>8, <1>9 DEF BoardInv, TypeOK
<1> QED BY <1>8, <1>10 DEF FirstFree

\* A solution has a queen in the row a call works on.
LEMMA RowOfSolution ==
  ASSUME NEW queens, Completable(queens), NEW x \in Row
  PROVE  \E p \in 1..N : Completable(queens \union {<<x, order[p]>>})
<1>1. PICK column \in [Row -> Col] :
        LET s == {<<u, column[u]>> : u \in Row} IN s \in Solutions /\ queens \subseteq s
  BY DEF Completable, Solutions
<1>2. PICK p \in 1..N : order[p] = column[x]
  BY OrderAssumption
<1> QED BY <1>1, <1>2 DEF Completable

\* A call under way has the same branches as before when its queen and those before
\* it stay.
LEMMA SameBranch ==
  ASSUME given' = given, NEW i \in Nat, \A k \in 1..i : stack'[k] = stack[k], i > 0, NEW j
  PROVE  Branch(i, j)' = Branch(i, j) /\ stack'[i] = stack[i]
<1>1. \A k \in 1..i-1 : At(k)' = At(k)
  BY DEF At
<1>2. {At(k) : k \in 1..i-1}' = {At(k) : k \in 1..i-1}
  BY <1>1
<1>3. stack'[i] = stack[i]
  OBVIOUS
<1> QED BY <1>2, <1>3 DEF Branch

\* A queen is placed in the next free column: columns passed over have no solution.
LEMMA PlaceSkipsNone ==
  ASSUME BoardInv, NEW callers \in Seq(Frame), Len(callers) = Held,
         \A i \in 1..Held : callers[i] = stack[i],
         NEW x \in Row, NEW j \in 1..N, NEW from \in Nat,
         canx[x] = 1, NextFree(x, j, from), Place(x, j, callers), ~res,
         \/ \E p \in 1..N : p > from /\ Completable(grid \union {<<x, order[p]>>})
         \/ \E i \in 1..Held, p \in 1..N : p > stack[i].j /\ Completable(Branch(i, p))
  PROVE  NothingSkipped'
<1> DEFINE frame == [x |-> x, j |-> j]
<1>h. PICK h \in Nat : h = Held
  BY DEF BoardInv, TypeOK, Depth, Held, OwnQueens
<1>1. /\ given' = given /\ ~Failed' /\ Depth' = h + 1
      /\ grid' = grid \union {<<x, order[j]>>}
      /\ stack'[h + 1] = frame /\ \A i \in 1..h : stack'[i] = stack[i]
  <2>1. frame \in Frame
    BY DEF Frame
  <2>2. /\ given' = given /\ mode' = "call" /\ stack' = Append(callers, frame)
        /\ grid' = grid \union {<<x, order[j]>>}
    BY DEF Place
  <2>3. Len(stack') = h + 1 /\ stack'[h + 1] = frame
        /\ \A i \in 1..h : stack'[i] = callers[i]
    BY <1>h, <2>1, <2>2
  <2> QED BY <1>h, <2>2, <2>3 DEF Failed, Depth
<1>2. CASE \E p \in 1..N : p > from /\ Completable(grid \union {<<x, order[p]>>})
  <2>1. PICK p \in 1..N : p > from /\ Completable(grid \union {<<x, order[p]>>})
    BY <1>2
  <2>2. order[p] \in Col
    BY OrderAssumption
  <2>3. check_ok(x, order[p])
    BY <2>1, <2>2, SolutionFits DEF BoardInv
  <2>4. p >= j
    <3>1. p \notin from+1..j-1
      BY <2>3 DEF NextFree
    <3> QED BY <2>1, <3>1, SizeAssumption
  <2>5. CASE p = j
    <3>1. Completable(grid') /\ Completable(grid)' = Completable(grid')
      BY <1>1, <2>1, <2>5 DEF Completable
    <3> QED BY <1>1, <3>1 DEF NothingSkipped
  <2>6. CASE p > j
    <3>1. \A i \in 1..h : At(i)' = At(i)
      BY <1>1 DEF At
    <3>2. {At(k) : k \in 1..h}' = {At(k) : k \in 1..h}
      BY <3>1
    <3>3. h + 1 - 1 = h
      OBVIOUS
    <3>4. Branch(h + 1, p)' = grid \union {<<x, order[p]>>}
      <4>1. Branch(h + 1, p)' =
              given \union {At(k) : k \in 1..h}' \union {<<stack'[h + 1].x, order[p]>>}
        BY <1>1, <3>3 DEF Branch
      <4>2. stack'[h + 1].x = x
        BY <1>1
      <4>3. grid = given \union {At(k) : k \in 1..h}
        BY <1>h DEF BoardInv, BoardSound
      <4> QED BY <3>2, <4>1, <4>2, <4>3
    <3>5. Completable(Branch(h + 1, p))'
      BY <2>1, <3>4 DEF Completable
    <3>6. h + 1 \in 1..Depth' /\ p > stack'[h + 1].j
      BY <1>1, <2>6
    <3> QED BY <3>5, <3>6 DEF NothingSkipped
  <2> QED BY <2>4, <2>5, <2>6, SizeAssumption
<1>3. CASE \E i \in 1..Held, p \in 1..N : p > stack[i].j /\ Completable(Branch(i, p))
  <2>1. PICK i \in 1..h, p \in 1..N : p > stack[i].j /\ Completable(Branch(i, p))
    BY <1>3, <1>h
  <2>2. i \in Nat /\ i > 0 /\ i \in 1..(h + 1) /\ \A k \in 1..i : k \in 1..h
    BY <1>h
  <2>3. Branch(i, p)' = Branch(i, p) /\ stack'[i] = stack[i]
    BY <1>1, <2>2, SameBranch
  <2>4. Completable(Branch(i, p))' /\ p > stack'[i].j
    BY <2>1, <2>3 DEF Completable
  <2> QED BY <1>1, <2>2, <2>4 DEF NothingSkipped
<1> QED BY <1>2, <1>3

LEMMA InitSkipped == Init => NothingSkipped
<1> SUFFICES ASSUME Init PROVE NothingSkipped
  OBVIOUS
<1>1. mode = "call" /\ grid = given
  BY DEF Init, processResponse
<1> QED BY <1>1 DEF NothingSkipped, Failed

LEMMA NextSkipped == BoardInv /\ NothingSkipped /\ [Next]_vars => NothingSkipped'
<1> SUFFICES ASSUME BoardInv, NothingSkipped, [Next]_vars, Completable(given)'
             PROVE  NothingSkipped'
  BY DEF NothingSkipped
<1>0. Depth \in Nat /\ stack \in Seq(Frame) /\ Depth = Len(stack)
  BY DEF BoardInv, TypeOK, Depth
<1>1. given' = given /\ Completable(given)
  <2>1. given' = given
    BY DEF Next, ReturnTrue, Descend, ReturnFalse, Undo, Retry, Exhausted, Place, vars
  <2> QED BY <2>1 DEF Completable
\* Calls under way that stay as they are.
<1>2. ASSUME NEW i \in 1..Depth, NEW p \in 1..N, p > stack[i].j, Completable(Branch(i, p)),
             Depth' \in Nat, i <= Depth', \A k \in 1..i : stack'[k] = stack[k]
      PROVE  NothingSkipped'
  <2>1. i \in Nat /\ i > 0 /\ i \in 1..Depth'
    BY <1>0, <1>2
  <2>2. Branch(i, p)' = Branch(i, p) /\ stack'[i] = stack[i]
    BY <1>1, <1>2, <2>1, SameBranch
  <2>3. Completable(Branch(i, p))' /\ p > stack'[i].j
    BY <1>2, <2>2 DEF Completable
  <2> QED BY <2>1, <2>3 DEF NothingSkipped
<1>3. ASSUME stack' = stack,
             \E i \in 1..Depth, p \in 1..N : p > stack[i].j /\ Completable(Branch(i, p))
      PROVE  NothingSkipped'
  <2>1. PICK i \in 1..Depth, p \in 1..N : p > stack[i].j /\ Completable(Branch(i, p))
    BY <1>3
  <2>2. Depth' = Depth /\ i <= Depth
    BY <1>0, <1>3 DEF Depth
  <2> QED BY <1>0, <1>2, <1>3, <2>1, <2>2
<1>4. CASE UNCHANGED vars \/ ReturnTrue
  <2>1. /\ stack' = stack /\ grid' = grid
        /\ ~Failed => ~Failed'
    BY <1>4 DEF vars, board, ReturnTrue, Failed
  <2>2. CASE ~Failed /\ Completable(grid)
    <3>1. ~Failed' /\ Completable(grid)'
      BY <2>1, <2>2 DEF Completable
    <3> QED BY <3>1 DEF NothingSkipped
  <2> QED BY <1>1, <1>3, <2>1, <2>2 DEF NothingSkipped
<1>5. CASE Descend
  <2>1. PICK x \in Row, j \in 1..N :
          FirstFree(x) /\ NextFree(x, j, 0) /\ Place(x, j, stack)
    BY <1>5 DEF Descend
  <2>2. Held = Len(stack) /\ ~res /\ Held = Depth
    BY <1>5 DEF Descend, Held, Depth, BoardInv, OwnQueens
  <2>3. Completable(grid) => \E p \in 1..N : p > 0 /\ Completable(grid \union {<<x, order[p]>>})
    BY RowOfSolution
  <2>4. \/ \E p \in 1..N : p > 0 /\ Completable(grid \union {<<x, order[p]>>})
        \/ \E i \in 1..Held, p \in 1..N : p > stack[i].j /\ Completable(Branch(i, p))
    BY <1>1, <2>2, <2>3 DEF NothingSkipped
  <2>5. canx[x] = 1 /\ 0 \in Nat
    BY <2>1 DEF FirstFree
  <2> QED BY <1>0, <2>1, <2>2, <2>4, <2>5, PlaceSkipsNone
<1>6. CASE ReturnFalse
  <2>1. /\ mode = "call" /\ ~Enough /\ stack' = stack
        /\ \A x \in Row, j \in 1..N : ~(FirstFree(x) /\ NextFree(x, j, 0))
    BY <1>6 DEF ReturnFalse
  <2>2. ~Completable(grid)
    <3> SUFFICES ASSUME Completable(grid) PROVE FALSE
      OBVIOUS
    <3>1. PICK x \in Row : FirstFree(x)
      BY <2>1, RowFound
    <3>2. PICK p \in 1..N : Completable(grid \union {<<x, order[p]>>})
      BY RowOfSolution
    <3>3. check_ok(x, order[p])
      BY <3>1, <3>2, SolutionFits, OrderAssumption DEF BoardInv, FirstFree
    <3>4. p > 0 /\ 0 \in Nat
      OBVIOUS
    <3>5. \E j \in 1..N : NextFree(x, j, 0)
      BY <3>3, <3>4, ColumnFound
    <3> QED BY <2>1, <3>1, <3>5
  <2> QED BY <1>1, <1>3, <2>1, <2>2 DEF NothingSkipped
<1>7. CASE Undo
  <2>1. Failed /\ stack' = stack
    BY <1>7 DEF Undo, Failed
  <2> QED BY <1>1, <1>3, <2>1 DEF NothingSkipped
\* In retry the top call's queen is off the board.
<1>8. ASSUME mode = "retry"
      PROVE  /\ Failed /\ stack # <<>> /\ canx[Top.x] = 1 /\ ~res /\ Depth \in Nat \ {0}
             /\ Top \in Frame /\ Top.x \in Row /\ Top.j \in 1..N /\ Held = Depth - 1
             /\ \A p : Branch(Depth, p) = grid \union {<<Top.x, order[p]>>}
             /\ Callers \in Seq(Frame) /\ Len(Callers) = Depth - 1
             /\ \A i \in 1..Depth-1 : Callers[i] = stack[i]
  <2>1. Failed /\ stack # <<>> /\ canx[Top.x] = 1 /\ ~res /\ Held = Depth - 1
    BY <1>8 DEF BoardInv, OwnQueens, Failed, Held
  <2>2. Depth \in Nat \ {0} /\ Top \in Frame
    BY <1>0, <2>1 DEF Top
  <2>3. \A p : Branch(Depth, p) = grid \union {<<Top.x, order[p]>>}
    BY <2>1 DEF Branch, BoardInv, BoardSound, Top
  <2>4. /\ Callers \in Seq(Frame) /\ Len(Callers) = Depth - 1
        /\ \A i \in 1..Depth-1 : Callers[i] = stack[i]
    <3>1. Callers = [i \in 1..Depth-1 |-> stack[i]] /\ Callers \in Seq(Frame)
      BY <1>0, <2>2 DEF Callers
    <3> QED BY <2>2, <3>1
  <2> QED BY <2>1, <2>2, <2>3, <2>4 DEF Frame
<1>9. CASE Retry
  <2>1. PICK j \in 1..N : NextFree(Top.x, j, Top.j) /\ Place(Top.x, j, Callers)
    BY <1>9 DEF Retry
  <2>2. mode = "retry"
    BY <1>9 DEF Retry
  <2>3. PICK i \in 1..Depth, p \in 1..N : p > stack[i].j /\ Completable(Branch(i, p))
    BY <1>1, <1>8, <2>2 DEF NothingSkipped
  <2>4. \/ \E q \in 1..N : q > Top.j /\ Completable(grid \union {<<Top.x, order[q]>>})
        \/ \E k \in 1..Held, q \in 1..N : q > stack[k].j /\ Completable(Branch(k, q))
    <3>1. CASE i = Depth
      BY <1>8, <2>2, <2>3, <3>1 DEF Top
    <3>2. CASE i # Depth
      <4>1. i \in 1..Held
        BY <1>8, <2>2, <3>2
      <4> QED BY <2>3, <4>1
    <3> QED BY <3>1, <3>2
  <2>5. /\ Callers \in Seq(Frame) /\ Len(Callers) = Held /\ Top.j \in Nat
        /\ \A k \in 1..Held : Callers[k] = stack[k]
        /\ Top.x \in Row /\ canx[Top.x] = 1 /\ ~res
    BY <1>8, <2>2
  <2> QED BY <2>1, <2>4, <2>5, PlaceSkipsNone
<1>10. CASE Exhausted
  <2>1. mode = "retry" /\ stack' = Callers /\ \A j \in 1..N : ~NextFree(Top.x, j, Top.j)
    BY <1>10 DEF Exhausted
  <2>2. PICK i \in 1..Depth, p \in 1..N : p > stack[i].j /\ Completable(Branch(i, p))
    BY <1>1, <1>8, <2>1 DEF NothingSkipped
  <2>3. i # Depth
    <3> SUFFICES ASSUME i = Depth PROVE FALSE
      OBVIOUS
    <3>1. Completable(grid \union {<<Top.x, order[p]>>}) /\ p > Top.j
      BY <1>8, <2>1, <2>2 DEF Top
    <3>2. order[p] \in Col
      BY OrderAssumption
    <3>3. check_ok(Top.x, order[p])
      BY <1>8, <2>1, <3>1, <3>2, SolutionFits DEF BoardInv
    <3>4. Top.j \in Nat
      BY <1>8, <2>1
    <3> QED BY <2>1, <3>1, <3>3, <3>4, ColumnFound
  <2>4. Depth' = Depth - 1 /\ Depth' \in Nat /\ i <= Depth'
        /\ \A k \in 1..i : stack'[k] = stack[k]
    <3>1. Depth' = Depth - 1
      BY <1>8, <2>1 DEF Depth
    <3>2. \A k \in 1..i : k \in 1..Depth-1
      BY <1>8, <2>1, <2>3
    <3> QED BY <1>8, <2>1, <2>3, <3>1, <3>2
  <2> QED BY <1>2, <2>2, <2>4
<1> QED BY <1>4, <1>5, <1>6, <1>7, <1>9, <1>10 DEF Next

-----------------------------------------------------------------------------
LEMMA InitIInv == Init => IInv
BY InitBoard, InitSkipped DEF IInv, BoardInv

LEMMA NextIInv == IInv /\ [Next]_vars => IInv'
<1> SUFFICES ASSUME IInv, [Next]_vars PROVE IInv'
  OBVIOUS
<1>1. BoardInv /\ NothingSkipped
  BY DEF IInv, BoardInv
<1>2. BoardInv' /\ NothingSkipped'
  BY <1>1, NextBoard, NextSkipped
<1> QED BY <1>2 DEF IInv, BoardInv

\* The invariant holds in every state of every search.
THEOREM Invariance == Spec => []IInv
BY InitIInv, NextIInv, PTL DEF Spec

\* The board is sound throughout: no two queens attack each other, and the
\* referee's queens are never touched (putQueen and its undoing).
THEOREM BoardAlwaysSound == Spec => []BoardSound
<1>1. IInv => BoardSound
  BY DEF IInv
<1> QED BY Invariance, <1>1, PTL

\* The occupancy arrays always say what the grid says (setcan, both ways).
THEOREM ArraysMatch == Spec => []CanMatchesGrid
<1>1. IInv => CanMatchesGrid
  BY DEF IInv
<1> QED BY Invariance, <1>1, PTL

\* A search that returns TRUE has put a queen in every row, if Known were given: N queens
\* that do not attack each other fill the N rows, and each one less leaves one empty.
THEOREM TrueMeansSolved == Spec => []TrueIsSolved
<1>1. ASSUME IInv PROVE TrueIsSolved
  <2> SUFFICES ASSUME res PROVE Cardinality(EmptyRows) <= Known - Cardinality(given)
    BY DEF TrueIsSolved
  <2> DEFINE own  == {At(i) : i \in 1..Depth}
             rows == {q[1] : q \in grid}
  <2>1. mode = "return" /\ Known + Depth >= N /\ Held = Depth /\ Depth \in Nat
    BY <1>1 DEF IInv, OwnQueens, Enough, queenNum, Held, TypeOK, Depth
  <2>2. grid = given \union own /\ given \intersect own = {} /\ grid \subseteq Square
    BY <1>1, <2>1 DEF IInv, BoardSound, OwnQueens, TypeOK
  <2>3. IsFiniteSet(Row) /\ Cardinality(Row) = N /\ IsFiniteSet(Square)
    <3>1. IsFiniteSet(0..N-1) /\ Cardinality(0..N-1) = N
      BY FS_Interval, SizeAssumption
    <3> QED BY <3>1, FS_Product DEF Row, Col, Square
  <2>4. IsFiniteSet(own) /\ Cardinality(own) = Depth
    <3> DEFINE f == [i \in 1..Depth |-> At(i)]
    <3>1. f \in Bijection(1..Depth, own)
      <4>1. f \in Injection(1..Depth, own)
        BY <1>1, <2>1 DEF IInv, OwnQueens, Injection, IsInjective
      <4>2. f \in Surjection(1..Depth, own)
        BY DEF Surjection
      <4> QED BY <4>1, <4>2 DEF Bijection
    <3>2. IsFiniteSet(1..Depth) /\ Cardinality(1..Depth) = Depth
      BY FS_Interval, <2>1
    <3> QED BY <3>1, <3>2, FS_Bijection DEF ExistsBijection
  <2>5. IsFiniteSet(grid) /\ Cardinality(grid) = Cardinality(given) + Depth
        /\ Cardinality(given) \in Nat
    <3>1. IsFiniteSet(given)
      BY <1>1, <2>3, FS_Subset DEF IInv, TypeOK
    <3>2. Cardinality(grid) = Cardinality(given) + Cardinality(own)
      <4>1. Cardinality(given \intersect own) = 0
        BY <2>2, FS_EmptySet
      <4>2. Cardinality(given \union own) =
              Cardinality(given) + Cardinality(own) - Cardinality(given \intersect own)
        BY <2>4, <3>1, FS_Union
      <4> QED BY <2>1, <2>2, <2>4, <4>1, <4>2, SizeAssumption
    <3>3. Cardinality(given) \in Nat
      BY <3>1, FS_CardinalityType
    <3>4. IsFiniteSet(grid)
      BY <2>2, <2>4, <3>1, FS_Union
    <3> QED BY <2>4, <3>2, <3>3, <3>4
  <2>6. IsFiniteSet(rows) /\ Cardinality(rows) = Cardinality(grid)
    <3> DEFINE f == [q \in grid |-> q[1]]
    <3>1. f \in Bijection(grid, rows)
      <4>1. f \in Injection(grid, rows)
        BY <1>1 DEF IInv, BoardSound, Peaceful, Attacks, Injection, IsInjective
      <4>2. f \in Surjection(grid, rows)
        BY DEF Surjection
      <4> QED BY <4>1, <4>2 DEF Bijection
    <3> QED BY <3>1, <2>5, FS_Bijection DEF ExistsBijection
  <2>7. rows \subseteq Row
    BY <2>2 DEF Square
  <2>8. EmptyRows = Row \ rows /\ Row \intersect rows = rows
    BY <2>7 DEF EmptyRows
  <2>9. Cardinality(EmptyRows) = N - (Cardinality(given) + Depth)
    <3>1. Cardinality(Row \ rows) = Cardinality(Row) - Cardinality(Row \intersect rows)
      BY <2>3, FS_Difference
    <3> QED BY <2>3, <2>5, <2>6, <2>8, <3>1
  <2> QED BY <2>1, <2>5, <2>9, SizeAssumption
<1> QED BY Invariance, <1>1, PTL

\* A search that returns FALSE has left the board as it was, and no board with a
\* queen in each row holds the referee's queens: no branch is cut too early.
THEOREM FalseMeansHopeless == Spec => []FalseIsHopeless
<1>1. ASSUME IInv PROVE FalseIsHopeless
  <2> SUFFICES ASSUME Returned, ~res PROVE grid = given /\ ~Completable(given)
    BY DEF FalseIsHopeless
  <2>1. stack = <<>> /\ mode = "return" /\ Depth = 0 /\ Held = 0
    BY DEF Returned, Depth, Held
  <2>2. grid = given
    BY <1>1, <2>1 DEF IInv, BoardSound
  <2>3. ~Completable(given)
    BY <1>1, <2>1 DEF IInv, NothingSkipped, Failed
  <2> QED BY <2>2, <2>3
<1> QED BY Invariance, <1>1, PTL
=============================================================================
