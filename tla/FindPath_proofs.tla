--------------------------- MODULE FindPath_proofs ---------------------------
(***************************************************************************)
(* What the maze clients send is a walk from the start to the exit, for    *)
(* mazes of any size with a wall around them, and a walk is found exactly  *)
(* when there is one.                                                      *)
(***************************************************************************)
EXTENDS FindPath, FiniteSetTheorems, SequenceFacts

\* IInv without what is said of the ways that are left.
WalkInv == /\ TypeOK /\ start \notin walls /\ start # exit /\ exit \notin walls
           /\ Edge \subseteq walls
           /\ Trail /\ PathSpellsTrail /\ HereIsAhead

\* A cell that is no wall has all its neighbours in the maze.
LEMMA AheadInside ==
  ASSUME Edge \subseteq walls, NEW s \in Cell, s \notin walls, NEW m \in Move
  PROVE  Ahead(s, m) \in Cell
<1>1. s \notin Edge
  OBVIOUS
<1>2. s[1] \in 1..Rows /\ s[2] \in 1..Cols
  BY <1>1, SizeAssumption DEF Cell, Edge
<1> QED BY <1>2, SizeAssumption DEF Ahead, Cell, Move

\* Taking the last element off a sequence.
LEMMA DropLast ==
  ASSUME NEW S, NEW q \in Seq(S), q # <<>>
  PROVE  LET short == SubSeq(q, 1, Len(q) - 1) IN
         /\ Len(q) \in Nat \ {0} /\ q[Len(q)] \in S
         /\ short \in Seq(S) /\ Len(short) = Len(q) - 1
         /\ \A i \in 1..Len(q)-1 : short[i] = q[i]
<1>1. Len(q) \in Nat \ {0} /\ \A i \in 1..Len(q) : q[i] \in S
  OBVIOUS
<1> DEFINE n     == Len(q) - 1
           short == SubSeq(q, 1, n)
<1>2. n \in Nat /\ \A i \in 1..n : q[i] \in S
  BY <1>1
<1>3. /\ short \in Seq(S) /\ Len(short) = IF 1 <= n THEN n-1+1 ELSE 0
      /\ \A i \in 1..n-1+1 : short[i] = q[1+i-1]
  BY <1>2, SubSeqProperties
<1>4. Len(short) = n /\ \A i \in 1..n : short[i] = q[i]
  <2> HIDE DEF short, n
  <2>1. n-1+1 = n /\ (~(1 <= n) => n = 0) /\ \A i \in 1..n : 1+i-1 = i
    BY <1>2
  <2>2. Len(short) = n
    BY <1>3, <2>1
  <2>3. \A i \in 1..n : short[i] = q[i]
    BY <1>3, <2>1
  <2> QED BY <2>2, <2>3
<1> QED BY <1>1, <1>3, <1>4

Symbol == {Letter[m] : m \in Move} \union {Newline}

LEMMA InitWalk == Init => WalkInv
<1> SUFFICES ASSUME Init PROVE WalkInv
  OBVIOUS
<1>1. /\ start \in Cell \ Edge /\ exit \in Cell \ Edge /\ start # exit
      /\ walls \subseteq Cell /\ Edge \subseteq walls
      /\ start \notin walls /\ exit \notin walls
  <2>1. PICK w \in SUBSET (Cell \ (Edge \union {start, exit})) : walls = Edge \union w
    BY DEF Init
  <2> QED BY <2>1 DEF Init, Edge
<1>2. /\ maze = {} /\ path = <<>> /\ stack = <<>> /\ here = start
      /\ mode = "call" /\ res = FALSE /\ sent = <<>>
  BY DEF Init
<1>3. TypeOK
  <2>1. path \in Seq(Symbol) /\ sent \in Seq(Symbol) /\ stack \in Seq(Frame)
    BY <1>2
  <2> QED BY <1>1, <1>2, <2>1 DEF TypeOK, Symbol
<1>4. Trail /\ PathSpellsTrail /\ HereIsAhead
  BY <1>2 DEF Trail, PathSpellsTrail, HereIsAhead
<1> QED BY <1>1, <1>3, <1>4 DEF WalkInv

\* The cell of a new call is in the maze: the walk is off the walls, which are all around.
LEMMA CallInside ==
  ASSUME WalkInv, stack # <<>>, NEW m \in Move
  PROVE  Ahead(Top.at, m) \in Cell
<1>1. Len(stack) \in Nat \ {0} /\ Top \in Frame
  BY DEF WalkInv, TypeOK, Top
<1>2. Top.at \in Cell /\ Top.at \notin walls
  BY <1>1 DEF WalkInv, Trail, Top, Frame
<1> QED BY <1>2, AheadInside DEF WalkInv

-----------------------------------------------------------------------------
\* One lemma for each kind of step.

LEMMA ReturnKeeps == WalkInv /\ (Found \/ TurnBack \/ Send) => WalkInv'
<1> SUFFICES ASSUME WalkInv, Found \/ TurnBack \/ Send PROVE WalkInv'
  OBVIOUS
<1>0. /\ UNCHANGED <<walls, start, exit, maze, stack, here>> /\ stack \in Seq(Frame)
      /\ Edge' = Edge /\ Top' = Top
  BY DEF Found, TurnBack, Send, given, WalkInv, TypeOK, Edge, Top
<1>1. Trail'
  BY <1>0 DEF WalkInv, Trail
<1>2. CASE Found
  <2>1. /\ path' = Append(path, Newline) /\ mode = "call" /\ mode' = "return" /\ res' = TRUE
        /\ sent' = sent /\ here = exit /\ ~res /\ path \in Seq(Symbol)
    BY <1>2 DEF Found, WalkInv, HereIsAhead, TypeOK, Symbol
  <2>2. /\ path' \in Seq(Symbol) /\ Len(path') = Len(path) + 1
        /\ path'[Len(path) + 1] = Newline
        /\ \A i \in 1..Len(path) : path'[i] = path[i]
    BY <2>1 DEF Symbol
  <2>3. TypeOK'
    BY <1>0, <2>1, <2>2 DEF WalkInv, TypeOK, Symbol
  <2>4. PathSpellsTrail'
    BY <1>0, <2>1, <2>2 DEF WalkInv, PathSpellsTrail
  <2>5. HereIsAhead'
    BY <1>0, <2>1 DEF WalkInv, HereIsAhead
  <2> QED BY <1>0, <1>1, <2>3, <2>4, <2>5 DEF WalkInv
<1>3. CASE TurnBack
  <2>1. /\ path' = path /\ mode = "call" /\ mode' = "return" /\ res' = FALSE
        /\ sent' = sent /\ ~res
    BY <1>3 DEF TurnBack, WalkInv, HereIsAhead
  <2>2. TypeOK'
    BY <1>0, <2>1 DEF WalkInv, TypeOK
  <2>3. PathSpellsTrail' /\ HereIsAhead'
    BY <1>0, <2>1 DEF WalkInv, PathSpellsTrail, HereIsAhead
  <2> QED BY <1>0, <1>1, <2>2, <2>3 DEF WalkInv
<1>4. CASE Send
  <2>1. /\ path' = path /\ mode' = "sent" /\ res' = res /\ sent' = path
        /\ (res \/ stack = <<>>)
    BY <1>4 DEF Send
  <2>2. TypeOK'
    BY <1>0, <2>1 DEF WalkInv, TypeOK
  <2>3. PathSpellsTrail' /\ HereIsAhead'
    BY <1>0, <2>1 DEF WalkInv, PathSpellsTrail, HereIsAhead
  <2> QED BY <1>0, <1>1, <2>2, <2>3 DEF WalkInv
<1> QED BY <1>2, <1>3, <1>4

LEMMA EnterKeeps == WalkInv /\ Enter => WalkInv'
<1> SUFFICES ASSUME WalkInv, Enter PROVE WalkInv'
  OBVIOUS
<1> DEFINE frame == [at |-> here, dir |-> 1]
           n == Len(stack)
<1>1. /\ UNCHANGED <<walls, start, exit, res, sent>> /\ Edge' = Edge
      /\ mode = "call" /\ mode' = "call" /\ ~res
      /\ here # exit /\ here \notin walls /\ here \notin maze
      /\ maze' = maze \union {here}
      /\ stack' = Append(stack, frame) /\ path' = Append(path, Letter[1])
      /\ here' = Ahead(here, 1)
      /\ here = IF stack = <<>> THEN start ELSE Ahead(Top.at, Top.dir)
  BY DEF Enter, given, Call, Stops, WalkInv, HereIsAhead, Edge
<1>2. /\ here \in Cell /\ here' \in Cell /\ frame \in Frame /\ n \in Nat
      /\ stack \in Seq(Frame) /\ path \in Seq(Symbol)
      /\ Letter[1] \in Symbol
  BY <1>1, AheadInside DEF WalkInv, TypeOK, Frame, Move, Symbol
<1>3. /\ stack' \in Seq(Frame) /\ Len(stack') = n + 1 /\ stack'[n + 1] = frame
      /\ \A i \in 1..n : stack'[i] = stack[i]
  BY <1>1, <1>2
<1>4. /\ path' \in Seq(Symbol) /\ Len(path) = n /\ Len(path') = n + 1
      /\ path'[n + 1] = Letter[1]
      /\ \A i \in 1..n : path'[i] = path[i]
  BY <1>1, <1>2 DEF WalkInv, PathSpellsTrail
<1>5. \A i \in 1..(n + 1) : i \in 1..n \/ i = n + 1
  BY <1>2
<1>6. TypeOK'
  BY <1>1, <1>2, <1>3, <1>4 DEF WalkInv, TypeOK, Symbol
<1>7. Trail'
  <2>1. \A i \in 1..n : stack[i].at \in maze
    BY DEF WalkInv, Trail
  <2>2. maze' = {stack'[i].at : i \in 1..(n + 1)}
    <3>1. maze = {stack[i].at : i \in 1..n}
      BY DEF WalkInv, Trail
    <3>2. n + 1 \in 1..(n + 1) /\ 1..n \subseteq 1..(n + 1)
      BY <1>2
    <3> QED BY <1>1, <1>3, <1>5, <3>1, <3>2
  <2>3. \A i, k \in 1..(n + 1) : stack'[i].at = stack'[k].at => i = k
    BY <1>1, <1>3, <1>5, <2>1 DEF WalkInv, Trail
  <2>4. \A i \in 1..(n + 1) :
          /\ stack'[i].at \notin walls \union {exit}
          /\ stack'[i].at = IF i = 1 THEN start
                            ELSE Ahead(stack'[i-1].at, stack'[i-1].dir)
    <3> SUFFICES ASSUME NEW i \in 1..(n + 1)
                 PROVE  /\ stack'[i].at \notin walls \union {exit}
                        /\ stack'[i].at = IF i = 1 THEN start
                             ELSE Ahead(stack'[i-1].at, stack'[i-1].dir)
      OBVIOUS
    <3>1. CASE i \in 1..n
      <4>1. i # 1 => i - 1 \in 1..n
        BY <3>1, <1>2
      <4> QED BY <3>1, <4>1, <1>3 DEF WalkInv, Trail
    <3>2. CASE i = n + 1
      <4>1. n = 0 <=> stack = <<>>
        BY <1>2
      <4>2. n # 0 => stack'[n] = Top
        BY <1>2, <1>3 DEF Top
      <4> QED BY <1>1, <1>2, <1>3, <3>2, <4>1, <4>2
    <3> QED BY <1>5, <3>1, <3>2
  <2> QED BY <1>1, <1>3, <2>2, <2>3, <2>4 DEF Trail
<1>8. PathSpellsTrail'
  BY <1>1, <1>2, <1>3, <1>4, <1>5 DEF WalkInv, PathSpellsTrail
<1>9. HereIsAhead'
  <2>1. stack' # <<>> /\ Top' = frame
    BY <1>2, <1>3 DEF Top
  <2> QED BY <1>1, <2>1 DEF HereIsAhead
<1> QED BY <1>1, <1>6, <1>7, <1>8, <1>9 DEF WalkInv

LEMMA TurnKeeps == WalkInv /\ Turn => WalkInv'
<1> SUFFICES ASSUME WalkInv, Turn PROVE WalkInv'
  OBVIOUS
<1> DEFINE n == Len(stack)
           m == Top.dir + 1
<1>1. /\ UNCHANGED <<walls, start, exit, maze, res, sent>> /\ Edge' = Edge
      /\ mode = "return" /\ mode' = "call" /\ ~res /\ stack # <<>>
      /\ Top.dir # 4
      /\ stack' = [stack EXCEPT ![n].dir = m]
      /\ path' = Append(SubSeq(path, 1, Len(path) - 1), Letter[m])
      /\ here' = Ahead(Top.at, m)
  BY DEF Turn, given, Call, Turned, Shorter, NextMove, AllTried, Edge
<1>2. /\ n \in Nat \ {0} /\ stack \in Seq(Frame) /\ Top = stack[n] /\ Top \in Frame
      /\ path \in Seq(Symbol) /\ Len(path) = n
  BY <1>1 DEF WalkInv, TypeOK, Top, PathSpellsTrail, Symbol
<1>3. m \in Move /\ Letter[m] \in Symbol /\ here' \in Cell
  <2>1. m \in Move
    BY <1>1, <1>2 DEF Frame, Move
  <2> QED BY <1>1, <2>1, CallInside DEF Symbol
<1>4. /\ stack' \in Seq(Frame) /\ Len(stack') = n
      /\ \A i \in 1..n : stack'[i].at = stack[i].at
      /\ \A i \in 1..n-1 : stack'[i] = stack[i]
      /\ stack'[n].dir = m
  <2>1. stack' = [stack EXCEPT ![n] = [Top EXCEPT !.dir = m]]
    BY <1>1, <1>2
  <2>2. [Top EXCEPT !.dir = m] \in Frame /\ [Top EXCEPT !.dir = m].at = Top.at
        /\ [Top EXCEPT !.dir = m].dir = m
    BY <1>2, <1>3 DEF Frame
  <2> QED BY <1>2, <2>1, <2>2
<1>5. /\ path' \in Seq(Symbol) /\ Len(path') = n /\ path'[n] = Letter[m]
      /\ \A i \in 1..n-1 : path'[i] = path[i]
  <2> DEFINE short == SubSeq(path, 1, Len(path) - 1)
  <2>1. /\ short \in Seq(Symbol) /\ Len(short) = n - 1
        /\ \A i \in 1..n-1 : short[i] = path[i]
    <3>1. path # <<>>
      BY <1>2
    <3> QED BY <1>2, <3>1, DropLast
  <2> HIDE DEF short
  <2>2. path' = Append(short, Letter[m])
    BY <1>1 DEF short
  <2> QED BY <1>2, <1>3, <2>1, <2>2
<1>6. \A i \in 1..n : i \in 1..n-1 \/ i = n
  BY <1>2
<1>7. TypeOK'
  BY <1>1, <1>3, <1>4, <1>5 DEF WalkInv, TypeOK, Symbol
<1>8. Trail'
  <2>1. \A i \in 1..n : i # 1 => i - 1 \in 1..n-1
    BY <1>2
  <2>2. \A i \in 1..n :
          /\ stack'[i].at \notin walls \union {exit}
          /\ stack'[i].at = IF i = 1 THEN start
                            ELSE Ahead(stack'[i-1].at, stack'[i-1].dir)
    BY <1>4, <2>1 DEF WalkInv, Trail
  <2>3. maze = {stack'[i].at : i \in 1..n}
    BY <1>4 DEF WalkInv, Trail
  <2>4. \A i, k \in 1..n : stack'[i].at = stack'[k].at => i = k
    BY <1>4 DEF WalkInv, Trail
  <2> QED BY <1>1, <1>4, <2>2, <2>3, <2>4 DEF Trail
<1>9. PathSpellsTrail'
  BY <1>1, <1>2, <1>4, <1>5, <1>6 DEF WalkInv, PathSpellsTrail
<1>10. HereIsAhead'
  <2>1. stack' # <<>> /\ Top'.at = Top.at /\ Top'.dir = m
    BY <1>2, <1>4 DEF Top
  <2> QED BY <1>1, <2>1 DEF HereIsAhead
<1> QED BY <1>1, <1>7, <1>8, <1>9, <1>10 DEF WalkInv

LEMMA BacktrackKeeps == WalkInv /\ Backtrack => WalkInv'
<1> SUFFICES ASSUME WalkInv, Backtrack PROVE WalkInv'
  OBVIOUS
<1> DEFINE n == Len(stack)
<1>1. /\ UNCHANGED <<walls, start, exit, here, mode, res, sent>> /\ Edge' = Edge
      /\ mode = "return" /\ ~res /\ stack # <<>>
      /\ maze' = maze \ {Top.at}
      /\ stack' = SubSeq(stack, 1, Len(stack) - 1)
      /\ path' = SubSeq(path, 1, Len(path) - 1)
  BY DEF Backtrack, given, Unmarked, Shorter, Edge
<1>2. /\ n \in Nat \ {0} /\ stack \in Seq(Frame) /\ Top = stack[n]
      /\ path \in Seq(Symbol) /\ Len(path) = n
  BY <1>1 DEF WalkInv, TypeOK, Top, PathSpellsTrail, Symbol
<1>3. /\ stack' \in Seq(Frame) /\ Len(stack') = n - 1
      /\ \A i \in 1..n-1 : stack'[i] = stack[i]
  BY <1>1, <1>2, DropLast
<1>4. /\ path' \in Seq(Symbol) /\ Len(path') = n - 1
      /\ \A i \in 1..n-1 : path'[i] = path[i]
  <2>1. path # <<>>
    BY <1>2
  <2> QED BY <1>1, <1>2, <2>1, DropLast
<1>5. \A i \in 1..n : i \in 1..n-1 \/ i = n
  BY <1>2
<1>6. TypeOK'
  BY <1>1, <1>3, <1>4 DEF WalkInv, TypeOK, Symbol
<1>7. Trail'
  <2>1. maze' = {stack'[i].at : i \in 1..n-1}
    <3>1. maze = {stack[i].at : i \in 1..n}
      BY DEF WalkInv, Trail
    <3>2. \A i \in 1..n-1 : i \in 1..n /\ i # n
      BY <1>2
    <3>3. \A i \in 1..n-1 : stack[i].at # stack[n].at
      BY <1>2, <3>2 DEF WalkInv, Trail
    <3>4. \A s : s \in maze' <=> s \in maze /\ s # stack[n].at
      BY <1>1, <1>2
    <3>5. ASSUME NEW s \in maze' PROVE s \in {stack'[i].at : i \in 1..n-1}
      <4>1. PICK i \in 1..n : s = stack[i].at
        BY <3>1, <3>4, <3>5
      <4>2. i \in 1..n-1
        BY <1>5, <3>4, <3>5, <4>1
      <4> QED BY <1>3, <4>1, <4>2
    <3>6. ASSUME NEW i \in 1..n-1 PROVE stack'[i].at \in maze'
      BY <1>3, <3>1, <3>2, <3>3, <3>4
    <3> QED BY <3>5, <3>6
  <2>2. \A i \in 1..n-1 : i \in 1..n /\ (i # 1 => i - 1 \in 1..n-1)
    BY <1>2
  <2>3. \A i, k \in 1..n-1 : stack'[i].at = stack'[k].at => i = k
    BY <1>3, <2>2 DEF WalkInv, Trail
  <2>4. \A i \in 1..n-1 :
          /\ stack'[i].at \notin walls \union {exit}
          /\ stack'[i].at = IF i = 1 THEN start
                            ELSE Ahead(stack'[i-1].at, stack'[i-1].dir)
    BY <1>3, <2>2 DEF WalkInv, Trail
  <2> QED BY <1>1, <1>3, <2>1, <2>3, <2>4 DEF Trail
<1>8. PathSpellsTrail' /\ HereIsAhead'
  <2>1. \A i \in 1..n-1 : i \in 1..n
    BY <1>2
  <2> QED BY <1>1, <1>3, <1>4, <2>1 DEF WalkInv, PathSpellsTrail, HereIsAhead
<1> QED BY <1>1, <1>6, <1>7, <1>8 DEF WalkInv

LEMMA NextWalk == WalkInv /\ [Next]_vars => WalkInv'
<1>1. WalkInv /\ UNCHANGED vars => WalkInv'
  BY DEF vars, given, WalkInv, TypeOK, Trail, PathSpellsTrail, HereIsAhead, Edge, Top
<1> QED BY <1>1, ReturnKeeps, EnterKeeps, TurnKeeps, BacktrackKeeps DEF Next

-----------------------------------------------------------------------------
\* No way out is passed over.

\* A way on from a cell that is not the exit goes through one of its neighbours and
\* need not come back to it.
LEMMA LeadsOn ==
  ASSUME NEW s, s # exit, NEW marked, Leads(s, marked)
  PROVE  \E m \in Move : Leads(Ahead(s, m), marked \union {s})
<1> SUFFICES ASSUME \A m \in Move : ~Leads(Ahead(s, m), marked \union {s}) PROVE FALSE
  OBVIOUS
<1> DEFINE free   == Open \ marked
           others == Open \ (marked \union {s})
           Closed(area) == \A t \in area, m \in Move : Ahead(t, m) \in others => Ahead(t, m) \in area
           areas  == {area \in SUBSET others : Closed(area) /\ exit \notin area}
           all    == {s} \union UNION areas
<1>1. s \in free /\ s \in Open /\ others \subseteq free
      /\ \A t \in free : t = s \/ t \in others
  BY DEF Leads
<1>2. \A m \in Move : Ahead(s, m) \in others => Ahead(s, m) \in all
  <2> SUFFICES ASSUME NEW m \in Move, Ahead(s, m) \in others PROVE Ahead(s, m) \in all
    OBVIOUS
  <2>1. PICK area \in SUBSET others : Ahead(s, m) \in area /\ Closed(area) /\ exit \notin area
    BY DEF Leads
  <2> QED BY <2>1
<1>3. \A t \in all, m \in Move : Ahead(t, m) \in free => Ahead(t, m) \in all
  <2> SUFFICES ASSUME NEW t \in all, NEW m \in Move, Ahead(t, m) \in free
               PROVE  Ahead(t, m) \in all
    OBVIOUS
  <2>1. CASE Ahead(t, m) = s
    BY <2>1
  <2>2. CASE Ahead(t, m) # s
    <3>1. Ahead(t, m) \in others
      BY <1>1, <2>2
    <3>2. CASE t = s
      BY <1>2, <3>1, <3>2
    <3>3. CASE t # s
      <4>1. PICK area \in areas : t \in area
        BY <3>3
      <4> QED BY <3>1, <4>1
    <3> QED BY <3>2, <3>3
  <2> QED BY <2>1, <2>2
<1>4. all \in SUBSET free /\ s \in all /\ exit \notin all
  BY <1>1
<1> QED BY <1>3, <1>4 DEF Leads

\* What a direction leads to depends on the cells of the calls up to its own.
LEMMA SameWay ==
  ASSUME walls' = walls, exit' = exit, NEW i \in Nat, i > 0,
         \A k \in 1..i : stack'[k].at = stack[k].at, NEW m
  PROVE  Leads(Ahead(stack[i].at, m), Before(i))' <=> Leads(Ahead(stack[i].at, m), Before(i))
<1>1. Before(i)' = Before(i)
  BY DEF Before
<1>2. Ahead(stack[i].at, m)' = Ahead(stack[i].at, m)
  <2>1. stack'[i].at = stack[i].at
    OBVIOUS
  <2> QED BY <2>1 DEF Ahead
<1>3. Open' = Open
  BY DEF Open, Cell
<1> QED BY <1>1, <1>2, <1>3 DEF Leads

LEMMA InitSkipped == Init => NothingSkipped
BY DEF Init, NothingSkipped

\* The marked cells are those of all calls.
LEMMA MarkedAreBefore == WalkInv => maze = Before(Len(stack))
BY DEF WalkInv, Trail, Before

LEMMA NextSkipped == WalkInv /\ NothingSkipped /\ [Next]_vars => NothingSkipped'
<1> SUFFICES ASSUME WalkInv, NothingSkipped, [Next]_vars, ~res', Leads(start, {})'
             PROVE  NothingSkipped'
  BY DEF NothingSkipped
<1> DEFINE n == Len(stack)
<1>0. n \in Nat /\ stack \in Seq(Frame)
  BY DEF WalkInv, TypeOK
<1>1. walls' = walls /\ start' = start /\ exit' = exit /\ Open' = Open
  BY DEF Next, Found, TurnBack, Enter, Turn, Backtrack, Send, given, vars, Open, Cell
<1>2. Leads(start, {})
  BY <1>1 DEF Leads
\* Calls under way that stay and go on as they were.
<1>3. ASSUME NEW i \in 1..n, NEW m \in Move, m > stack[i].dir,
             Leads(Ahead(stack[i].at, m), Before(i)),
             i \in 1..Len(stack'), m > stack'[i].dir,
             \A k \in 1..i : stack'[k].at = stack[k].at
      PROVE  NothingSkipped'
  <2>1. i \in Nat /\ i > 0
    BY <1>0, <1>3
  <2>2. Leads(Ahead(stack[i].at, m), Before(i))'
    BY <1>1, <1>3, <2>1, SameWay
  <2> QED BY <1>3, <2>2 DEF NothingSkipped
<1>4. ASSUME stack' = stack,
             \E i \in 1..n, m \in Move :
               m > stack[i].dir /\ Leads(Ahead(stack[i].at, m), Before(i))
      PROVE  NothingSkipped'
  BY <1>3, <1>4
<1>5. CASE Found
  BY <1>5 DEF Found
<1>6. CASE TurnBack
  <2>1. stack' = stack /\ mode = "call" /\ Stops(here) /\ ~res
    BY <1>6 DEF TurnBack, WalkInv, HereIsAhead
  <2>2. ~Leads(here, maze)
    BY <2>1 DEF Leads, Stops, Open
  <2> QED BY <1>2, <1>4, <2>1, <2>2 DEF NothingSkipped
<1>7. CASE Enter
  <2> DEFINE frame == [at |-> here, dir |-> 1]
  <2>1. /\ mode = "call" /\ mode' = "call" /\ ~res /\ here # exit
        /\ maze' = maze \union {here} /\ here' = Ahead(here, 1)
        /\ stack' = Append(stack, frame) /\ here \in Cell
    BY <1>7 DEF Enter, Call, WalkInv, HereIsAhead, TypeOK
  <2>2. frame \in Frame
    BY <2>1 DEF Frame, Move
  <2>h. PICK h \in Nat : h = n
    BY <1>0
  <2>3. /\ Len(stack') = h + 1 /\ stack'[h + 1] = frame
        /\ \A k \in 1..h : stack'[k] = stack[k]
    BY <1>0, <2>h, <2>1, <2>2
  <2>4. CASE Leads(here, maze)
    <3>1. PICK m \in Move : Leads(Ahead(here, m), maze')
      BY <2>1, <2>4, LeadsOn
    <3>2. CASE m = 1
      <4>1. Leads(here, maze)'
        BY <1>1, <2>1, <3>1, <3>2 DEF Leads
      <4> QED BY <2>1, <4>1 DEF NothingSkipped
    <3>3. CASE m # 1
      <4>1. Before(h + 1)' = maze'
        <5>1. WalkInv'
          BY <1>7, EnterKeeps
        <5>2. (WalkInv => maze = Before(Len(stack)))'
          BY MarkedAreBefore, PTL
        <5> QED BY <2>3, <5>1, <5>2 DEF Before
      <4>2. Leads(Ahead(stack[h + 1].at, m), Before(h + 1))'
        <5>1. stack'[h + 1].at = here
          BY <2>3
        <5>2. Ahead(stack[h + 1].at, m)' = Ahead(here, m)
          BY <5>1 DEF Ahead
        <5> QED BY <1>1, <3>1, <4>1, <5>2 DEF Leads
      <4>3. h + 1 \in 1..Len(stack') /\ m > stack'[h + 1].dir
        BY <2>3, <3>3 DEF Move
      <4> QED BY <4>2, <4>3 DEF NothingSkipped
    <3> QED BY <3>2, <3>3
  <2>5. CASE ~Leads(here, maze)
    <3>1. PICK i \in 1..n, m \in Move :
            m > stack[i].dir /\ Leads(Ahead(stack[i].at, m), Before(i))
      BY <1>2, <2>1, <2>5 DEF NothingSkipped
    <3>2. i \in 1..Len(stack') /\ i \in 1..h /\ \A k \in 1..i : k \in 1..h
      BY <2>h, <2>3
    <3>3. stack'[i] = stack[i] /\ \A k \in 1..i : stack'[k].at = stack[k].at
      BY <2>3, <3>2
    <3> QED BY <1>3, <3>1, <3>2, <3>3
  <2> QED BY <2>4, <2>5
\* After a call has failed a direction not tried is left.
<1>8. ASSUME mode = "return", ~res
      PROVE  \E i \in 1..n, m \in Move :
               m > stack[i].dir /\ Leads(Ahead(stack[i].at, m), Before(i))
  BY <1>2, <1>8 DEF NothingSkipped
<1>9. CASE Turn
  <2> DEFINE d == Top.dir + 1
  <2>1. /\ mode = "return" /\ mode' = "call" /\ ~res /\ stack # <<>> /\ maze' = maze
        /\ stack' = [stack EXCEPT ![n].dir = d] /\ here' = Ahead(Top.at, d)
    BY <1>9 DEF Turn, Call, NextMove
  <2>2. n \in Nat \ {0} /\ Top = stack[n] /\ Top \in Frame
    BY <1>0, <2>1 DEF Top
  <2>3. /\ Len(stack') = n /\ \A k \in 1..n : stack'[k].at = stack[k].at
        /\ \A k \in 1..n-1 : stack'[k] = stack[k]
        /\ stack'[n].dir = d
    <3>1. stack' = [stack EXCEPT ![n] = [Top EXCEPT !.dir = d]]
      BY <2>1, <2>2
    <3>2. [Top EXCEPT !.dir = d].at = Top.at /\ [Top EXCEPT !.dir = d].dir = d
      BY <2>2 DEF Frame
    <3> QED BY <1>0, <2>2, <3>1, <3>2
  <2>4. PICK i \in 1..n, m \in Move :
          m > stack[i].dir /\ Leads(Ahead(stack[i].at, m), Before(i))
    BY <1>8, <2>1
  <2>5. \A k \in 1..i : k \in 1..n
    BY <1>0
  <2>6. CASE i = n /\ m = d
    <3>1. Leads(here', maze)
      BY <2>1, <2>2, <2>4, <2>6, MarkedAreBefore
    <3>2. Leads(here, maze)'
      BY <1>1, <2>1, <3>1 DEF Leads
    <3> QED BY <2>1, <3>2 DEF NothingSkipped
  <2>7. CASE i = n /\ m # d
    <3>1. m > d
      BY <2>2, <2>4, <2>7 DEF Move, Frame
    <3> QED BY <1>3, <2>3, <2>4, <2>5, <2>7, <3>1
  <2>8. CASE i # n
    <3>1. i \in 1..n-1
      BY <1>0, <2>8
    <3> QED BY <1>3, <2>3, <2>4, <2>5, <3>1
  <2> QED BY <2>6, <2>7, <2>8
<1>10. CASE Backtrack
  <2>1. /\ mode = "return" /\ ~res /\ stack # <<>> /\ Top.dir = 4
        /\ stack' = SubSeq(stack, 1, n - 1)
    BY <1>10 DEF Backtrack, AllTried
  <2>2. /\ n \in Nat \ {0} /\ Top = stack[n] /\ Len(stack') = n - 1
        /\ \A k \in 1..n-1 : stack'[k] = stack[k]
    BY <1>0, <2>1, DropLast DEF Top
  <2>3. PICK i \in 1..n, m \in Move :
          m > stack[i].dir /\ Leads(Ahead(stack[i].at, m), Before(i))
    BY <1>8, <2>1
  <2>4. i # n
    BY <2>1, <2>2, <2>3 DEF Move
  <2>5. i \in 1..n-1 /\ \A k \in 1..i : k \in 1..n-1
    BY <2>2, <2>4
  <2> QED BY <1>3, <2>2, <2>3, <2>5
<1>11. CASE Send
  <2>1. stack' = stack /\ mode = "return" /\ ~res
    BY <1>11 DEF Send
  <2> QED BY <1>4, <1>8, <2>1
<1>12. CASE UNCHANGED vars
  <2>1. stack' = stack /\ mode' = mode /\ here' = here /\ maze' = maze /\ res' = res
    BY <1>12 DEF vars
  <2>2. CASE mode = "call" /\ Leads(here, maze)
    <3>1. Leads(here, maze)'
      BY <1>1, <2>1, <2>2 DEF Leads
    <3> QED BY <2>1, <2>2, <3>1 DEF NothingSkipped
  <2> QED BY <1>2, <1>4, <2>1, <2>2 DEF NothingSkipped
<1> QED BY <1>5, <1>6, <1>7, <1>9, <1>10, <1>11, <1>12 DEF Next

-----------------------------------------------------------------------------
LEMMA InitIInv == Init => IInv
BY InitWalk, InitSkipped DEF IInv, WalkInv

LEMMA NextIInv == IInv /\ [Next]_vars => IInv'
<1> SUFFICES ASSUME IInv, [Next]_vars PROVE IInv'
  OBVIOUS
<1>1. WalkInv /\ NothingSkipped
  BY DEF IInv, WalkInv
<1>2. WalkInv' /\ NothingSkipped'
  BY <1>1, NextWalk, NextSkipped
<1> QED BY <1>2 DEF IInv, WalkInv

\* The walk of the calls under way is a proper walk in every state.
THEOREM Invariance == Spec => []IInv
BY InitIInv, NextIInv, PTL DEF Spec

\* What code2.c and code3.c send after a successful search leads from the
\* start to the exit and through no wall.
THEOREM SentPathWalksOut == Spec => []SentWalksOut
<1>1. ASSUME IInv PROVE SentWalksOut
  <2> SUFFICES ASSUME mode = "sent", res PROVE SentWalksOut
    BY DEF SentWalksOut
  <2> DEFINE n     == Len(sent) - 1
             cells == [i \in 1..n |-> stack[i].at]
  <2>1. /\ sent = path /\ stack # <<>> /\ Ahead(Top.at, Top.dir) = exit
        /\ stack \in Seq(Frame)
    BY <1>1 DEF IInv, HereIsAhead, TypeOK
  <2>2. n = Len(stack) /\ n \in Nat \ {0} /\ sent[n+1] = Newline
    BY <1>1, <2>1 DEF IInv, PathSpellsTrail
  <2>3. \A i \in 1..n : cells[i] = stack[i].at /\ cells[i] \notin walls
    BY <1>1, <2>2 DEF IInv, Trail
  <2>4. cells[1] = start
    BY <1>1, <2>2, <2>3 DEF IInv, Trail
  <2>5. \A i \in 1..n : stack[i].dir \in Move /\ sent[i] = Letter[stack[i].dir]
    <3>1. \A i \in 1..Len(stack) : stack[i] \in Frame
      BY <2>1
    <3>2. \A i \in 1..Len(stack) : stack[i].dir \in Move
      BY <3>1 DEF Frame
    <3>3. \A i \in 1..Len(stack) : sent[i] = Letter[stack[i].dir]
      BY <1>1, <2>1 DEF IInv, PathSpellsTrail
    <3> QED BY <2>2, <3>2, <3>3
  <2>6. \A i \in 1..n :
          Ahead(cells[i], stack[i].dir) = IF i = n THEN exit ELSE cells[i+1]
    <3> SUFFICES ASSUME NEW i \in 1..n
                 PROVE  Ahead(cells[i], stack[i].dir) = IF i = n THEN exit ELSE cells[i+1]
      OBVIOUS
    <3>1. CASE i = n
      BY <3>1, <2>1, <2>2, <2>3 DEF Top
    <3>2. CASE i # n
      <4>1. i + 1 \in 1..n /\ i + 1 # 1 /\ (i + 1) - 1 = i
        BY <3>2, <2>2
      <4>2. stack[i+1].at = Ahead(stack[(i+1)-1].at, stack[(i+1)-1].dir)
        BY <1>1, <4>1, <2>2 DEF IInv, Trail
      <4> QED BY <3>2, <4>1, <4>2, <2>3
    <3> QED BY <3>1, <3>2
  <2> HIDE DEF cells
  <2>7. \A i \in 1..n : \E m \in Move :
          sent[i] = Letter[m] /\ Ahead(cells[i], m) = IF i = n THEN exit ELSE cells[i+1]
    BY <2>5, <2>6
  <2>8. n > 0 /\ 1 \in 1..n
    BY <2>2
  <2>9. /\ n > 0 /\ sent[n+1] = Newline
        /\ cells[1] = start /\ \A i \in 1..n : cells[i] \notin walls
        /\ \A i \in 1..n : \E m \in Move :
             sent[i] = Letter[m] /\ Ahead(cells[i], m) = IF i = n THEN exit ELSE cells[i+1]
    BY <2>2, <2>3, <2>4, <2>7, <2>8
  <2> QED BY <2>9, Zenon DEF SentWalksOut, cells
<1> QED BY Invariance, <1>1, PTL

\* After a search that has failed nothing is marked and nothing is sent.
THEOREM FailureLeavesNothing == Spec => []FailureIsClean
<1>1. ASSUME IInv PROVE FailureIsClean
  <2> SUFFICES ASSUME mode = "sent", ~res PROVE sent = <<>> /\ maze = {}
    BY DEF FailureIsClean
  <2>1. sent = path /\ stack = <<>> /\ path \in Seq(Symbol)
    BY <1>1 DEF IInv, HereIsAhead, TypeOK, Symbol
  <2>2. Len(path) = 0
    BY <1>1, <2>1 DEF IInv, PathSpellsTrail
  <2>3. maze = {}
    BY <1>1, <2>1 DEF IInv, Trail
  <2> QED BY <2>1, <2>2, <2>3
<1> QED BY Invariance, <1>1, PTL

\* currentPath is long enough: the walk has each cell at most once and none of
\* the walls around the maze.
THEOREM PathAlwaysFits == Spec => []PathFits
<1>1. ASSUME IInv PROVE PathFits
  <2> DEFINE n == Len(stack)
             f == [i \in 1..n |-> stack[i].at]
  <2>1. n \in Nat /\ Len(path) <= n + 1
    BY <1>1 DEF IInv, TypeOK, PathSpellsTrail
  <2>2. /\ IsFiniteSet(0..Rows+1) /\ Cardinality(0..Rows+1) = Rows + 2
        /\ IsFiniteSet(0..Cols+1) /\ Cardinality(0..Cols+1) = Cols + 2
    BY FS_Interval, SizeAssumption
  <2>3. IsFiniteSet(Cell) /\ Cardinality(Cell) = (Rows + 2) * (Cols + 2)
    BY <2>2, FS_Product DEF Cell
  <2>4. IsFiniteSet(maze) /\ Cardinality(maze) = n
    <3>1. f \in Bijection(1..n, maze)
      <4>1. f \in Injection(1..n, maze)
        BY <1>1 DEF IInv, Trail, Injection, IsInjective
      <4>2. f \in Surjection(1..n, maze)
        BY <1>1 DEF IInv, Trail, Surjection
      <4> QED BY <4>1, <4>2 DEF Bijection
    <3>2. IsFiniteSet(1..n) /\ Cardinality(1..n) = n
      <4> HIDE DEF n
      <4>1. 1 \in Int /\ n \in Int /\ (IF 1 > n THEN 0 ELSE n-1+1) = n
        BY <2>1
      <4> QED BY <4>1, FS_Interval
    <3> QED BY <3>1, <3>2, FS_Bijection DEF ExistsBijection
  <2>5. {exit, <<0, 0>>} \subseteq Cell /\ {exit, <<0, 0>>} \intersect maze = {}
        /\ exit # <<0, 0>> /\ maze \subseteq Cell
    <3>1. <<0, 0>> \in Edge
      BY SizeAssumption DEF Edge, Cell
    <3> QED BY <1>1, <3>1 DEF IInv, TypeOK, Trail, Edge
  <2>6. n + 2 <= Cardinality(Cell)
    <3> DEFINE out == {exit, <<0, 0>>}
    <3>1. IsFiniteSet(out) /\ Cardinality(out) = 2
      <4>1. IsFiniteSet({exit}) /\ Cardinality({exit}) = 1
        BY FS_Singleton
      <4>2. out = {exit} \union {<<0, 0>>}
        OBVIOUS
      <4>3. <<0, 0>> \notin {exit}
        BY <2>5
      <4>4. /\ IsFiniteSet({exit} \union {<<0, 0>>})
            /\ Cardinality({exit} \union {<<0, 0>>}) = Cardinality({exit}) + 1
        BY <4>1, <4>3, FS_AddElement
      <4> HIDE DEF out
      <4> QED BY <4>1, <4>2, <4>4
    <3>2. Cardinality(maze \intersect out) = 0
      BY <2>5, FS_EmptySet
    <3>3. IsFiniteSet(maze \union out)
          /\ Cardinality(maze \union out) =
               Cardinality(maze) + Cardinality(out) - Cardinality(maze \intersect out)
      BY <2>4, <3>1, FS_Union
    <3>4. Cardinality(maze \union out) = n + 2
      BY <2>1, <2>4, <3>1, <3>2, <3>3
    <3>5. (maze \union out) \subseteq Cell
      BY <2>5
    <3>6. Cardinality(maze \union out) <= Cardinality(Cell)
      BY <2>3, <3>5, FS_Subset
    <3> QED BY <3>4, <3>6
  <2> QED BY <1>1, <2>1, <2>3, <2>6, SizeAssumption DEF PathFits, IInv, TypeOK
<1> QED BY Invariance, <1>1, PTL

\* A path is found exactly if the exit can be reached: the walk that is sent shows
\* that it can, and a way that is there is never passed over.
THEOREM FoundExactlyIfReachable == Spec => []FoundIfReachable
<1>1. ASSUME IInv, mode = "sent", res PROVE Leads(start, {})
  <2> DEFINE n == Len(stack)
  <2>1. /\ n \in Nat \ {0} /\ Top = stack[n] /\ Ahead(Top.at, Top.dir) = exit
        /\ stack \in Seq(Frame)
    BY <1>1 DEF IInv, HereIsAhead, TypeOK, Top
  <2>2. start \in Open /\ exit \in Open /\ \A i \in 1..n : stack[i].at \in Open /\ stack[i].dir \in Move
    <3>1. \A i \in 1..n : stack[i] \in Frame
      BY <2>1
    <3> QED BY <1>1, <3>1 DEF IInv, TypeOK, Trail, Open, Frame
  <2> SUFFICES ASSUME NEW area \in SUBSET Open, start \in area,
                      \A t \in area, m \in Move : Ahead(t, m) \in Open => Ahead(t, m) \in area
               PROVE  exit \in area
    BY <2>2 DEF Leads
  <2>3. \A i \in 1..n : stack[i].at \in area
    <3> DEFINE S == {i \in 1..n : stack[i].at \notin area}
    <3> SUFFICES ASSUME S # {} PROVE FALSE
      OBVIOUS
    <3>0. S \subseteq Nat
      BY <2>1
    <3>1. PICK i \in S : \A k \in S : i <= k
      BY <3>0, LeastOf
    <3>2. CASE i = 1
      BY <1>1, <3>1, <3>2 DEF IInv, Trail
    <3>3. CASE i # 1
      <4>1. i - 1 \in 1..n /\ ~(i <= i - 1) /\ i \in 1..n
        BY <2>1, <3>1, <3>3
      <4>2. stack[i-1].at \in area
        BY <3>1, <4>1
      <4>3. stack[i].at = Ahead(stack[i-1].at, stack[i-1].dir)
        BY <1>1, <3>3, <4>1 DEF IInv, Trail
      <4> QED BY <2>2, <3>1, <4>1, <4>2, <4>3
    <3> QED BY <3>2, <3>3
  <2>4. n \in 1..n
    BY <2>1
  <2> QED BY <2>1, <2>2, <2>3, <2>4
<1>2. ASSUME IInv, mode = "sent", ~res PROVE ~Leads(start, {})
  <2>1. Len(stack) = 0
    BY <1>2 DEF IInv, HereIsAhead
  <2> QED BY <1>2, <2>1 DEF IInv, NothingSkipped
<1>3. IInv => FoundIfReachable
  BY <1>1, <1>2 DEF FoundIfReachable, IInv, TypeOK
<1> QED BY Invariance, <1>3, PTL
=============================================================================
