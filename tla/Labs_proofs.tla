----------------------------- MODULE Labs_proofs -----------------------------
(***************************************************************************)
(* The programs of lab1 to lab4, for mazes, texts, captures, files and     *)
(* buffers of any size.  Init, Next, Spec, vars and IInv are those of      *)
(* Survey, which is checked in a run of its own; the theorems about        *)
(* LabsSpec are the same properties beside the other programs.             *)
(***************************************************************************)
EXTENDS MCLabs, Survey, FiniteSetTheorems, SequenceTheorems, WellFoundedInduction, TLAPS

-----------------------------------------------------------------------------
\* lab3/code3.c reads every cell of the maze into its place, if the size of the view
\* port has six characters and views and prompts come in segments of their own.

\* Multiples of v, and the last one that is not beyond n.
LEMMA NextMultiple ==
  ASSUME NEW v \in Nat \ {0}, NEW k \in Nat, k % v = 0
  PROVE  (k + v) % v = 0
<1>1. PICK q \in Nat : k = v * q
  <2>1. k \div v \in Nat /\ k = (v * (k \div v)) + (k % v)
    OBVIOUS
  <2> QED BY <2>1
<1>2. k + v = v * (q + 1)
  BY <1>1
<1>3. (v * (q + 1)) % v = 0
  <2>1. \A m \in Nat : (v * m) % v = 0
    OBVIOUS
  <2> QED BY <2>1, <1>1
<1> QED BY <1>2, <1>3

LEMMA LastMultiple ==
  ASSUME NEW v \in Nat \ {0}, NEW k \in Nat, NEW n \in Nat,
         k % v = 0, k <= n, n < k + v
  PROVE  v * (n \div v) = k
OBVIOUS

-----------------------------------------------------------------------------
LEMMA InitSurvey == Init => IInv
<1> SUFFICES ASSUME Init PROVE IInv
  OBVIOUS
<1>1. /\ maze_rows \in 1..100 /\ maze_cols \in 1..100
      /\ vrow \in 1..98 /\ vcol \in 1..98
      /\ port_row \in -9..99 /\ port_col \in Int /\ port_col < maze_cols
  BY BoundsAssumption DEF Init
<1>2. /\ mazeRead = [s \in Place |-> Unseen] /\ surveyMode = "label" /\ row = 0 /\ col = 0
      /\ coming = 0 /\ tidy = TRUE
  BY DEF Init
<1>3. TypeOK
  BY <1>1, <1>2 DEF TypeOK, Unseen, Modes
<1>4. Approach /\ InTurn
  BY <1>1, <1>2 DEF Approach, InTurn, Leftward, Rightward, Tiling
<1>5. OnTile
  BY <1>1, <1>2 DEF OnTile
<1>6. ReadSoFar
  BY <1>1, <1>2 DEF ReadSoFar, ReadUpTo, Place
<1>7. ReckoningRight /\ CopiedInPlace /\ AllRead
  BY <1>2 DEF ReckoningRight, CopiedInPlace, AllRead, Tiling
<1> QED BY <1>3, <1>4, <1>5, <1>6, <1>7 DEF IInv

\* A step on the way to the corner, which copies nothing: what has to be shown is
\* that client and referee stay in turn and where the port then is.
LEMMA StillApproaching ==
  ASSUME IInv, InStep => ~(surveyMode \in Tiling), TypeOK',
         UNCHANGED <<maze_rows, maze_cols, vrow, vcol, row, col, mazeRead>>,
         InStep' => InStep /\ InTurn' /\ Approach' /\ surveyMode' # "done"
                    /\ (surveyMode' \in Tiling =>
                          surveyMode' \in {"view", "scan"} /\ port_row' = 0 /\ port_col' = 0)
  PROVE  IInv'
<1> USE DEF IInv
<1>1. Place' = Place
  BY DEF Place
<1>2. InStep' => row = 0 /\ col = 0
  BY DEF Approach
<1>3. InStep' => OnTile'
  BY DEF OnTile
<1>4. InStep' => ReadSoFar'
  <2> SUFFICES ASSUME InStep' PROVE ReadSoFar'
    OBVIOUS
  <2>1. ReadUpTo' = 0 \/ surveyMode' \in {"await", "turn", "done"}
    BY <1>2 DEF ReadUpTo
  <2>2. surveyMode' \notin {"await", "turn", "done"}
    BY DEF Tiling
  <2> QED BY <1>1, <1>2, <2>1, <2>2 DEF ReadSoFar, Place
<1>5. ReckoningRight' /\ AllRead' /\ CopiedInPlace'
  BY <1>1, <1>2 DEF ReckoningRight, CopiedInPlace, AllRead
<1> QED BY <1>3, <1>4, <1>5

\* While client and referee are in step, a read that gets more or less than one view
\* or one prompt ends that.
LEMMA InStepBefore ==
  ASSUME NEW last, Takes(last), UNCHANGED sizes
  PROVE  InStep' => InStep /\ <<coming, last>> \in {<<4, 2>>, <<2, 4>>}
BY DEF InStep, Takes, sizes, SixChars, SizeLength, Digits

LEMMA StepOfApproach ==
  ASSUME IInv,
         MoveToFirstRow \/ FirstReply \/ MoveLeft \/ MoveRight \/ SkipLeft \/ SkipRight
  PROVE  IInv'
<1> USE DEF IInv, TypeOK, sizes, port
<1>1. CASE MoveToFirstRow
  <2>1. /\ surveyMode = "label" /\ port_col' = port_col /\ coming' = 4
        /\ UNCHANGED <<maze_rows, maze_cols, vrow, vcol, row, col, mazeRead, tidy>>
        /\ Place' = Place
    BY <1>1 DEF MoveToFirstRow, MovePort, Place
  <2>2. Distance \in Nat
    BY DEF Distance
  <2>3. Label \in Int
    BY <2>2 DEF Label
  <2>4. TypeOK'
    BY <1>1, <2>1, <2>3 DEF MoveToFirstRow, MovePort, Modes
  <2>5. InStep' = InStep
    BY <2>1 DEF InStep, SixChars, SizeLength, Digits
  <2>6. ASSUME InStep PROVE port_row' = 0 /\ surveyMode' = "first"
    <3>1. SizeLength = 6 /\ port_row \in -9..99
      BY <2>1, <2>6 DEF InStep, SixChars, Approach
    <3>2. Label = port_row
      BY <3>1 DEF Label, Distance
    <3> QED BY <1>1, <3>1, <3>2 DEF MoveToFirstRow, MovePort, BeforeUp
  <2>7. InStep' => InTurn' /\ Approach' /\ surveyMode' # "done" /\ ~(surveyMode' \in Tiling)
    BY <2>1, <2>5, <2>6 DEF InTurn, Approach, Tiling, Leftward, Rightward
  <2> QED BY <2>1, <2>4, <2>5, <2>7, StillApproaching DEF Tiling
<1>2. CASE FirstReply \/ MoveLeft \/ MoveRight \/ SkipLeft \/ SkipRight
  <2>1. /\ surveyMode \in {"first", "left", "right", "skip", "blank"}
        /\ UNCHANGED <<maze_rows, maze_cols, vrow, vcol, row, col, mazeRead>> /\ Place' = Place
    BY <1>2 DEF FirstReply, MoveLeft, MoveRight, SkipLeft, SkipRight, Place
  <2>2. PICK last \in Coming :
          \/ surveyMode = "first" /\ IF WholePrompt(last) THEN ReadAndMove(last, -4, "left")
                                                          ELSE ReadOn(last, "first")
          \/ surveyMode = "left" /\ ReadOn(last, IF ~HasView(last) THEN "adrift"
                                                 ELSE IF Blank THEN "blank" ELSE "skip")
          \/ surveyMode = "right" /\ ReadOn(last, IF ~HasView(last) THEN "adrift"
                                                  ELSE IF Blank THEN "blank" ELSE "scan")
          \/ surveyMode = "skip" /\ ReadAndMove(last, -4, "left")
          \/ surveyMode = "blank" /\ ReadAndMove(last, 1, "right")
    BY <1>2 DEF FirstReply, MoveLeft, MoveRight, SkipLeft, SkipRight, OneRight
  <2>3. last \in 1..4 /\ Takes(last)
    BY <2>2 DEF Coming, ReadAndMove, ReadOn
  <2>4. TypeOK'
    BY <2>1, <2>2, <2>3 DEF ReadAndMove, ReadOn, MovePort, Takes, Modes
  <2>5. InStep' => InStep /\ <<coming, last>> \in {<<4, 2>>, <<2, 4>>}
    BY <2>1, <2>3, InStepBefore
  <2>6. ASSUME InStep' PROVE InTurn' /\ Approach' /\ surveyMode' # "done"
          /\ (surveyMode' \in Tiling =>
                surveyMode' \in {"view", "scan"} /\ port_row' = 0 /\ port_col' = 0)
    <3>1. /\ InTurn /\ Approach /\ ((coming = 4 /\ last = 2) \/ (coming = 2 /\ last = 4))
          /\ row = 0 /\ col = 0 /\ port_row = 0
      BY <2>1, <2>5, <2>6 DEF Approach, Tiling, Leftward, Rightward
    <3>2. CASE surveyMode = "first"
      BY <2>1, <2>2, <3>1, <3>2 DEF WholePrompt, ReadAndMove, ReadOn, MovePort, InTurn, Approach,
                                   Tiling, Leftward, Rightward
    <3>3. CASE surveyMode = "left"
      BY <2>1, <2>2, <3>1, <3>3 DEF HasView, ReadOn, Blank, InTurn, Approach,
                                   Tiling, Leftward, Rightward
    <3>4. CASE surveyMode = "right"
      BY <2>1, <2>2, <3>1, <3>4 DEF HasView, ReadOn, Blank, InTurn, Approach,
                                   Tiling, Leftward, Rightward
    <3>5. CASE surveyMode \in {"skip", "blank"}
      BY <2>1, <2>2, <3>1, <3>5 DEF ReadAndMove, MovePort, InTurn, Approach,
                                   Tiling, Leftward, Rightward
    <3> QED BY <2>1, <3>2, <3>3, <3>4, <3>5
  <2>7. ~(surveyMode \in Tiling)
    BY <2>1 DEF Tiling
  <2> QED BY <2>1, <2>4, <2>5, <2>6, <2>7, StillApproaching
<1> QED BY <1>1, <1>2

\* Reading a tile while the reckoning is right: what is in the tile is then in
\* its place, and nothing else has changed.
LEMMA ReadTileSound ==
  ASSUME IInv, InStep, ReadTile
  PROVE  \A s \in Place : mazeRead'[s] = IF InTile(s) THEN s ELSE mazeRead[s]
<1>1. port_row = row /\ port_col = col /\ row \in Nat /\ col \in Nat
  BY DEF IInv, ReckoningRight, TypeOK, ReadTile, Tiling
<1>2. \A s \in Place : s[1] \in Int /\ s[2] \in Int /\ s = <<s[1], s[2]>>
  BY DEF IInv, TypeOK, Place
<1>3. \A s \in Place : <<port_row + s[1] - row, port_col + s[2] - col>> = s
  BY <1>1, <1>2
<1> QED BY <1>3 DEF ReadTile

LEMMA StepOfReading ==
  ASSUME IInv,
         ReadTile \/ AwaitPrompt \/ ScanRight \/ ScanDown \/ ScanLast \/ ReadView
  PROVE  IInv'
<1> USE DEF IInv, sizes, port
<1>1. CASE ReadTile
  <2>1. /\ surveyMode = "scan" /\ surveyMode' = "await" /\ Place' = Place
        /\ UNCHANGED <<maze_rows, maze_cols, vrow, vcol, port_row, port_col, coming, row, col, tidy>>
    BY <1>1 DEF ReadTile, Place
  <2>2. InStep' = InStep
    BY <2>1 DEF InStep, SixChars, SizeLength, Digits
  <2>3. TypeOK'
    <3>1. \A s \in Place : s[1] \in Int /\ s[2] \in Int
      BY DEF TypeOK, Place
    <3>2. \A s \in Place :
            <<port_row + s[1] - row, port_col + s[2] - col>> \in Int \X Int
      BY <3>1 DEF TypeOK
    <3>3. mazeRead' \in [Place -> Int \X Int]
      BY <1>1, <3>2 DEF ReadTile, TypeOK
    <3> QED BY <2>1, <3>3 DEF TypeOK, Modes
  <2>4. ASSUME InStep PROVE ReadSoFar' /\ CopiedInPlace'
    <3>1. \A s \in Place : mazeRead'[s] = IF InTile(s) THEN s ELSE mazeRead[s]
      BY <1>1, <2>4, ReadTileSound
    <3>2. \A s \in Place : s[1] \in 0..maze_rows-1 /\ s[2] \in 0..maze_cols-1
      BY DEF Place
    <3>3. ReadUpTo = col /\ ReadUpTo' = col + vcol
      BY <2>1 DEF ReadUpTo
    <3>4. ReadSoFar'
      BY <2>1, <2>4, <3>1, <3>2, <3>3 DEF ReadSoFar, InTile, TypeOK
    <3>5. CopiedInPlace'
      BY <2>1, <2>4, <3>1 DEF CopiedInPlace
    <3> QED BY <3>4, <3>5
  <2>5. InStep' => Approach' /\ InTurn' /\ OnTile'
    BY <2>1, <2>2 DEF Approach, InTurn, OnTile, Leftward, Rightward, Tiling
  <2>6. ReckoningRight' /\ AllRead' /\ (InStep' => ReadSoFar') /\ CopiedInPlace'
    <3>1. ~InStep' => CopiedInPlace'
      BY DEF CopiedInPlace
    <3> QED BY <2>1, <2>2, <2>4, <3>1 DEF ReckoningRight, AllRead, Tiling
  <2> QED BY <2>3, <2>5, <2>6
<1>2. CASE AwaitPrompt \/ ReadView
  <2>1. /\ surveyMode \in {"await", "view"} /\ Place' = Place
        /\ UNCHANGED <<maze_rows, maze_cols, vrow, vcol, port_row, port_col, row, col, mazeRead>>
    BY <1>2 DEF AwaitPrompt, ReadView, ReadOn, Place
  <2>2. PICK last \in Coming :
          /\ surveyMode = "await" =>
               \E m \in IF WholePrompt(last) THEN {"turn"} ELSE {"await", "adrift"} :
                 ReadOn(last, m)
          /\ surveyMode = "view" => ReadOn(last, IF HasView(last) THEN "scan" ELSE "adrift")
          /\ Takes(last) /\ coming' = 4 - last
    <3>1. CASE AwaitPrompt
      <4>1. PICK last \in Coming :
              \E m \in IF WholePrompt(last) THEN {"turn"} ELSE {"await", "adrift"} :
                ReadOn(last, m)
        BY <3>1 DEF AwaitPrompt
      <4> QED BY <3>1, <4>1 DEF AwaitPrompt, ReadOn
    <3>2. CASE ReadView
      BY <3>2 DEF ReadView, ReadOn
    <3> QED BY <1>2, <3>1, <3>2
  <2>3. last \in 1..4
    BY <2>2 DEF Coming, TypeOK
  <2>4. TypeOK'
    BY <2>1, <2>2, <2>3 DEF TypeOK, ReadOn, Takes, Modes
  <2>5. InStep' => InStep /\ <<coming, last>> \in {<<4, 2>>, <<2, 4>>}
    BY <2>1, <2>2, InStepBefore
  <2>6. ASSUME InStep' PROVE /\ InTurn' /\ ReadUpTo' = ReadUpTo
                             /\ surveyMode' \in {"turn", "scan"}
    <3>1. CASE surveyMode = "await"
      <4>1. coming = 2 /\ last = 4
        BY <2>5, <2>6, <3>1 DEF InTurn
      <4>2. surveyMode' = "turn"
        BY <2>2, <3>1, <4>1 DEF WholePrompt, ReadOn
      <4> QED BY <2>1, <3>1, <4>2 DEF InTurn, ReadUpTo
    <3>2. CASE surveyMode = "view"
      <4>1. coming = 4 /\ last = 2
        BY <2>5, <2>6, <3>2 DEF InTurn
      <4>2. surveyMode' = "scan" /\ coming' = 2
        BY <2>2, <3>2, <4>1 DEF HasView, ReadOn
      <4> QED BY <2>1, <3>2, <4>2 DEF InTurn, ReadUpTo
    <3> QED BY <2>1, <3>1, <3>2
  <2>7. InStep' => Approach' /\ OnTile' /\ ReadSoFar'
    BY <2>1, <2>5, <2>6 DEF Approach, OnTile, ReadSoFar, Leftward, Rightward, Tiling
  <2>8. ReckoningRight' /\ CopiedInPlace' /\ AllRead'
    BY <2>1, <2>5, <2>6 DEF ReckoningRight, CopiedInPlace, AllRead, Tiling
  <2> QED BY <2>4, <2>6, <2>7, <2>8
<1>3. CASE ScanRight \/ ScanDown \/ ScanLast
  <2>1. /\ surveyMode = "turn" /\ Place' = Place
        /\ UNCHANGED <<maze_rows, maze_cols, vrow, vcol, mazeRead, tidy>>
    BY <1>3 DEF ScanRight, ScanDown, ScanLast, Place
  <2>2. InStep' = InStep
    BY <2>1 DEF InStep, SixChars, SizeLength, Digits
  <2>3. CopiedInPlace'
    BY <2>1, <2>2 DEF CopiedInPlace
  \* All in the present row of tiles and to the left of its end has been read.
  <2>4. InStep => \A s \in Place : s[1] < row \/ (s[1] < row + vrow /\ s[2] < col + vcol)
                                   => mazeRead[s] = s
    BY <2>1 DEF ReadSoFar, ReadUpTo
  <2>5. \A s \in Place : s[1] \in 0..maze_rows-1 /\ s[2] \in 0..maze_cols-1
    BY DEF Place
  <2>6. InStep => port_row = row /\ port_col = col
    BY <2>1 DEF ReckoningRight, Tiling
  <2>7. CASE ScanRight
    <3>1. /\ col' = col + vcol /\ row' = row /\ port_col' = port_col + vcol
          /\ port_row' = port_row + 0 /\ surveyMode' = "view" /\ coming' = 4
          /\ ~(col + vcol > maze_cols)
      BY <2>7 DEF ScanRight, RightmostTile, MovePort
    <3>2. TypeOK' /\ col + vcol <= maze_cols
      BY <2>1, <3>1 DEF TypeOK, Modes
    <3>3. InStep => col' % vcol = 0
      BY <3>1, NextMultiple DEF OnTile, TypeOK
    <3>4. InStep' => Approach' /\ InTurn' /\ OnTile'
      BY <2>1, <2>2, <3>1, <3>2, <3>3 DEF Approach, InTurn, OnTile, Leftward, Rightward, Tiling
    <3>5. InStep' => ReadSoFar'
      BY <2>1, <2>2, <2>4, <3>1 DEF ReadSoFar, ReadUpTo
    <3>6. ReckoningRight' /\ AllRead'
      BY <2>2, <2>6, <3>1 DEF ReckoningRight, AllRead, TypeOK
    <3> QED BY <2>3, <3>2, <3>4, <3>5, <3>6
  <2>8. CASE ScanDown
    <3>1. /\ col' = 0 /\ row' = row + vrow /\ port_col' = port_col + (-BackToLeft)
          /\ port_row' = port_row + vrow /\ surveyMode' = "view" /\ coming' = 4
          /\ col + vcol > maze_cols
      BY <2>8 DEF ScanDown, RightmostTile, MovePort
    <3>2. BackToLeft \in Int
      BY DEF BackToLeft, TypeOK
    <3>3. TypeOK'
      BY <2>1, <3>1, <3>2 DEF TypeOK, Modes
    <3>4. InStep => BackToLeft = col
      <4>1. vcol \in Nat \ {0} /\ maze_cols \in Nat /\ col \in Nat
        BY DEF TypeOK
      <4>2. InStep => col % vcol = 0 /\ col <= maze_cols /\ maze_cols < col + vcol
        BY <3>1, <4>1 DEF OnTile
      <4> QED BY <4>1, <4>2, LastMultiple DEF BackToLeft
    <3>5. InStep' => Approach' /\ InTurn' /\ OnTile'
      BY <2>1, <2>2, <3>1, <3>3 DEF Approach, InTurn, OnTile, Leftward, Rightward, Tiling, TypeOK
    <3>6. InStep' => ReadSoFar'
      <4>1. ReadUpTo' = 0
        BY <3>1 DEF ReadUpTo
      <4> QED BY <2>1, <2>2, <2>4, <2>5, <3>1, <4>1 DEF ReadSoFar, TypeOK
    <3>7. ReckoningRight' /\ AllRead'
      BY <2>2, <2>6, <3>1, <3>4 DEF ReckoningRight, AllRead, TypeOK
    <3> QED BY <2>3, <3>3, <3>5, <3>6, <3>7
  <2>9. CASE ScanLast
    <3>1. /\ UNCHANGED <<port_row, port_col, coming, row, col>> /\ surveyMode' = "done"
          /\ col + vcol > maze_cols /\ row + vrow > maze_rows
      BY <2>9 DEF ScanLast, RightmostTile, LowestTile
    <3>2. InStep => \A s \in Place : mazeRead'[s] = s
      BY <2>1, <2>4, <2>5, <3>1 DEF TypeOK
    <3>3. TypeOK'
      BY <2>1, <3>1 DEF TypeOK, Modes
    <3>4. InStep' => Approach' /\ InTurn' /\ OnTile'
      BY <2>1, <2>2, <3>1 DEF Approach, InTurn, OnTile, Leftward, Rightward, Tiling
    <3>5. AllRead' /\ (InStep' => ReadSoFar') /\ ReckoningRight'
      BY <2>1, <2>2, <2>6, <3>1, <3>2 DEF AllRead, ReadSoFar, ReckoningRight
    <3> QED BY <2>3, <3>3, <3>4, <3>5
  <2> QED BY <1>3, <2>7, <2>8, <2>9
<1> QED BY <1>1, <1>2, <1>3

\* Each step of the survey keeps the invariant.
LEMMA NextSurvey == IInv /\ [Next]_vars => IInv'
<1> SUFFICES ASSUME IInv, [Next]_vars PROVE IInv'
  OBVIOUS
<1>1. CASE UNCHANGED vars
  BY <1>1 DEF vars, sizes, port, IInv, TypeOK, InStep, SixChars, SizeLength, Digits, Approach,
              InTurn, OnTile, ReadSoFar, ReadUpTo, ReckoningRight, CopiedInPlace, AllRead, Place,
              Leftward, Rightward, Tiling
<1> QED BY <1>1, StepOfApproach, StepOfReading DEF Next

\* The invariant of the survey, while client and referee are in step.
THEOREM SurveyInvariance == Spec => []IInv
BY InitSurvey, NextSurvey, PTL DEF Spec

\* From tile to tile, row and col are where the view port is, while client and referee
\* are in step.
THEOREM ReckoningStaysRight == Spec => []ReckoningRight
<1>1. IInv => ReckoningRight
  BY DEF IInv
<1> QED BY SurveyInvariance, <1>1, PTL

\* Until a view is split, or run together with a prompt, no cell is copied to the place
\* of another.
THEOREM NothingMisplaced == Spec => []CopiedInPlace
<1>1. IInv => CopiedInPlace
  BY DEF IInv
<1> QED BY SurveyInvariance, <1>1, PTL

\* When the loop over the tiles ends, with client and referee in step, each cell has
\* been read.
THEOREM NothingMissed == Spec => []AllRead
<1>1. IInv => AllRead
  BY DEF IInv
<1> QED BY SurveyInvariance, <1>1, PTL

-----------------------------------------------------------------------------
\* Sequences that grow and shrink at their end.
LEMMA ShortenProperties ==
  ASSUME NEW S, NEW q \in Seq(S), q # <<>>
  PROVE  LET front == SubSeq(q, 1, Len(q) - 1) IN
         /\ Len(q) \in Nat \ {0} /\ q[Len(q)] \in S
         /\ front \in Seq(S) /\ Len(front) = Len(q) - 1
         /\ \A k \in 1..Len(q)-1 : front[k] = q[k]
<1>1. Len(q) \in Nat \ {0} /\ \A k \in 1..Len(q) : q[k] \in S
  BY EmptySeq, LenProperties, ElementOfSeq
<1> DEFINE n     == Len(q) - 1
           front == SubSeq(q, 1, n)
<1>2. n \in Nat /\ \A k \in 1..n : q[k] \in S
  BY <1>1
<1>3. /\ front \in Seq(S) /\ Len(front) = IF 1 <= n THEN n-1+1 ELSE 0
      /\ \A k \in 1..n-1+1 : front[k] = q[1+k-1]
  BY <1>2, SubSeqProperties
<1>4. Len(front) = n /\ \A k \in 1..n : front[k] = q[k]
  <2> HIDE DEF front, n
  <2>1. n-1+1 = n /\ (~(1 <= n) => n = 0) /\ \A k \in 1..n : 1+k-1 = k
    BY <1>2
  <2>2. Len(front) = n
    BY <1>3, <2>1
  <2>3. \A k \in 1..n : front[k] = q[k]
    BY <1>3, <2>1
  <2> QED BY <2>2, <2>3
<1> QED BY <1>1, <1>3, <1>4

LEMMA AppendElements ==
  ASSUME NEW S, NEW q \in Seq(S), NEW e \in S
  PROVE  /\ Append(q, e) \in Seq(S) /\ Append(q, e) # <<>>
         /\ Len(Append(q, e)) = Len(q) + 1 /\ Len(q) \in Nat
         /\ \A k \in 1..Len(q) : Append(q, e)[k] = q[k]
         /\ Append(q, e)[Len(q) + 1] = e
BY AppendProperties, LenProperties

-----------------------------------------------------------------------------
\* The exploring client: cells of the maze and elements of the array.

\* The element of the array for a cell.
GridOf(s) == <<s[1], s[2] + shift>>

LEMMA PlacedNumbers ==
  ASSUME ExploreTypeOK, Placed
  PROVE  /\ Rows \in Nat /\ Cols \in Nat /\ HalfH \in Nat \ {0} /\ HalfW \in Nat \ {0}
         /\ Width \in Nat /\ shift \in Int /\ shift >= 1 /\ shift + Cols + 1 < Width
<1>1. /\ Rows \in Nat /\ Cols \in Nat /\ HalfH \in Nat \ {0} /\ HalfW \in Nat \ {0}
      /\ Width \in Nat /\ Origin \in Nat /\ Origin >= Cols
      /\ Width >= Origin + Cols + 2 * HalfW
  BY SizeAssumption
<1>2. shift \in Origin + HalfW - Cols .. Origin + HalfW - 1
  BY DEF Placed
<1> QED BY <1>1, <1>2

\* Cells and elements of the array stand for each other.
LEMMA GridOfCell ==
  ASSUME ExploreTypeOK, Placed, NEW s \in Cell
  PROVE  /\ GridOf(s) \in Grid /\ CellOf(GridOf(s)) = s
         /\ s[1] \in Int /\ s[2] \in Int /\ s = <<s[1], s[2]>>
<1>1. /\ Rows \in Nat /\ Cols \in Nat
      /\ Width \in Nat /\ shift \in Int /\ shift >= 1 /\ shift + Cols + 1 < Width
  BY PlacedNumbers
<1>2. PICK x \in 0..Rows+1, y \in 0..Cols+1 : s = <<x, y>>
  BY DEF Cell
<1>3. y + shift \in 0..Width-1 /\ (y + shift) - shift = y
  BY <1>1, <1>2
<1> QED BY <1>1, <1>2, <1>3 DEF GridOf, CellOf, Grid

LEMMA CellOfGrid ==
  ASSUME ExploreTypeOK, NEW g \in Grid
  PROVE  /\ g[1] \in Int /\ g[2] \in Int /\ g = <<g[1], g[2]>>
         /\ CellOf(g) = <<g[1], g[2] - shift>> /\ GridOf(CellOf(g)) = g
<1>1. g[1] \in Int /\ g[2] \in Int /\ g = <<g[1], g[2]>>
  BY SizeAssumption DEF Grid
<1>2. shift \in Int
  BY DEF ExploreTypeOK
<1>3. (g[2] - shift) + shift = g[2]
  BY <1>1, <1>2
<1> QED BY <1>1, <1>3 DEF CellOf, GridOf

\* A step in the array is a step in the maze, which has a wall around it.
LEMMA AheadOnGrid ==
  ASSUME ExploreTypeOK, Placed, NEW g \in Grid, CellOf(g) \in Cell \ walls, NEW m \in Move
  PROVE  /\ Ahead(g, m) \in Grid /\ CellOf(Ahead(g, m)) \in Cell
         /\ CellOf(Ahead(g, m)) = Ahead(CellOf(g), m)
         /\ Ahead(g, m) = GridOf(Ahead(CellOf(g), m))
<1> DEFINE s == CellOf(g)
<1>1. Rows \in Nat /\ Cols \in Nat /\ shift \in Int
  BY PlacedNumbers
<1>2. g[1] \in Int /\ g[2] \in Int /\ g = <<g[1], g[2]>> /\ s = <<g[1], g[2] - shift>>
  BY CellOfGrid
<1>3. s \in Cell /\ s \notin Edge
  BY DEF Placed
<1>4. s[1] \in 1..Rows /\ s[2] \in 1..Cols
  BY <1>1, <1>3 DEF Cell, Edge
<1>5. s[1] = g[1] /\ s[2] = g[2] - shift
  BY <1>2
<1> HIDE DEF s
<1>6. Ahead(s, m) \in Cell
  BY <1>1, <1>4 DEF Ahead, Cell, Move
<1>7. GridOf(Ahead(s, m)) = Ahead(g, m)
  BY <1>1, <1>2, <1>5 DEF Ahead, GridOf, Move
<1>8. GridOf(Ahead(s, m)) \in Grid /\ CellOf(GridOf(Ahead(s, m))) = Ahead(s, m)
  BY <1>6, GridOfCell
<1> QED BY <1>6, <1>7, <1>8 DEF s

\* What has been seen and is neither wall nor off the maze is an open cell.
LEMMA SeenOpen ==
  ASSUME KnownIsTrue, NEW g \in Grid, maze[g] \notin {"?", "#", " "}
  PROVE  CellOf(g) \in Cell \ walls
BY DEF KnownIsTrue, Known

LEMMA CallsOnOpenCells ==
  ASSUME ExploreInv, NEW k \in 1..Len(stack)
  PROVE  /\ stack[k].at \in Grid /\ stack[k].dir \in Move
         /\ CellOf(stack[k].at) \in Cell \ walls
         /\ maze[stack[k].at] \notin {"?", "#", " "}
<1>1. stack[k] \in Frame
  BY ElementOfSeq DEF ExploreInv, ExploreTypeOK
<1>2. stack[k].at \in Grid /\ stack[k].dir \in Move
  BY <1>1 DEF Frame
<1>3. maze[stack[k].at] \notin {"?", "#", " "}
  BY DEF ExploreInv, Trail
<1> QED BY <1>2, <1>3, SeenOpen DEF ExploreInv

LEMMA PlayerOnMap ==
  ASSUME ExploreInv, mode \in {"call", "return", "blocked"}
  PROVE  CellOf(at) = player /\ at = GridOf(player) /\ at \in Grid
<1>1. player \in Cell
  BY DEF ExploreInv, Placed
<1>2. at = GridOf(player)
  BY DEF ExploreInv, Located, GridOf
<1> QED BY <1>1, <1>2, GridOfCell DEF ExploreInv

\* The argument of a call is in the maze.
LEMMA HereInMaze ==
  ASSUME ExploreInv, mode = "call"
  PROVE  here \in Grid /\ CellOf(here) \in Cell /\ maze[here] # " "
<1>1. CASE stack = <<>>
  <2>1. here = at
    BY <1>1 DEF ExploreInv, Trail
  <2>2. at \in Grid /\ CellOf(at) = player /\ player \in Cell
    BY PlayerOnMap DEF ExploreInv, Placed
  <2>3. maze[at] = "*"
    BY DEF ExploreInv, AroundPlayer
  <2> QED BY <2>1, <2>2, <2>3
<1>2. CASE stack # <<>>
  <2>1. here = Ahead(Top.at, Top.dir)
    BY <1>2 DEF ExploreInv, Trail
  <2>2. Len(stack) \in 1..Len(stack)
    BY <1>2, ShortenProperties DEF ExploreInv, ExploreTypeOK
  <2>3. Top.at \in Grid /\ Top.dir \in Move /\ CellOf(Top.at) \in Cell \ walls
    BY <2>2, CallsOnOpenCells DEF Top
  <2>4. here \in Grid /\ CellOf(here) \in Cell
    BY <2>1, <2>3, AheadOnGrid DEF ExploreInv
  <2>5. maze[here] # " "
    BY <2>4 DEF ExploreInv, KnownIsTrue, Known
  <2> QED BY <2>4, <2>5
<1> QED BY <1>1, <1>2

-----------------------------------------------------------------------------
\* While it searches the client moves nothing and draws nothing.
LEMMA SearchKeepsMap ==
  ASSUME ExploreInv, UNCHANGED <<given, player, client>>, mode \in {"call", "return"},
         mode' \in {"call", "return", "walk", "blocked"}
  PROVE  /\ Placed' /\ KnownIsTrue'
         /\ maze' = maze /\ at' = at /\ walls' = walls /\ exit' = exit /\ shift' = shift
         /\ player' = player /\ c' = c /\ end_seen' = end_seen
         /\ maze[at] = "*" /\ \A m \in Move : maze[Ahead(at, m)] # "?"
         /\ \A g \in Grid : maze[g] = "*" => g = at
         /\ at[2] = c + HalfW /\ at = <<player[1], player[2] + shift>>
<1>1. /\ maze' = maze /\ at' = at /\ walls' = walls /\ exit' = exit /\ shift' = shift
      /\ player' = player /\ c' = c /\ end_seen' = end_seen
  BY DEF given, client
<1>2. Placed'
  BY <1>1 DEF ExploreInv, Placed
<1>3. /\ maze[at] = "*" /\ \A m \in Move : maze[Ahead(at, m)] # "?"
      /\ \A g \in Grid : maze[g] = "*" => g = at
  BY DEF ExploreInv, AroundPlayer
<1>4. at[2] = c + HalfW /\ at = <<player[1], player[2] + shift>>
  BY DEF ExploreInv, Located
<1>5. \A g \in Grid : maze[g] = "*" => CellOf(g) = player
  BY <1>3, PlayerOnMap
<1>6. \A g : CellOf(g)' = CellOf(g)
  BY <1>1 DEF CellOf
<1>7. KnownIsTrue'
  BY <1>1, <1>5, <1>6 DEF ExploreInv, KnownIsTrue, Known, CellOf
<1> QED BY <1>1, <1>2, <1>3, <1>4, <1>7

\* So a step of the search has only to keep the trail.
LEMMA SearchStep ==
  ASSUME ExploreInv, UNCHANGED <<given, player, client, i>>, mode \in {"call", "return"},
         mode' \in {"call", "return"},
         toExit' \in BOOLEAN, here' \in Grid, res' \in BOOLEAN, visit' \subseteq Grid,
         path' \in Seq(Symbol), stack' \in Seq(Frame),
         mode' = "call" => ~res', res' /\ toExit' => maze[here'] = "E",
         Trail', PathSpellsTrail'
  PROVE  ExploreInv'
<1>1. /\ Placed' /\ KnownIsTrue'
      /\ maze' = maze /\ at' = at /\ walls' = walls /\ exit' = exit /\ shift' = shift
      /\ player' = player /\ c' = c /\ end_seen' = end_seen
      /\ maze[at] = "*" /\ \A m \in Move : maze[Ahead(at, m)] # "?"
      /\ \A g \in Grid : maze[g] = "*" => g = at
      /\ at[2] = c + HalfW /\ at = <<player[1], player[2] + shift>>
  BY SearchKeepsMap
<1>2. ExploreTypeOK'
  BY <1>1 DEF ExploreInv, ExploreTypeOK
<1>3. AroundPlayer'
  BY <1>1 DEF AroundPlayer
<1>4. Located' /\ WalkIsOpen'
  BY <1>1 DEF Located, WalkIsOpen
<1> QED BY <1>1, <1>2, <1>3, <1>4 DEF ExploreInv

LEMMA FoundKeeps ==
  ASSUME ExploreInv, Found
  PROVE  ExploreInv'
<1>1. /\ UNCHANGED <<given, player, client, i>> /\ UNCHANGED <<visit, stack, here, toExit>>
      /\ mode = "call" /\ mode' = "return" /\ res' = TRUE
      /\ FoundExit \/ FoundUnknown
      /\ path' = IF FoundExit THEN Append(path, Newline) ELSE UpToUnknown
      /\ maze' = maze /\ at' = at /\ walls' = walls /\ exit' = exit /\ shift' = shift
  BY DEF Found, given, client
<1>2. /\ stack \in Seq(Frame) /\ path \in Seq(Symbol) /\ ~res /\ Len(path) = Len(stack)
      /\ maze[at] = "*" /\ \A m \in Move : maze[Ahead(at, m)] # "?"
      /\ toExit \in BOOLEAN /\ visit \subseteq Grid
      /\ \A k \in 1..Len(path) : k <= Len(stack) => path[k] = Letter[stack[k].dir]
  BY <1>1 DEF ExploreInv, ExploreTypeOK, AroundPlayer, PathSpellsTrail
<1>3. here \in Grid /\ CellOf(here) \in Cell
  BY <1>1, HereInMaze
<1>4. stack # <<>> /\ here = Ahead(Top.at, Top.dir)
  <2>1. maze[here] # "*"
    BY <1>1 DEF FoundExit, FoundUnknown
  <2> QED BY <1>1, <1>2, <2>1 DEF ExploreInv, Trail
<1>5. Len(stack) \in Nat \ {0} /\ path # <<>> /\ Newline \in Symbol
  BY <1>2, <1>4, EmptySeq, ShortenProperties DEF Symbol
<1>6. FoundUnknown => Len(stack) > 1
  <2> SUFFICES ASSUME FoundUnknown, ~(Len(stack) > 1) PROVE FALSE
    OBVIOUS
  <2>1. Len(stack) = 1 /\ 1 \in 1..Len(stack)
    <3>1. \A n \in Nat \ {0} : ~(n > 1) => n = 1
      OBVIOUS
    <3>2. Len(stack) = 1
      BY <1>5, <3>1
    <3> QED BY <3>2
  <2>2. Top = stack[1] /\ stack[1].dir \in Move
    BY <2>1, CallsOnOpenCells DEF Top
  <2>3. stack[1].at = at
    BY <2>1 DEF ExploreInv, Trail
  <2> QED BY <1>2, <1>4, <2>2, <2>3 DEF FoundUnknown
<1>7. /\ path' \in Seq(Symbol) /\ Len(path') = Len(stack) + (IF toExit THEN 1 ELSE 0)
      /\ path'[Len(path')] = Newline
      /\ \A k \in 1..Len(path')-1 : k <= Len(stack) => path'[k] = Letter[stack[k].dir]
  <2>1. CASE FoundExit
    <3>1. path' = Append(path, Newline) /\ toExit
      BY <1>1, <2>1 DEF FoundExit
    <3>2. /\ path' \in Seq(Symbol) /\ Len(path') = Len(path) + 1 /\ Len(path) \in Nat
          /\ \A k \in 1..Len(path) : path'[k] = path[k]
          /\ path'[Len(path) + 1] = Newline
      BY <1>2, <1>5, <3>1, AppendElements
    <3>3. Len(path') - 1 = Len(path)
      BY <3>2
    <3>4. \A k \in 1..Len(path')-1 : k <= Len(stack) => path'[k] = Letter[stack[k].dir]
      BY <1>2, <3>2, <3>3
    <3> QED BY <1>2, <3>1, <3>2, <3>4
  <2>2. CASE FoundUnknown
    <3>1. path' = Append(Shorter, Newline) /\ ~toExit
      BY <1>1, <2>2 DEF FoundExit, FoundUnknown, UpToUnknown
    <3>2. /\ Shorter \in Seq(Symbol) /\ Len(Shorter) = Len(path) - 1 /\ Len(path) \in Nat \ {0}
          /\ \A k \in 1..Len(path)-1 : Shorter[k] = path[k]
      BY <1>2, <1>5, ShortenProperties DEF Shorter
    <3>3. /\ path' \in Seq(Symbol) /\ Len(path') = Len(Shorter) + 1
          /\ \A k \in 1..Len(Shorter) : path'[k] = Shorter[k]
          /\ path'[Len(Shorter) + 1] = Newline
      BY <1>5, <3>1, <3>2, AppendElements
    <3>4. Len(path') - 1 = Len(path) - 1 /\ Len(path') = Len(path)
      BY <3>2, <3>3
    <3>5. \A k \in 1..Len(path')-1 : k <= Len(stack) => path'[k] = Letter[stack[k].dir]
      BY <1>2, <3>2, <3>3, <3>4
    <3> QED BY <1>2, <3>1, <3>2, <3>3, <3>4, <3>5
  <2> QED BY <1>1, <2>1, <2>2
<1>8. toExit => CellOf(here) = exit /\ maze[here] = "E"
  <2> SUFFICES ASSUME toExit PROVE maze[here] = "E" /\ CellOf(here) = exit
    OBVIOUS
  <2>1. maze[here] = "E"
    BY <1>1 DEF FoundExit, FoundUnknown
  <2> QED BY <1>3, <2>1 DEF ExploreInv, KnownIsTrue, Known
<1>9. ~toExit => Len(stack) > 1
  BY <1>1, <1>6 DEF FoundExit
<1>10. CellOf(here)' = CellOf(here) /\ Top' = Top
  BY <1>1 DEF CellOf, Top
<1>11. PathSpellsTrail'
  BY <1>1, <1>2, <1>4, <1>7, <1>8, <1>9, <1>10 DEF PathSpellsTrail
<1>12. Trail'
  BY <1>1 DEF ExploreInv, Trail, CellOf
<1> QED BY <1>1, <1>2, <1>3, <1>7, <1>8, <1>11, <1>12, SearchStep

LEMMA TurnBackKeeps ==
  ASSUME ExploreInv, TurnBack
  PROVE  ExploreInv'
<1>1. /\ UNCHANGED <<given, player, client, i>> /\ UNCHANGED <<visit, path, stack, here, toExit>>
      /\ mode = "call" /\ mode' = "return" /\ res' = FALSE
      /\ maze' = maze /\ at' = at /\ walls' = walls /\ exit' = exit /\ shift' = shift
  BY DEF TurnBack, given, client
<1>2. /\ stack \in Seq(Frame) /\ path \in Seq(Symbol) /\ ~res /\ Len(path) = Len(stack)
      /\ toExit \in BOOLEAN /\ visit \subseteq Grid /\ here \in Grid
  BY <1>1 DEF ExploreInv, ExploreTypeOK, AroundPlayer, PathSpellsTrail
<1>3. PathSpellsTrail'
  BY <1>1, <1>2 DEF ExploreInv, PathSpellsTrail
<1>4. Trail'
  BY <1>1 DEF ExploreInv, Trail, CellOf
<1> QED BY <1>1, <1>2, <1>3, <1>4, SearchStep

LEMMA EnterKeeps ==
  ASSUME ExploreInv, Enter
  PROVE  ExploreInv'
<1> DEFINE frame == [at |-> here, dir |-> 1]
           deep  == Append(stack, frame)
<1>1. /\ UNCHANGED <<given, player, client, i>> /\ UNCHANGED <<res, toExit>>
      /\ mode = "call" /\ mode' = "call" /\ ~Stops
      /\ visit' = visit \union {here} /\ stack' = deep /\ path' = Append(path, Letter[1])
      /\ here' = Ahead(here, 1)
      /\ maze' = maze /\ at' = at /\ walls' = walls /\ exit' = exit /\ shift' = shift
  BY DEF Enter, Call, given, client
<1>2. /\ stack \in Seq(Frame) /\ path \in Seq(Symbol) /\ ~res /\ Len(path) = Len(stack)
      /\ toExit \in BOOLEAN /\ visit \subseteq Grid /\ here \in Grid
      /\ \A k \in 1..Len(path) : k <= Len(stack) => path[k] = Letter[stack[k].dir]
  BY <1>1 DEF ExploreInv, ExploreTypeOK, AroundPlayer, PathSpellsTrail
<1>3. /\ maze[here] \notin {"?", "#", " "} /\ CellOf(here) \in Cell \ walls /\ here \notin visit
  <2>1. maze[here] \notin {"?", "#", " "} /\ here \notin visit
    BY <1>1, HereInMaze DEF Stops
  <2> QED BY <1>2, <2>1, SeenOpen DEF ExploreInv
<1>4. here' \in Grid
  <2>1. 1 \in Move
    BY DEF Move
  <2> QED BY <1>1, <1>2, <1>3, <2>1, AheadOnGrid DEF ExploreInv
<1>5. frame \in Frame /\ frame.at = here /\ frame.dir = 1 /\ Letter[1] \in Symbol
  BY <1>2 DEF Frame, Move, Symbol
<1> HIDE DEF frame
<1>6. /\ deep \in Seq(Frame) /\ Len(deep) = Len(stack) + 1 /\ Len(stack) \in Nat
      /\ \A k \in 1..Len(stack) : deep[k] = stack[k]
      /\ deep[Len(stack) + 1] = frame /\ deep # <<>>
  BY <1>2, <1>5, AppendElements
<1> HIDE DEF deep
<1>7. /\ path' \in Seq(Symbol) /\ Len(path') = Len(path) + 1
      /\ \A k \in 1..Len(path) : path'[k] = path[k]
      /\ path'[Len(path) + 1] = Letter[1]
  BY <1>1, <1>2, <1>5, AppendElements
<1>8. PathSpellsTrail'
  <2>1. \A k \in 1..Len(path') : k <= Len(stack') => path'[k] = Letter[stack'[k].dir]
    <3> SUFFICES ASSUME NEW k \in 1..Len(stack)+1
                 PROVE  path'[k] = Letter[deep[k].dir]
      BY <1>1, <1>2, <1>6, <1>7
    <3>1. CASE k = Len(stack) + 1
      BY <1>2, <1>5, <1>6, <1>7, <3>1
    <3>2. CASE k \in 1..Len(stack)
      BY <1>2, <1>6, <1>7, <3>2
    <3> QED BY <1>6, <3>1, <3>2
  <2>2. Len(path') = Len(stack')
    BY <1>1, <1>2, <1>6, <1>7
  <2> QED BY <1>1, <1>2, <2>1, <2>2 DEF PathSpellsTrail
<1>9. Trail'
  <2>1. \A k \in 1..Len(stack) : /\ stack[k].at \in visit /\ maze[stack[k].at] \notin {"#", "?", " "}
                                 /\ CellOf(stack[k].at) \notin walls
                                 /\ stack[k].at = IF k = 1 THEN at ELSE Ahead(stack[k-1].at, stack[k-1].dir)
    BY DEF ExploreInv, Trail
  <2>2. here = IF stack = <<>> THEN at ELSE Ahead(stack[Len(stack)].at, stack[Len(stack)].dir)
    BY <1>1 DEF ExploreInv, Trail, Top
  <2>3. stack = <<>> <=> Len(stack) = 0
    BY <1>2, EmptySeq
  <2>4. \A k \in 1..Len(stack)+1 :
          /\ deep[k].at \in visit' /\ maze[deep[k].at] \notin {"#", "?", " "}
          /\ CellOf(deep[k].at) \notin walls
          /\ deep[k].at = IF k = 1 THEN at ELSE Ahead(deep[k-1].at, deep[k-1].dir)
    <3> SUFFICES ASSUME NEW k \in 1..Len(stack)+1
                 PROVE  /\ deep[k].at \in visit' /\ maze[deep[k].at] \notin {"#", "?", " "}
                        /\ CellOf(deep[k].at) \notin walls
                        /\ deep[k].at = IF k = 1 THEN at ELSE Ahead(deep[k-1].at, deep[k-1].dir)
      OBVIOUS
    <3>1. k # 1 => k-1 \in 1..Len(stack) /\ deep[k-1] = stack[k-1]
      BY <1>6
    <3>2. CASE k = Len(stack) + 1
      <4>1. deep[k].at = here
        BY <1>5, <1>6, <3>2
      <4>2. Len(stack) = 0 <=> k = 1
        BY <1>6, <3>2
      <4>3. k - 1 = Len(stack)
        BY <1>6, <3>2
      <4>4. here = IF k = 1 THEN at ELSE Ahead(deep[k-1].at, deep[k-1].dir)
        BY <2>2, <2>3, <3>1, <4>2, <4>3
      <4> QED BY <1>1, <1>3, <4>1, <4>4
    <3>3. CASE k \in 1..Len(stack)
      <4>1. deep[k] = stack[k] /\ (k # 1 => deep[k-1] = stack[k-1])
        BY <1>6, <3>1, <3>3
      <4>2. stack[k].at \in visit'
        BY <1>1, <2>1, <3>3
      <4>3. /\ maze[stack[k].at] \notin {"#", "?", " "} /\ CellOf(stack[k].at) \notin walls
            /\ stack[k].at = IF k = 1 THEN at ELSE Ahead(stack[k-1].at, stack[k-1].dir)
        BY <2>1, <3>3
      <4>4. k = 1 => deep[k].at = at
        BY <4>1, <4>3
      <4>5. k # 1 => deep[k].at = Ahead(deep[k-1].at, deep[k-1].dir)
        BY <4>1, <4>3
      <4>6. /\ deep[k].at \in visit' /\ maze[deep[k].at] \notin {"#", "?", " "}
            /\ CellOf(deep[k].at) \notin walls
        BY <4>1, <4>2, <4>3
      <4> QED BY <4>4, <4>5, <4>6
    <3>4. k = Len(stack) + 1 \/ k \in 1..Len(stack)
      BY <1>6
    <3> QED BY <3>2, <3>3, <3>4
  <2>5. \A k, l \in 1..Len(stack)+1 : deep[k].at = deep[l].at => k = l
    <3>1. \A k, l \in 1..Len(stack) : stack[k].at = stack[l].at => k = l
      BY DEF ExploreInv, Trail
    <3>2. \A k \in 1..Len(stack) : deep[k].at # here
      <4>1. \A k \in 1..Len(stack) : stack[k].at \in visit
        BY <2>1
      <4> QED BY <1>3, <1>6, <4>1
    <3>3. deep[Len(stack) + 1].at = here
      BY <1>5, <1>6
    <3>4. \A k \in 1..Len(stack)+1 : k \in 1..Len(stack) \/ k = Len(stack) + 1
      BY <1>6
    <3> QED BY <1>6, <3>1, <3>2, <3>3, <3>4
  <2>6. Top'.at = here /\ Top'.dir = 1
    BY <1>1, <1>5, <1>6 DEF Top
  <2>7. \A g : CellOf(g)' = CellOf(g)
    BY <1>1 DEF CellOf
  <2> QED BY <1>1, <1>6, <2>4, <2>5, <2>6, <2>7 DEF Trail, CellOf
<1>10. visit' \subseteq Grid /\ ~res' /\ res' \in BOOLEAN /\ toExit' \in BOOLEAN
  BY <1>1, <1>2 DEF ExploreInv, ExploreTypeOK
<1>11. stack' \in Seq(Frame) /\ path' \in Seq(Symbol)
  BY <1>1, <1>6, <1>7
<1> QED BY <1>1, <1>4, <1>8, <1>9, <1>10, <1>11, SearchStep

LEMMA TurnKeeps ==
  ASSUME ExploreInv, Turn
  PROVE  ExploreInv'
<1>1. PICK n \in Nat, m \in Move : n = Len(stack) /\ m = Top.dir + 1
  <2>1. stack \in Seq(Frame) /\ stack # <<>> /\ ~AllTried
    BY DEF Turn, ExploreInv, ExploreTypeOK
  <2>2. Len(stack) \in Nat \ {0}
    BY <2>1, ShortenProperties
  <2>3. Top.dir \in Move /\ Top.dir # 4
    <3>1. Len(stack) \in 1..Len(stack)
      BY <2>2
    <3>2. Top.dir \in Move
      BY <3>1, CallsOnOpenCells DEF Top
    <3> QED BY <2>1, <3>2 DEF AllTried
  <2>4. Top.dir + 1 \in Move
    BY <2>3 DEF Move
  <2> QED BY <2>2, <2>4
<1> DEFINE turned == [stack EXCEPT ![n].dir = m]
<1>2. /\ UNCHANGED <<given, player, client, i>> /\ UNCHANGED <<visit, res, toExit>>
      /\ mode = "return" /\ mode' = "call" /\ ~res /\ stack # <<>>
      /\ stack' = turned /\ path' = Turned(m) /\ here' = Ahead(Top.at, m)
      /\ maze' = maze /\ at' = at /\ walls' = walls /\ exit' = exit /\ shift' = shift
  BY <1>1 DEF Turn, Call, given, client
<1>3. /\ stack \in Seq(Frame) /\ path \in Seq(Symbol) /\ Len(path) = Len(stack)
      /\ toExit \in BOOLEAN /\ visit \subseteq Grid
      /\ \A k \in 1..Len(path) : k <= Len(stack) => path[k] = Letter[stack[k].dir]
  BY <1>2 DEF ExploreInv, ExploreTypeOK, PathSpellsTrail
<1>4. n \in 1..Len(stack) /\ n # 0 /\ Len(stack) = n /\ Top = stack[n]
  BY <1>1, <1>2, <1>3, EmptySeq, ShortenProperties DEF Top
<1>5. /\ stack[n] \in Frame /\ stack[n].at \in Grid /\ CellOf(stack[n].at) \in Cell \ walls
      /\ \A k \in 1..n : stack[k] \in Frame
  BY <1>3, <1>4, CallsOnOpenCells, ElementOfSeq
<1>6. /\ turned \in Seq(Frame) /\ Len(turned) = n
      /\ \A k \in 1..n-1 : turned[k] = stack[k]
      /\ turned[n].at = stack[n].at /\ turned[n].dir = m
  <2> DEFINE f == [stack[n] EXCEPT !.dir = m]
  <2>1. f \in Frame /\ f.at = stack[n].at /\ f.dir = m
    BY <1>5 DEF Frame
  <2>2. turned = [stack EXCEPT ![n] = f]
    OBVIOUS
  <2> HIDE DEF f, turned
  <2>3. /\ turned \in Seq(Frame) /\ Len(turned) = Len(stack)
        /\ \A k \in 1..Len(stack) : turned[k] = IF k = n THEN f ELSE stack[k]
    BY <1>3, <1>4, <2>1, <2>2, ExceptSeq
  <2> QED BY <1>4, <2>1, <2>3
<1> HIDE DEF turned
<1>7. here' \in Grid
  BY <1>2, <1>4, <1>5, AheadOnGrid DEF ExploreInv
<1>8. path # <<>> /\ Letter[m] \in Symbol
  <2>1. path # <<>>
    BY <1>3, <1>4, EmptySeq
  <2> QED BY <2>1 DEF Symbol
<1>9. /\ Shorter \in Seq(Symbol) /\ Len(Shorter) = n - 1
      /\ \A k \in 1..n-1 : Shorter[k] = path[k]
  BY <1>3, <1>4, <1>8, ShortenProperties DEF Shorter
<1>10. /\ path' \in Seq(Symbol) /\ Len(path') = n
       /\ \A k \in 1..n-1 : path'[k] = path[k]
       /\ path'[n] = Letter[m]
  <2>1. /\ path' \in Seq(Symbol) /\ Len(path') = Len(Shorter) + 1
        /\ \A k \in 1..Len(Shorter) : path'[k] = Shorter[k]
        /\ path'[Len(Shorter) + 1] = Letter[m]
    BY <1>2, <1>8, <1>9, AppendElements DEF Turned
  <2>2. Len(Shorter) + 1 = n
    BY <1>9
  <2> QED BY <1>9, <2>1, <2>2
<1>11. PathSpellsTrail'
  <2>1. \A k \in 1..n : path'[k] = Letter[turned[k].dir]
    <3> SUFFICES ASSUME NEW k \in 1..n PROVE path'[k] = Letter[turned[k].dir]
      OBVIOUS
    <3>1. CASE k = n
      BY <1>6, <1>10, <3>1
    <3>2. CASE k \in 1..n-1
      BY <1>3, <1>4, <1>6, <1>10, <3>2
    <3>3. k = n \/ k \in 1..n-1
      OBVIOUS
    <3> QED BY <3>1, <3>2, <3>3
  <2> QED BY <1>2, <1>6, <1>10, <2>1 DEF PathSpellsTrail
<1>12. Trail'
  <2>1. \A k \in 1..n : turned[k].at = stack[k].at
    <3> SUFFICES ASSUME NEW k \in 1..n PROVE turned[k].at = stack[k].at
      OBVIOUS
    <3>1. k = n \/ k \in 1..n-1
      OBVIOUS
    <3> QED BY <1>6, <3>1
  <2>2. \A k \in 1..n : k # 1 => k-1 \in 1..n-1 /\ turned[k-1] = stack[k-1]
    BY <1>6
  <2>3. \A k, l \in 1..n : turned[k].at = turned[l].at => k = l
    BY <1>4, <2>1 DEF ExploreInv, Trail
  <2>4. \A k \in 1..n :
          /\ stack[k].at \in visit /\ maze[stack[k].at] \notin {"#", "?", " "}
          /\ CellOf(stack[k].at) \notin walls
          /\ stack[k].at = IF k = 1 THEN at ELSE Ahead(stack[k-1].at, stack[k-1].dir)
    BY <1>4 DEF ExploreInv, Trail
  <2>5. \A k \in 1..n :
          /\ turned[k].at \in visit /\ maze[turned[k].at] \notin {"#", "?", " "}
          /\ CellOf(turned[k].at) \notin walls
          /\ turned[k].at = IF k = 1 THEN at ELSE Ahead(turned[k-1].at, turned[k-1].dir)
    <3> SUFFICES ASSUME NEW k \in 1..n
                 PROVE  /\ turned[k].at \in visit /\ maze[turned[k].at] \notin {"#", "?", " "}
                        /\ CellOf(turned[k].at) \notin walls
                        /\ turned[k].at = IF k = 1 THEN at ELSE Ahead(turned[k-1].at, turned[k-1].dir)
      OBVIOUS
    <3>1. turned[k].at = stack[k].at /\ (k # 1 => turned[k-1] = stack[k-1])
      BY <2>1, <2>2
    <3>2. /\ stack[k].at \in visit /\ maze[stack[k].at] \notin {"#", "?", " "}
          /\ CellOf(stack[k].at) \notin walls
          /\ stack[k].at = IF k = 1 THEN at ELSE Ahead(stack[k-1].at, stack[k-1].dir)
      BY <2>4
    <3> QED BY <3>1, <3>2
  <2>6. Top'.at = Top.at /\ Top'.dir = m /\ stack' # <<>>
    BY <1>2, <1>4, <1>6, EmptySeq DEF Top
  <2>7. \A g : CellOf(g)' = CellOf(g)
    BY <1>2 DEF CellOf
  <2> QED BY <1>2, <1>6, <2>3, <2>5, <2>6, <2>7 DEF Trail, CellOf
<1>13. visit' \subseteq Grid /\ ~res' /\ res' \in BOOLEAN /\ toExit' \in BOOLEAN
  BY <1>2, <1>3 DEF ExploreInv, ExploreTypeOK
<1>14. stack' \in Seq(Frame) /\ path' \in Seq(Symbol)
  BY <1>2, <1>6, <1>10
<1> QED BY <1>2, <1>7, <1>11, <1>12, <1>13, <1>14, SearchStep

LEMMA BacktrackKeeps ==
  ASSUME ExploreInv, Backtrack
  PROVE  ExploreInv'
<1>1. PICK n \in Nat : n = Len(stack)
  BY LenProperties DEF ExploreInv, ExploreTypeOK
<1> DEFINE rest == SubSeq(stack, 1, Len(stack) - 1)
<1>2. /\ UNCHANGED <<given, player, client, i>> /\ UNCHANGED <<visit, here, res, toExit>>
      /\ mode = "return" /\ mode' = "return" /\ ~res /\ stack # <<>>
      /\ stack' = rest /\ path' = Shorter
      /\ maze' = maze /\ at' = at /\ walls' = walls /\ exit' = exit /\ shift' = shift
  BY DEF Backtrack, given, client
<1>3. /\ stack \in Seq(Frame) /\ path \in Seq(Symbol) /\ Len(path) = Len(stack)
      /\ toExit \in BOOLEAN /\ visit \subseteq Grid /\ here \in Grid
      /\ \A k \in 1..Len(path) : k <= Len(stack) => path[k] = Letter[stack[k].dir]
  BY <1>2 DEF ExploreInv, ExploreTypeOK, PathSpellsTrail
<1>4. /\ rest \in Seq(Frame) /\ Len(rest) = n - 1 /\ n # 0
      /\ \A k \in 1..n-1 : rest[k] = stack[k]
  BY <1>1, <1>2, <1>3, ShortenProperties
<1> HIDE DEF rest
<1>5. path # <<>>
  BY <1>1, <1>3, <1>4, EmptySeq
<1>6. /\ path' \in Seq(Symbol) /\ Len(path') = n - 1
      /\ \A k \in 1..n-1 : path'[k] = path[k]
  BY <1>1, <1>2, <1>3, <1>5, ShortenProperties DEF Shorter
<1>7. PathSpellsTrail'
  <2>1. ASSUME NEW k \in 1..n-1 PROVE path'[k] = Letter[rest[k].dir]
    <3>1. k \in 1..Len(path) /\ k <= Len(stack)
      BY <1>1, <1>3
    <3>2. path'[k] = path[k] /\ rest[k] = stack[k]
      BY <1>4, <1>6
    <3>3. path[k] = Letter[stack[k].dir]
      BY <1>3, <3>1
    <3> QED BY <3>2, <3>3
  <2> QED BY <1>2, <1>4, <1>6, <2>1 DEF PathSpellsTrail
<1>8. Trail'
  <2>1. \A k \in 1..n-1 : k # 1 => k-1 \in 1..n-1
    BY <1>1
  <2>2. \A k \in 1..n-1 : k \in 1..Len(stack)
    BY <1>1
  <2>3. \A k \in 1..n-1 :
          /\ stack[k].at \in visit /\ maze[stack[k].at] \notin {"#", "?", " "}
          /\ CellOf(stack[k].at) \notin walls
          /\ stack[k].at = IF k = 1 THEN at ELSE Ahead(stack[k-1].at, stack[k-1].dir)
    BY <2>2 DEF ExploreInv, Trail
  <2>4. \A k, l \in 1..n-1 : stack[k].at = stack[l].at => k = l
    BY <2>2 DEF ExploreInv, Trail
  <2>5. \A k \in 1..n-1 :
          /\ rest[k].at \in visit /\ maze[rest[k].at] \notin {"#", "?", " "}
          /\ CellOf(rest[k].at) \notin walls
          /\ rest[k].at = IF k = 1 THEN at ELSE Ahead(rest[k-1].at, rest[k-1].dir)
    BY <1>4, <2>1, <2>3
  <2>6. \A k, l \in 1..n-1 : rest[k].at = rest[l].at => k = l
    BY <1>4, <2>4
  <2>7. \A g : CellOf(g)' = CellOf(g)
    BY <1>2 DEF CellOf
  <2> QED BY <1>2, <1>4, <2>5, <2>6, <2>7 DEF Trail, CellOf
<1>9. ~res' /\ res' \in BOOLEAN
  BY <1>2 DEF ExploreInv, ExploreTypeOK
<1> QED BY <1>2, <1>3, <1>4, <1>6, <1>7, <1>8, <1>9, SearchStep

-----------------------------------------------------------------------------
\* What main does before and after the search.

LEMMA LettersDiffer ==
  ASSUME NEW m \in Move
  PROVE  /\ Letter[m] # Newline /\ \A n \in Move : Letter[m] = Letter[n] => m = n
         /\ \A s : s[2] \in Int => Ahead(s, m)[2] = s[2] + Step(Letter[m])
<1>1. m \in {1, 2, 3, 4} /\ Move = {1, 2, 3, 4}
  BY DEF Move
<1>2. /\ Letter[1] = "W" /\ Letter[2] = "S" /\ Letter[3] = "A" /\ Letter[4] = "D"
  BY DEF Letter
<1>3. Letter[m] # Newline /\ \A n \in Move : Letter[m] = Letter[n] => m = n
  BY <1>1, <1>2 DEF Newline
<1>4. Step("W") = 0 /\ Step("S") = 0 /\ Step("A") = -1 /\ Step("D") = 1
  BY DEF Step
<1>5. \A s : s[2] \in Int => Ahead(s, m)[2] = s[2] + Step(Letter[m])
  BY <1>1, <1>2, <1>4 DEF Ahead
<1> QED BY <1>3, <1>5

\* The letters of a path that was found lead over open cells, each to the next.
LEMMA WalkAlong ==
  ASSUME ExploreInv, res, NEW k \in Nat, k \in 1..Len(path)-1
  PROVE  /\ path[k] = Letter[stack[k].dir] /\ stack[k].dir \in Move
         /\ Spot(k) \in Grid /\ CellOf(Spot(k)) \in Cell \ walls
         /\ Spot(k+1) = Ahead(Spot(k), stack[k].dir)
         /\ Spot(k+1) \in Grid /\ CellOf(Spot(k+1)) \in Cell \ walls
         /\ CellOf(Spot(k+1)) = Ahead(CellOf(Spot(k)), stack[k].dir)
         /\ Spot(k+1)[2] = Spot(k)[2] + Step(path[k])
         /\ k+1 <= Len(stack) => maze[Spot(k+1)] # "?"
         /\ k+1 > Len(stack) => toExit /\ Spot(k+1) = here
<1>1. /\ stack # <<>> /\ here = Ahead(Top.at, Top.dir)
      /\ Len(path) = Len(stack) + (IF toExit THEN 1 ELSE 0)
      /\ toExit => CellOf(here) = exit
      /\ \A l \in 1..Len(path)-1 : l <= Len(stack) => path[l] = Letter[stack[l].dir]
  BY DEF ExploreInv, PathSpellsTrail
<1>2. Len(stack) \in Nat /\ toExit \in BOOLEAN
  BY LenProperties DEF ExploreInv, ExploreTypeOK
<1>3. k \in 1..Len(stack) /\ (k+1 > Len(stack) => toExit /\ k = Len(stack))
  BY <1>1, <1>2
<1>4. /\ stack[k].at \in Grid /\ stack[k].dir \in Move
      /\ CellOf(stack[k].at) \in Cell \ walls
  BY <1>3, CallsOnOpenCells
<1>5. Spot(k) = stack[k].at /\ path[k] = Letter[stack[k].dir]
  BY <1>1, <1>3 DEF Spot
<1>6. CASE k+1 <= Len(stack)
  <2>1. Spot(k+1) = stack[k+1].at /\ k+1 \in 1..Len(stack) /\ k+1 # 1 /\ (k+1)-1 = k
    BY <1>3, <1>6 DEF Spot
  <2>2. stack[k+1].at = Ahead(stack[k].at, stack[k].dir)
    BY <2>1 DEF ExploreInv, Trail
  <2>3. /\ stack[k+1].at \in Grid /\ CellOf(stack[k+1].at) \in Cell \ walls
        /\ maze[stack[k+1].at] # "?"
    BY <2>1, CallsOnOpenCells
  <2>4. ~(k+1 > Len(stack))
    BY <1>2, <1>6
  <2>5. CellOf(Spot(k+1)) = Ahead(CellOf(Spot(k)), stack[k].dir)
    BY <1>4, <1>5, <2>1, <2>2, AheadOnGrid DEF ExploreInv
  <2>6. Spot(k+1)[2] = Spot(k)[2] + Step(path[k])
    BY <1>4, <1>5, <2>1, <2>2, LettersDiffer, CellOfGrid DEF ExploreInv
  <2> QED BY <1>4, <1>5, <2>1, <2>2, <2>3, <2>4, <2>5, <2>6
<1>7. CASE k+1 > Len(stack)
  <2>1. toExit /\ k = Len(stack) /\ Spot(k+1) = here /\ Top = stack[k]
    BY <1>2, <1>3, <1>7 DEF Spot, Top
  <2>2. here = Ahead(stack[k].at, stack[k].dir)
    BY <1>1, <2>1
  <2>3. here \in Grid /\ CellOf(here) \in Cell \ walls
    BY <1>1, <2>1 DEF ExploreInv, Placed, ExploreTypeOK
  <2>4. ~(k+1 <= Len(stack))
    BY <1>2, <1>7
  <2>5. CellOf(Spot(k+1)) = Ahead(CellOf(Spot(k)), stack[k].dir)
    BY <1>4, <1>5, <2>1, <2>2, AheadOnGrid DEF ExploreInv
  <2>6. Spot(k+1)[2] = Spot(k)[2] + Step(path[k])
    BY <1>4, <1>5, <2>1, <2>2, LettersDiffer, CellOfGrid DEF ExploreInv
  <2> QED BY <1>4, <1>5, <2>1, <2>2, <2>3, <2>4, <2>5, <2>6
<1> QED BY <1>2, <1>6, <1>7

\* The path ends after its last letter.
LEMMA PathEnds ==
  ASSUME ExploreInv, res
  PROVE  /\ Len(path) \in Nat /\ Len(path) > 1 /\ path[Len(path)] = Newline
         /\ stack # <<>> /\ Spot(1) = at
         /\ \A k \in 1..Len(path) : path[k] = Newline <=> k = Len(path)
<1>1. /\ stack # <<>> /\ path[Len(path)] = Newline
      /\ Len(path) = Len(stack) + (IF toExit THEN 1 ELSE 0)
      /\ ~toExit => Len(stack) > 1
  BY DEF ExploreInv, PathSpellsTrail
<1>2. Len(stack) \in Nat \ {0}
  BY <1>1, ShortenProperties DEF ExploreInv, ExploreTypeOK
<1>3. Len(path) \in Nat /\ Len(path) > 1
  BY <1>1, <1>2
<1>4. Spot(1) = at
  <2>1. 1 \in 1..Len(stack)
    BY <1>2
  <2>2. Spot(1) = stack[1].at
    BY <1>2 DEF Spot
  <2>3. stack[1].at = at
    BY <2>1 DEF ExploreInv, Trail
  <2> QED BY <2>2, <2>3
<1>5. ASSUME NEW k \in 1..Len(path), k # Len(path) PROVE path[k] # Newline
  <2>1. k \in Nat /\ k \in 1..Len(path)-1
    BY <1>3, <1>5
  <2> QED BY <2>1, WalkAlong, LettersDiffer
<1> QED BY <1>1, <1>3, <1>4, <1>5

LEMMA SearchOnKeeps ==
  ASSUME ExploreInv, SearchOn
  PROVE  ExploreInv'
<1>1. /\ UNCHANGED <<given, player, client, i>> /\ UNCHANGED <<stack, res>>
      /\ mode = "return" /\ mode' = "call" /\ ~res /\ stack = <<>>
      /\ toExit' = FALSE /\ visit' = {} /\ path' = <<>> /\ here' = at
      /\ maze' = maze /\ at' = at /\ walls' = walls /\ exit' = exit /\ shift' = shift
  BY DEF SearchOn, NotFound, given, client
<1>2. stack \in Seq(Frame) /\ at \in Grid /\ res \in BOOLEAN
  BY DEF ExploreInv, ExploreTypeOK
<1>3. Len(stack) = 0 /\ path' \in Seq(Symbol) /\ Len(path') = 0
  BY <1>1, <1>2, EmptySeq
<1>4. PathSpellsTrail'
  BY <1>1, <1>3 DEF PathSpellsTrail
<1>5. Trail'
  BY <1>1, <1>3 DEF Trail
<1> QED BY <1>1, <1>2, <1>3, <1>4, <1>5, SearchStep

LEMMA SendNothingKeeps ==
  ASSUME ExploreInv, SendNothing
  PROVE  ExploreInv'
<1>1. /\ UNCHANGED <<given, player, client, i>> /\ mode = "return" /\ mode' = "blocked"
      /\ UNCHANGED <<visit, path, stack, here, res, toExit>>
  BY DEF SendNothing, NotFound, search
<1>2. /\ Placed' /\ KnownIsTrue'
      /\ maze' = maze /\ at' = at /\ walls' = walls /\ exit' = exit /\ shift' = shift
      /\ player' = player /\ c' = c /\ end_seen' = end_seen
      /\ \A g \in Grid : maze[g] = "*" => g = at
      /\ at[2] = c + HalfW /\ at = <<player[1], player[2] + shift>>
  BY <1>1, SearchKeepsMap
<1>3. ExploreTypeOK'
  BY <1>1, <1>2 DEF ExploreInv, ExploreTypeOK
<1>4. AroundPlayer' /\ Located' /\ WalkIsOpen'
  BY <1>1, <1>2 DEF AroundPlayer, Located, WalkIsOpen
<1>5. Trail' /\ PathSpellsTrail'
  BY <1>1, <1>2 DEF ExploreInv, Trail, PathSpellsTrail, CellOf, Top
<1> QED BY <1>2, <1>3, <1>4, <1>5 DEF ExploreInv

LEMMA GoRoundKeeps ==
  ASSUME ExploreInv, GoRound
  PROVE  ExploreInv'
<1>1. /\ UNCHANGED <<visit, path, stack, here, res, toExit, i, c, end_seen, at>>
      /\ UNCHANGED <<walls, exit, shift, player>>
      /\ mode = "return" /\ mode' = "look" /\ ~res /\ stack = <<>>
      /\ maze' = [maze EXCEPT ![at] = "."]
  BY DEF GoRound, NotFound, search, given
<1>2. maze \in [Grid -> Mark] /\ at \in Grid /\ stack \in Seq(Frame)
  BY DEF ExploreInv, ExploreTypeOK
<1>3. /\ maze' \in [Grid -> Mark] /\ maze'[at] = "."
      /\ \A g \in Grid : g # at => maze'[g] = maze[g]
  BY <1>1, <1>2 DEF Mark
<1>4. /\ maze[at] = "*" /\ \A g \in Grid : maze[g] = "*" => g = at
  BY <1>1 DEF ExploreInv, AroundPlayer
<1>5. ExploreTypeOK'
  BY <1>1, <1>3 DEF ExploreInv, ExploreTypeOK
<1>6. Placed' /\ AroundPlayer'
  BY <1>1, <1>3, <1>4 DEF ExploreInv, Placed, AroundPlayer
<1>7. Len(stack) = 0
  BY <1>1, <1>2, EmptySeq
<1>8. Trail' /\ PathSpellsTrail'
  BY <1>1, <1>7 DEF ExploreInv, Trail, PathSpellsTrail
<1>9. /\ at = <<player[1], player[2] + shift>> /\ at[2] = c + HalfW
      /\ CellOf(at) = player
  BY <1>1, PlayerOnMap DEF ExploreInv, Located
<1>10. Located' /\ WalkIsOpen'
  BY <1>1, <1>9 DEF Located, WalkIsOpen
<1>11. KnownIsTrue'
  <2>1. \A g : CellOf(g)' = CellOf(g)
    BY <1>1 DEF CellOf
  <2>2. CellOf(at) \in Cell \ walls
    BY <1>9 DEF ExploreInv, Placed
  <2>3. \A g \in Grid : g # at /\ maze[g] # "?" =>
          /\ maze[g] = "#" <=> CellOf(g) \in walls
          /\ maze[g] = "E" => CellOf(g) = exit
          /\ maze[g] = " " <=> CellOf(g) \notin Cell
          /\ maze[g] # "*"
    BY <1>4 DEF ExploreInv, KnownIsTrue, Known
  <2>4. \A g \in Grid : maze'[g] # "?" =>
          /\ maze'[g] = "#" <=> CellOf(g) \in walls
          /\ maze'[g] = "E" => CellOf(g) = exit
          /\ maze'[g] = " " <=> CellOf(g) \notin Cell
          /\ maze'[g] # "*"
    BY <1>3, <2>2, <2>3
  <2> QED BY <1>1, <2>1, <2>4 DEF KnownIsTrue, Known
<1> QED BY <1>5, <1>6, <1>8, <1>10, <1>11 DEF ExploreInv

\* The next letter of a walk leads to a cell that is open and has been seen.
LEMMA NextLetterOpen ==
  ASSUME ExploreInv, res, toExit => maze[here] # "?",
         NEW k \in Nat, k < Len(path), NEW p, p = CellOf(Spot(k+1)),
         NEW m \in Move, path[k+1] = Letter[m]
  PROVE  LET s == Ahead(p, m) IN
         /\ k+1 < Len(path) /\ s = CellOf(Spot(k+2)) /\ s \in Cell \ walls
         /\ <<s[1], s[2] + shift>> = Spot(k+2) /\ maze[Spot(k+2)] # "?"
<1>1. Len(path) \in Nat /\ path[Len(path)] = Newline
  BY PathEnds
<1>2. k+1 \in Nat /\ k+1 \in 1..Len(path)-1 /\ k+1 < Len(path) /\ (k+1)+1 = k+2
  BY <1>1, LettersDiffer
<1>3. /\ path[k+1] = Letter[stack[k+1].dir] /\ stack[k+1].dir \in Move
      /\ Spot(k+2) \in Grid /\ CellOf(Spot(k+2)) \in Cell \ walls
      /\ CellOf(Spot(k+2)) = Ahead(CellOf(Spot(k+1)), stack[k+1].dir)
      /\ k+2 <= Len(stack) => maze[Spot(k+2)] # "?"
      /\ k+2 > Len(stack) => toExit /\ Spot(k+2) = here
  BY <1>2, WalkAlong
<1>4. m = stack[k+1].dir
  BY <1>3, LettersDiffer
<1>5. CellOf(Spot(k+2)) = Ahead(p, m)
  BY <1>3, <1>4
<1>6. GridOf(CellOf(Spot(k+2))) = Spot(k+2)
  BY <1>3, CellOfGrid DEF ExploreInv
<1>7. maze[Spot(k+2)] # "?"
  <2>1. Len(stack) \in Nat
    BY LenProperties DEF ExploreInv, ExploreTypeOK
  <2>2. k+2 <= Len(stack) \/ k+2 > Len(stack)
    BY <2>1
  <2> QED BY <1>3, <2>2
<1> QED BY <1>2, <1>3, <1>5, <1>6, <1>7 DEF GridOf

LEMMA SendPathKeeps ==
  ASSUME ExploreInv, SendPath
  PROVE  ExploreInv'
<1>1. /\ UNCHANGED <<given, player, client>> /\ mode = "return" /\ mode' = "walk" /\ res /\ i' = 0
      /\ UNCHANGED <<visit, path, stack, here, res, toExit>>
  BY DEF SendPath, search
<1>2. /\ Placed' /\ KnownIsTrue'
      /\ maze' = maze /\ at' = at /\ walls' = walls /\ exit' = exit /\ shift' = shift
      /\ player' = player /\ c' = c /\ end_seen' = end_seen
      /\ \A g \in Grid : maze[g] = "*" => g = at
      /\ at[2] = c + HalfW /\ at = <<player[1], player[2] + shift>>
  BY <1>1, SearchKeepsMap
<1>3. ExploreTypeOK'
  BY <1>1, <1>2 DEF ExploreInv, ExploreTypeOK
<1>4. toExit => maze[here] = "E"
  BY <1>1 DEF ExploreInv, AroundPlayer
<1>5. AroundPlayer'
  BY <1>1, <1>2, <1>4 DEF AroundPlayer
<1>6. Trail' /\ PathSpellsTrail'
  BY <1>1, <1>2 DEF ExploreInv, Trail, PathSpellsTrail, CellOf, Top
<1>7. /\ Len(path) \in Nat /\ Len(path) > 1 /\ path[Len(path)] = Newline
      /\ Spot(1) = at /\ CellOf(at) = player
  BY <1>1, PathEnds, PlayerOnMap
<1>8. \A k : Spot(k)' = Spot(k)
  BY <1>1 DEF Spot
<1>9. \A g : CellOf(g)' = CellOf(g)
  BY <1>2 DEF CellOf
<1>10. Located'
  <2>1. player = CellOf(Spot(1)) /\ 0 + 1 = 1
    BY <1>7
  <2>2. player' = (CellOf(Spot(i+1)))'
    BY <1>1, <1>2, <2>1 DEF CellOf, Spot
  <2> QED BY <1>1, <1>2, <1>7, <2>2 DEF Located
<1>11. WalkIsOpen'
  <2>1. \A m \in Move : path[1] = Letter[m] =>
          LET s == Ahead(player, m) IN s \notin walls /\ maze[<<s[1], s[2] + shift>>] # "?"
    <3>1. 0 \in Nat /\ 0 < Len(path) /\ 0 + 1 = 1
      BY <1>7
    <3>2. player = CellOf(Spot(0+1))
      BY <1>7, <3>1
    <3>3. toExit => maze[here] # "?"
      BY <1>4
    <3> QED BY <1>1, <3>1, <3>2, <3>3, NextLetterOpen
  <2>2. i' + 1 = 1
    BY <1>1
  <2> QED BY <1>1, <1>2, <1>7, <2>1, <2>2 DEF WalkIsOpen
<1> QED BY <1>2, <1>3, <1>5, <1>6, <1>10, <1>11 DEF ExploreInv

LEMMA ObeyKeeps ==
  ASSUME ExploreInv, Obey
  PROVE  ExploreInv'
<1>1. PICK m \in Move : path[i+1] = Letter[m] /\
        player' = IF Ahead(player, m) \in walls THEN player ELSE Ahead(player, m)
  BY DEF Obey
<1>2. /\ UNCHANGED <<visit, path, stack, here, res, toExit, maze, c, end_seen, at>>
      /\ UNCHANGED <<walls, exit, shift>>
      /\ mode = "walk" /\ mode' = "walk" /\ i' = i + 1
  BY DEF Obey, search, given, client
<1>3. /\ i \in Nat /\ res /\ i < Len(path) /\ player = CellOf(Spot(i+1)) /\ at[2] = c + HalfW
  BY <1>2 DEF ExploreInv, ExploreTypeOK, Located
<1>4. PICK k \in Nat : k = i
  BY <1>3
<1>5. toExit => maze[here] # "?"
  BY <1>2, <1>3 DEF ExploreInv, AroundPlayer
<1>6. LET s == Ahead(player, m) IN
      /\ k+1 < Len(path) /\ s = CellOf(Spot(k+2)) /\ s \in Cell \ walls
  BY <1>1, <1>3, <1>4, <1>5, NextLetterOpen
<1>7. player' = CellOf(Spot(k+2)) /\ player' \in Cell \ walls /\ k+1 < Len(path)
  BY <1>1, <1>6
<1>8. i' = k+1 /\ i' + 1 = k+2 /\ k+1 \in Nat /\ (k+1)+1 = k+2 /\ (k+1)+2 = k+3
  BY <1>2, <1>4
<1>9. ExploreTypeOK'
  BY <1>2, <1>7, <1>8 DEF ExploreInv, ExploreTypeOK
<1>10. Placed' /\ AroundPlayer'
  BY <1>2, <1>7 DEF ExploreInv, Placed, AroundPlayer
<1>11. Trail' /\ PathSpellsTrail'
  BY <1>2 DEF ExploreInv, Trail, PathSpellsTrail, CellOf, Top
<1>12. KnownIsTrue'
  BY <1>2 DEF ExploreInv, KnownIsTrue, Known, CellOf
<1>13. Located'
  <2>1. player' = (CellOf(Spot(i+1)))'
    BY <1>2, <1>7, <1>8 DEF CellOf, Spot
  <2>2. i' < Len(path')
    BY <1>2, <1>7, <1>8
  <2> QED BY <1>2, <1>3, <2>1, <2>2 DEF Located
<1>14. /\ Len(path) > 1 /\ path[Len(path)] = Newline
  BY <1>3, PathEnds
<1>15. WalkIsOpen'
  <2>1. ASSUME NEW n \in Move, path[k+2] = Letter[n]
        PROVE  LET s == Ahead(player', n) IN s \notin walls /\ maze[<<s[1], s[2] + shift>>] # "?"
    <3>1. k+1 \in Nat /\ k+1 < Len(path) /\ player' = CellOf(Spot((k+1)+1))
      BY <1>7, <1>8
    <3> QED BY <1>3, <1>5, <2>1, <3>1, <1>8, NextLetterOpen
  <2> QED BY <1>2, <1>8, <1>14, <2>1 DEF WalkIsOpen
<1> QED BY <1>9, <1>10, <1>11, <1>12, <1>13, <1>15 DEF ExploreInv

LEMMA AnswerKeeps ==
  ASSUME ExploreInv, Answer
  PROVE  ExploreInv'
<1>1. /\ UNCHANGED <<visit, path, stack, here, res, toExit, c, end_seen, at>>
      /\ UNCHANGED <<walls, exit, shift, player>>
      /\ mode = "walk" /\ mode' \in {"done", "reckon"} /\ i' = 0 /\ path[i+1] = Newline
      /\ maze' = [maze EXCEPT ![at] = "."]
  BY DEF Answer, search, given
<1>2. /\ maze \in [Grid -> Mark] /\ at \in Grid /\ stack \in Seq(Frame)
      /\ i \in Nat /\ res /\ i < Len(path) /\ player = CellOf(Spot(i+1)) /\ at[2] = c + HalfW
  BY <1>1 DEF ExploreInv, ExploreTypeOK, Located
<1>3. /\ maze' \in [Grid -> Mark] /\ maze'[at] = "."
      /\ \A g \in Grid : g # at => maze'[g] = maze[g]
  BY <1>1, <1>2 DEF Mark
<1>4. /\ \A g \in Grid : maze[g] = "*" => g = at
  BY <1>1 DEF ExploreInv, AroundPlayer
<1>5. ExploreTypeOK'
  BY <1>1, <1>3 DEF ExploreInv, ExploreTypeOK
<1>6. Placed' /\ AroundPlayer'
  BY <1>1, <1>3, <1>4 DEF ExploreInv, Placed, AroundPlayer
<1>7. \A g : CellOf(g)' = CellOf(g)
  BY <1>1 DEF CellOf
<1>8. /\ Len(path) \in Nat /\ Len(path) > 1 /\ Spot(1) = at /\ stack # <<>>
      /\ \A k \in 1..Len(path) : path[k] = Newline <=> k = Len(path)
  BY <1>2, PathEnds
<1>9. CellOf(at) \in Cell \ walls
  <2>1. 1 \in Nat /\ 1 \in 1..Len(path)-1
    BY <1>8
  <2> QED BY <1>2, <1>8, <2>1, WalkAlong
<1>10. Trail'
  <2>1. \A k \in 1..Len(stack) : stack[k].at \in Grid
    BY CallsOnOpenCells
  <2>2. \A k \in 1..Len(stack) : /\ maze'[stack[k].at] \notin {"#", "?", " "}
                                 /\ CellOf(stack[k].at)' \notin walls'
    BY <1>1, <1>3, <1>7, <2>1 DEF ExploreInv, Trail
  <2>3. \A k, l \in 1..Len(stack) : stack[k].at = stack[l].at => k = l
    BY DEF ExploreInv, Trail
  <2>4. \A k \in 1..Len(stack) :
          /\ stack[k].at \in visit
          /\ stack[k].at = IF k = 1 THEN at ELSE Ahead(stack[k-1].at, stack[k-1].dir)
    BY DEF ExploreInv, Trail
  <2> QED BY <1>1, <2>2, <2>3, <2>4 DEF Trail, CellOf
<1>11. PathSpellsTrail'
  BY <1>1 DEF ExploreInv, PathSpellsTrail, CellOf, Top
<1>12. Located' /\ WalkIsOpen'
  <2>1. i+1 = Len(path)
    <3>1. i+1 \in 1..Len(path)
      BY <1>2, <1>8
    <3> QED BY <1>1, <1>8, <3>1
  <2>2. player' = (CellOf(Spot(Len(path))))'
    BY <1>1, <1>2, <2>1 DEF CellOf, Spot
  <2>3. i' + 1 = 1 /\ i' < Len(path')
    BY <1>1, <1>8
  <2>4. (Spot(1))' = Spot(1)
    BY <1>1 DEF Spot
  <2>5. c' + HalfW = (Spot(i+1))'[2]
    BY <1>1, <1>2, <1>8, <2>3, <2>4 DEF Spot
  <2> QED BY <1>1, <1>2, <2>2, <2>3, <2>5 DEF Located, WalkIsOpen
<1>13. KnownIsTrue'
  <2>1. \A g \in Grid : g # at /\ maze[g] # "?" =>
          /\ maze[g] = "#" <=> CellOf(g) \in walls
          /\ maze[g] = "E" => CellOf(g) = exit
          /\ maze[g] = " " <=> CellOf(g) \notin Cell
          /\ maze[g] # "*"
    BY <1>4 DEF ExploreInv, KnownIsTrue, Known
  <2>2. \A g \in Grid : maze'[g] # "?" =>
          /\ maze'[g] = "#" <=> CellOf(g) \in walls
          /\ maze'[g] = "E" => CellOf(g) = exit
          /\ maze'[g] = " " <=> CellOf(g) \notin Cell
          /\ maze'[g] # "*"
    BY <1>3, <1>9, <2>1
  <2> QED BY <1>1, <1>7, <2>2 DEF KnownIsTrue, Known
<1> QED BY <1>5, <1>6, <1>10, <1>11, <1>12, <1>13 DEF ExploreInv

\* The column is reckoned forward by the letters, one cell of the walk at a time.
LEMMA ReckonKeeps ==
  ASSUME ExploreInv, Reckon
  PROVE  ExploreInv'
<1>1. /\ UNCHANGED <<visit, path, stack, here, res, toExit, maze, end_seen, at>>
      /\ UNCHANGED <<walls, exit, shift, player>>
      /\ mode = "reckon" /\ c' = c + Step(path[i+1]) /\ i' = i + 1
      /\ mode' = IF i + 1 = Len(path) THEN "look" ELSE "reckon"
  BY DEF Reckon, search, given
<1>2. /\ i \in Nat /\ c \in Int /\ res /\ i < Len(path)
      /\ player = CellOf(Spot(Len(path))) /\ c + HalfW = Spot(i+1)[2]
      /\ here \in Grid /\ stack \in Seq(Frame)
  BY <1>1 DEF ExploreInv, ExploreTypeOK, Located
<1>3. PICK k \in Nat : k = i
  BY <1>2
<1>4. /\ Len(path) \in Nat /\ Len(path) > 1 /\ path[Len(path)] = Newline
  BY <1>2, PathEnds
<1>5. HalfW \in Nat /\ shift \in Int
  BY PlacedNumbers DEF ExploreInv
<1>6. Step(path[k+1]) \in Int
  BY DEF Step
<1>7. ExploreTypeOK'
  BY <1>1, <1>2, <1>3, <1>6 DEF ExploreInv, ExploreTypeOK
<1>8. Placed' /\ AroundPlayer'
  BY <1>1 DEF ExploreInv, Placed, AroundPlayer
<1>9. Trail' /\ PathSpellsTrail'
  BY <1>1, <1>2 DEF ExploreInv, Trail, PathSpellsTrail, CellOf, Top
<1>10. KnownIsTrue' /\ WalkIsOpen'
  BY <1>1 DEF ExploreInv, KnownIsTrue, WalkIsOpen, Known, CellOf, AroundPlayer
<1>11. CASE k + 1 = Len(path)
  <2>1. mode' = "look" /\ c' = c
    <3>1. Step(Newline) = 0
      BY DEF Step, Newline
    <3>2. \A n \in Int : n + 0 = n
      OBVIOUS
    <3> QED BY <1>1, <1>2, <1>3, <1>4, <1>11, <3>1, <3>2
  <2>2. player[2] + shift = c + HalfW
    <3> DEFINE spot == Spot(Len(path))
    <3>1. spot[2] = c + HalfW /\ player = CellOf(spot)
      BY <1>2, <1>3, <1>11
    <3>2. player[2] = spot[2] - shift
      BY <3>1 DEF CellOf
    <3>3. c + HalfW \in Int
      BY <1>2, <1>5
    <3>4. \A x, y \in Int : (x - y) + y = x
      OBVIOUS
    <3> HIDE DEF spot
    <3> QED BY <1>5, <3>1, <3>2, <3>3, <3>4
  <2> QED BY <1>1, <1>7, <1>8, <1>9, <1>10, <2>1, <2>2 DEF ExploreInv, Located
<1>12. CASE k + 1 # Len(path)
  <2>1. k+1 \in Nat /\ k+1 \in 1..Len(path)-1 /\ (k+1)+1 = k+2 /\ k+1 < Len(path)
    BY <1>2, <1>3, <1>4, <1>12
  <2>2. Spot((k+1)+1)[2] = Spot(k+1)[2] + Step(path[k+1])
    BY <1>2, <2>1, WalkAlong
  <2>3. \A x, y, z \in Int : (x + y) + z = (x + z) + y
    OBVIOUS
  <2>4. (c + Step(path[k+1])) + HalfW = Spot(k+2)[2]
    BY <1>2, <1>3, <1>5, <1>6, <2>1, <2>2, <2>3
  <2>5. mode' = "reckon" /\ i' = k+1 /\ i' + 1 = k+2 /\ c' = c + Step(path[k+1])
    BY <1>1, <1>3, <1>12, <2>1
  <2>6. (Spot(i+1))' = Spot(k+2)
    BY <1>1, <2>5 DEF Spot
  <2>7. (CellOf(Spot(Len(path))))' = CellOf(Spot(Len(path)))
    BY <1>1 DEF CellOf, Spot
  <2>8. Located'
    BY <1>1, <1>2, <2>1, <2>4, <2>5, <2>6, <2>7 DEF Located
  <2> QED BY <1>7, <1>8, <1>9, <1>10, <2>8 DEF ExploreInv
<1> QED BY <1>11, <1>12

LEMMA DrawnIsTrue ==
  ASSUME ExploreInv, NEW s
  PROVE  /\ Drawn(s) \in Mark \ {"?"} /\ (Drawn(s) = "*" <=> s = player)
         /\ Drawn(s) = "#" <=> s \in walls
         /\ Drawn(s) = "E" => s = exit
         /\ Drawn(s) = " " <=> s \notin Cell
<1>1. player \in Cell \ walls /\ exit \in Cell \ walls /\ walls \subseteq Cell
  BY DEF ExploreInv, Placed, ExploreTypeOK
<1>2. CASE s = player
  BY <1>1, <1>2 DEF Drawn, Mark
<1>3. CASE s \notin Cell
  BY <1>1, <1>3 DEF Drawn, Mark
<1>4. CASE s \in walls
  BY <1>1, <1>4 DEF Drawn, Mark
<1>5. CASE s \in Cell /\ s \notin walls /\ s # player /\ s = exit
  BY <1>5 DEF Drawn, Mark
<1>6. CASE s \in Cell /\ s \notin walls /\ s # player /\ s # exit
  BY <1>6 DEF Drawn, Mark
<1> QED BY <1>2, <1>3, <1>4, <1>5, <1>6

\* When the client has reckoned its column right it copies every cell of the view
\* to where it belongs, and takes the player to be where it is.
LEMMA ViewInPlace ==
  ASSUME ExploreInv, mode = "look"
  PROVE  /\ \A g \in Viewed : Shows(g) = CellOf(g)
         /\ GridOf(player) \in Viewed /\ CellOf(GridOf(player)) = player
         /\ GridOf(player)[2] = c + HalfW
         /\ \A m \in Move : Ahead(GridOf(player), m) \in Viewed
<1>1. /\ HalfH \in Nat \ {0} /\ HalfW \in Nat \ {0} /\ shift \in Int /\ c \in Int
      /\ player[2] + shift = c + HalfW /\ player \in Cell
  BY PlacedNumbers DEF ExploreInv, Located, Placed, ExploreTypeOK
<1>2. /\ GridOf(player) \in Grid /\ CellOf(GridOf(player)) = player
      /\ player[1] \in Int /\ player[2] \in Int
  BY <1>1, GridOfCell DEF ExploreInv
<1>3. ASSUME NEW g \in Viewed PROVE Shows(g) = CellOf(g)
  <2>1. g \in Grid
    BY DEF Viewed
  <2>2. g[1] \in Int /\ g[2] \in Int
    BY <2>1, CellOfGrid DEF ExploreInv
  <2>3. player[1] - HalfH + g[1] - (player[1] - HalfH) = g[1]
    BY <1>1, <1>2, <2>2
  <2>4. player[2] - HalfW + g[2] - c = g[2] - shift
    BY <1>1, <1>2, <2>2
  <2> QED BY <2>3, <2>4 DEF Shows, CellOf, RowLabel
<1>4. GridOf(player)[1] = player[1] /\ GridOf(player)[2] = c + HalfW
  BY <1>1 DEF GridOf
<1>5. GridOf(player) \in Viewed
  <2>1. player[1] \in RowLabel .. RowLabel + 2 * HalfH
    BY <1>1, <1>2 DEF RowLabel
  <2>2. c + HalfW \in c .. c + 2 * HalfW
    BY <1>1
  <2> QED BY <1>2, <1>4, <2>1, <2>2 DEF Viewed
<1>6. ASSUME NEW m \in Move PROVE Ahead(GridOf(player), m) \in Viewed
  <2>1. CellOf(GridOf(player)) \in Cell \ walls
    BY <1>2 DEF ExploreInv, Placed
  <2>2. Ahead(GridOf(player), m) \in Grid
    BY <1>2, <2>1, AheadOnGrid DEF ExploreInv
  <2>3. /\ Ahead(GridOf(player), m)[1] \in {player[1] - 1, player[1], player[1] + 1}
        /\ Ahead(GridOf(player), m)[2] \in {c + HalfW - 1, c + HalfW, c + HalfW + 1}
    BY <1>1, <1>4 DEF Ahead, Move
  <2>4. /\ {player[1] - 1, player[1], player[1] + 1} \subseteq RowLabel .. RowLabel + 2 * HalfH
        /\ {c + HalfW - 1, c + HalfW, c + HalfW + 1} \subseteq c .. c + 2 * HalfW
    BY <1>1, <1>2 DEF RowLabel
  <2> QED BY <2>2, <2>3, <2>4 DEF Viewed
<1> QED BY <1>2, <1>3, <1>4, <1>5, <1>6

LEMMA LookKeeps ==
  ASSUME ExploreInv, Look
  PROVE  ExploreInv'
<1>1. /\ UNCHANGED <<walls, exit, shift, player, c, i>> /\ mode = "look" /\ mode' = "call"
      /\ maze' = [g \in Grid |-> IF g \in Viewed THEN Drawn(Shows(g)) ELSE maze[g]]
      /\ end_seen' = ExitSeen /\ toExit' = end_seen' /\ ~res' /\ res' \in BOOLEAN
      /\ at' = CHOOSE g \in Viewed : Drawn(Shows(g)) = "*"
      /\ visit' = {} /\ path' = <<>> /\ stack' = <<>> /\ here' = at'
  BY DEF Look, given
<1>2. /\ \A g \in Viewed : Shows(g) = CellOf(g)
      /\ GridOf(player) \in Viewed /\ CellOf(GridOf(player)) = player
      /\ GridOf(player)[2] = c + HalfW
      /\ \A m \in Move : Ahead(GridOf(player), m) \in Viewed
  BY <1>1, ViewInPlace
<1>3. \A g \in Viewed : g \in Grid /\ (CellOf(g) = player <=> g = GridOf(player))
  BY <1>2, CellOfGrid DEF ExploreInv, Viewed
<1>4. at' = GridOf(player)
  <2>1. \A g \in Viewed : Drawn(Shows(g)) = "*" <=> g = GridOf(player)
    BY <1>2, <1>3, DrawnIsTrue
  <2> QED BY <1>1, <1>2, <2>1
<1>5. ASSUME NEW g \in Grid
      PROVE  /\ maze'[g] \in Mark /\ (maze'[g] = "*" <=> g = GridOf(player))
             /\ g \in Viewed => maze'[g] # "?"
             /\ maze'[g] # "?" => /\ maze'[g] = "#" <=> CellOf(g) \in walls
                                  /\ maze'[g] = "E" => CellOf(g) = exit
                                  /\ maze'[g] = " " <=> CellOf(g) \notin Cell
  <2>1. CASE g \in Viewed
    <3>1. maze'[g] = Drawn(CellOf(g))
      BY <1>1, <1>2, <2>1
    <3> QED BY <1>3, <2>1, <3>1, DrawnIsTrue
  <2>2. CASE g \notin Viewed
    <3>1. maze'[g] = maze[g]
      BY <1>1, <2>2
    <3>2. maze[g] \in Mark /\ maze[g] # "*"
      BY <1>1 DEF ExploreInv, ExploreTypeOK, AroundPlayer
    <3>3. g # GridOf(player)
      BY <1>2, <2>2
    <3>4. maze[g] # "?" => /\ maze[g] = "#" <=> CellOf(g) \in walls
                           /\ maze[g] = "E" => CellOf(g) = exit
                           /\ maze[g] = " " <=> CellOf(g) \notin Cell
      BY DEF ExploreInv, KnownIsTrue, Known
    <3> QED BY <2>2, <3>1, <3>2, <3>3, <3>4
  <2> QED BY <2>1, <2>2
<1>6. ExploreTypeOK'
  <2>1. maze' \in [Grid -> Mark]
    BY <1>1, <1>5
  <2>2. at' \in Grid /\ here' \in Grid
    BY <1>1, <1>2, <1>3, <1>4
  <2>3. end_seen' \in BOOLEAN /\ toExit' \in BOOLEAN
    BY <1>1 DEF ExitSeen, ExploreInv, ExploreTypeOK
  <2>4. /\ walls' \subseteq Cell /\ exit' \in Cell /\ player' \in Cell /\ shift' \in Int
        /\ c' \in Int /\ i' \in Nat
    BY <1>1 DEF ExploreInv, ExploreTypeOK
  <2>5. visit' \subseteq Grid /\ path' \in Seq(Symbol) /\ stack' \in Seq(Frame)
    BY <1>1
  <2> QED BY <1>1, <2>1, <2>2, <2>3, <2>4, <2>5 DEF ExploreTypeOK
<1>7. Placed'
  BY <1>1 DEF ExploreInv, Placed
<1>8. AroundPlayer'
  <2>1. maze'[at'] = "*"
    BY <1>2, <1>3, <1>4, <1>5
  <2>2. \A m \in Move : maze'[Ahead(at', m)] # "?"
    BY <1>2, <1>3, <1>4, <1>5
  <2>3. \A g \in Grid : maze'[g] = "*" => g = at'
    BY <1>4, <1>5
  <2> QED BY <1>1, <2>1, <2>2, <2>3 DEF AroundPlayer
<1>9. Len(stack') = 0 /\ Len(path') = 0
  BY <1>1
<1>10. Trail' /\ PathSpellsTrail'
  BY <1>1, <1>9 DEF Trail, PathSpellsTrail
<1>11. Located' /\ WalkIsOpen'
  <2>1. at'[2] = c' + HalfW /\ at' = <<player'[1], player'[2] + shift'>>
    BY <1>1, <1>2, <1>4 DEF GridOf
  <2> QED BY <1>1, <2>1 DEF Located, WalkIsOpen
<1>12. KnownIsTrue'
  <2>1. \A g : CellOf(g)' = CellOf(g)
    BY <1>1 DEF CellOf
  <2>2. \A g \in Grid : maze'[g] = "*" => CellOf(g) = player
    BY <1>2, <1>5
  <2> QED BY <1>1, <1>5, <2>1, <2>2 DEF KnownIsTrue, Known
<1> QED BY <1>6, <1>7, <1>8, <1>10, <1>11, <1>12 DEF ExploreInv

-----------------------------------------------------------------------------
LEMMA InitExplore == ExploreInit => ExploreInv
<1> SUFFICES ASSUME ExploreInit PROVE ExploreInv
  OBVIOUS
<1>1. /\ player \in Cell \ Edge /\ exit \in Cell \ (Edge \union {player})
      /\ shift = Origin + HalfW - player[2]
      /\ maze = [g \in Grid |-> "?"] /\ c = Origin /\ end_seen = FALSE /\ at = <<0, 0>>
      /\ visit = {} /\ path = <<>> /\ stack = <<>> /\ here = <<0, 0>> /\ res = FALSE
      /\ toExit = FALSE /\ mode = "look" /\ i = 0
  BY DEF ExploreInit
<1>2. PICK w \in SUBSET (Cell \ (Edge \union {player, exit})) : walls = Edge \union w
  BY DEF ExploreInit
<1>3. /\ Rows \in Nat /\ Cols \in Nat /\ HalfH \in Nat \ {0} /\ HalfW \in Nat \ {0}
      /\ Width \in Nat /\ Origin \in Nat /\ Origin >= Cols
      /\ Width >= Origin + Cols + 2 * HalfW
  BY SizeAssumption
<1>4. player[1] \in 1..Rows /\ player[2] \in 1..Cols
  BY <1>1, <1>3 DEF Cell, Edge
<1>5. /\ shift \in Int /\ shift \in Origin + HalfW - Cols .. Origin + HalfW - 1
      /\ player[2] + shift = c + HalfW
  BY <1>1, <1>3, <1>4
<1>6. Edge \subseteq Cell
  BY DEF Edge
<1>7. Placed
  BY <1>1, <1>2, <1>5, <1>6 DEF Placed
<1>8. <<0, 0>> \in Grid
  BY <1>3 DEF Grid
<1>9. ExploreTypeOK
  <2>1. maze \in [Grid -> Mark]
    BY <1>1 DEF Mark
  <2>2. walls \subseteq Cell /\ exit \in Cell /\ player \in Cell
    BY <1>1, <1>2, <1>6
  <2>3. c \in Int /\ i \in Nat
    BY <1>1, <1>3
  <2>4. visit \subseteq Grid /\ path \in Seq(Symbol) /\ stack \in Seq(Frame)
    BY <1>1
  <2> QED BY <1>1, <1>5, <1>8, <2>1, <2>2, <2>3, <2>4 DEF ExploreTypeOK
<1>10. Len(stack) = 0 /\ Len(path) = 0
  BY <1>1
<1>11. AroundPlayer /\ Trail /\ PathSpellsTrail /\ WalkIsOpen
  BY <1>1, <1>10 DEF AroundPlayer, Trail, PathSpellsTrail, WalkIsOpen
<1>12. Located /\ KnownIsTrue
  BY <1>1, <1>5 DEF Located, KnownIsTrue, Known
<1> QED BY <1>7, <1>9, <1>11, <1>12 DEF ExploreInv

LEMMA NextExplore == ExploreInv /\ [ExploreNext]_exploreVars => ExploreInv'
<1> SUFFICES ASSUME ExploreInv, [ExploreNext]_exploreVars PROVE ExploreInv'
  OBVIOUS
<1>1. CASE ExploreNext
  BY <1>1, LookKeeps, FoundKeeps, TurnBackKeeps, EnterKeeps, TurnKeeps, BacktrackKeeps,
     SendPathKeeps, SearchOnKeeps, SendNothingKeeps, GoRoundKeeps, ObeyKeeps, AnswerKeeps,
     ReckonKeeps DEF ExploreNext
<1>2. CASE UNCHANGED exploreVars
  <2>1. UNCHANGED <<walls, exit, shift, player, maze, c, end_seen, at, visit, path, stack,
                    here, res, toExit, mode, i>>
    BY <1>2 DEF exploreVars, given, client, search
  <2>2. ExploreTypeOK' /\ Placed' /\ AroundPlayer'
    BY <2>1 DEF ExploreInv, ExploreTypeOK, Placed, AroundPlayer
  <2>3. Trail' /\ PathSpellsTrail'
    BY <2>1 DEF ExploreInv, Trail, PathSpellsTrail, CellOf, Top
  <2>4. Located' /\ KnownIsTrue' /\ WalkIsOpen'
    BY <2>1 DEF ExploreInv, Located, KnownIsTrue, WalkIsOpen, Known, CellOf, Spot
  <2> QED BY <2>2, <2>3, <2>4 DEF ExploreInv
<1> QED BY <1>1, <1>2

\* In a maze of any size with a wall around it, whatever view port it is shown
\* through, the map that the exploring client makes is right, the player is where
\* it takes it to be, and no letter it sends leads into a wall or into the unknown.
THEOREM MapStaysRight == ExploreSpec => []ExploreInv
BY InitExplore, NextExplore, PTL DEF ExploreSpec

\* The same beside the other programs.
THEOREM LabsMapStaysRight == LabsSpec => []ExploreInv
<1>1. LabsInit => ExploreInv
  BY InitExplore DEF LabsInit
<1>2. ExploreInv /\ [LabsNext]_labsVars => ExploreInv'
  <2> SUFFICES ASSUME ExploreInv, [LabsNext]_labsVars PROVE ExploreInv'
    OBVIOUS
  <2>1. CASE ExploreRuns
    BY <2>1, NextExplore DEF ExploreRuns
  <2>2. CASE ~ExploreRuns /\ [LabsNext]_labsVars
    <3>1. UNCHANGED exploreVars
      BY <2>2 DEF LabsNext, CodecRuns, MazeRuns, RoomRuns, OtpRuns, CaptureRuns,
                  VerifyRuns, BlocksRun, MeterRuns, labsVars
    <3> QED BY <3>1, NextExplore
  <2> QED BY <2>1, <2>2
<1> QED BY <1>1, <1>2, PTL DEF LabsSpec

-----------------------------------------------------------------------------
\* The readers of segments.

\* What is between the start of the buffer and the '\0' put behind a segment is the
\* segment, whatever the buffer had in it before.
LEMMA CStringOfFilled ==
  ASSUME NEW mem, NEW seg \in Seq(Nat \ {0}), Len(seg) <= BufSize
  PROVE  CString(Filled(mem, seg)) = seg
<1> DEFINE f == Filled(mem, seg)
           n == Len(seg)
           P(k) == f[k] = NUL /\ \A l \in 1..k-1 : f[l] # NUL
<1>1. n \in Nat /\ \A k \in 1..n : seg[k] \in Nat \ {0}
  BY LenProperties, ElementOfSeq
<1>2. n+1 \in 1..BufSize+1 /\ 1..n \subseteq 1..BufSize+1
  BY <1>1, BufferAssumption
<1>3. /\ \A k \in 1..n : f[k] = seg[k]
      /\ f[n+1] = NUL
  <2>1. \A k \in 1..n : f[k] = seg[k]
    BY <1>2, <1>1 DEF Filled
  <2>2. ~(n+1 <= n)
    BY <1>1
  <2>3. f[n+1] = NUL
    BY <1>2, <2>2 DEF Filled
  <2> QED BY <2>1, <2>3
<1>4. P(n+1)
  <2>1. \A l \in 1..(n+1)-1 : l \in 1..n
    BY <1>1
  <2> QED BY <1>1, <1>3, <2>1 DEF NUL
<1>5. \A k \in 1..BufSize+1 : P(k) => k = n+1
  <2> SUFFICES ASSUME NEW k \in 1..BufSize+1, P(k), k # n+1 PROVE FALSE
    OBVIOUS
  <2>1. CASE k \in 1..n
    BY <1>1, <1>3, <2>1 DEF NUL
  <2>2. CASE k > n+1
    <3>1. n+1 \in 1..k-1
      BY <1>1, <2>2
    <3> QED BY <1>3, <3>1
  <2>3. k \in 1..n \/ k > n+1
    BY <1>1, BufferAssumption
  <2> QED BY <2>1, <2>2, <2>3
<1>6. (CHOOSE k \in 1..BufSize+1 : P(k)) = n+1
  BY <1>2, <1>4, <1>5
<1>7. CString(f) = SubSeq(f, 1, n)
  <2>1. (n+1) - 1 = n
    BY <1>1
  <2> HIDE DEF f, n
  <2> QED BY <1>6, <2>1 DEF CString
<1> HIDE DEF f, P
<1>8. SubSeq(f, 1, n) = seg
  <2>1. \A k \in 1..n : f[k] \in Nat \ {0}
    BY <1>1, <1>3
  <2>2. /\ SubSeq(f, 1, n) \in Seq(Nat \ {0}) /\ Len(SubSeq(f, 1, n)) = IF 1 <= n THEN n-1+1 ELSE 0
        /\ \A k \in 1..n-1+1 : SubSeq(f, 1, n)[k] = f[1+k-1]
    BY <1>1, <2>1, SubSeqProperties
  <2> HIDE DEF n
  <2>3. n-1+1 = n /\ (~(1 <= n) => n = 0) /\ \A k \in 1..n : 1+k-1 = k
    BY <1>1
  <2>4. Len(SubSeq(f, 1, n)) = n
    BY <2>2, <2>3
  <2>5. \A k \in 1..n : SubSeq(f, 1, n)[k] = seg[k]
    BY <1>3, <2>2, <2>3
  <2> USE DEF n
  <2> QED BY <2>2, <2>4, <2>5, SeqEqual
<1> QED BY <1>7, <1>8 DEF f

\* A part of a sequence, by its length.
LEMMA PartProperties ==
  ASSUME NEW S, NEW s \in Seq(S), NEW d \in Nat, NEW n \in Nat, d + n <= Len(s)
  PROVE  /\ SubSeq(s, d+1, d+n) \in Seq(S) /\ Len(SubSeq(s, d+1, d+n)) = n
         /\ \A k \in 1..n : SubSeq(s, d+1, d+n)[k] = s[d+k]
<1>1. Len(s) \in Nat /\ \A k \in 1..Len(s) : s[k] \in S
  BY LenProperties, ElementOfSeq
<1>2. \A k \in d+1..d+n : s[k] \in S
  <2>1. \A k \in d+1..d+n : k \in 1..Len(s)
    BY <1>1
  <2> QED BY <1>1, <2>1
<1>3. /\ SubSeq(s, d+1, d+n) \in Seq(S)
      /\ Len(SubSeq(s, d+1, d+n)) = IF d+1 <= d+n THEN (d+n)-(d+1)+1 ELSE 0
      /\ \A k \in 1..(d+n)-(d+1)+1 : SubSeq(s, d+1, d+n)[k] = s[(d+1)+k-1]
  <2>1. d+1 \in Int /\ d+n \in Int
    OBVIOUS
  <2> QED BY <1>2, <2>1, SubSeqProperties
<1>4. /\ (d+n)-(d+1)+1 = n /\ (~(d+1 <= d+n) => n = 0)
      /\ \A k \in 1..n : (d+1)+k-1 = d+k
  OBVIOUS
<1>5. Len(SubSeq(s, d+1, d+n)) = n
  BY <1>3, <1>4
<1> QED BY <1>3, <1>4, <1>5

FoundAt(s, text, d) == \A k \in 1..Len(s) : s[k] = text[d+k]

\* The first bytes of what is left of a text are what the client then finds in its
\* buffer.
LEMMA TakenProperties ==
  ASSUME NEW S, S \subseteq Nat \ {0}, NEW text \in Seq(S), stream \in Seq(S),
         RestOf(stream, text), NEW d \in Nat, Len(text) = d + Len(stream),
         NEW n \in 1..Len(stream), n <= BufSize, NEW seg, seg = SubSeq(stream, 1, n)
  PROVE  /\ seg \in Seq(S) /\ Len(seg) = n
         /\ \A k \in 1..n : seg[k] = stream[k]
         /\ FoundAt(seg, text, d)
         /\ CString(Filled(buffer, seg)) = seg
<1>1. /\ Len(stream) \in Nat /\ Len(text) \in Nat /\ n \in Nat /\ n <= Len(stream) /\ n >= 1
      /\ Len(stream) <= Len(text)
  BY LenProperties DEF RestOf
<1>2. \A k \in 1..Len(stream) : stream[k] = text[d+k]
  <2>1. Len(text) - Len(stream) = d
    BY <1>1
  <2> QED BY <2>1 DEF RestOf
<1>3. /\ seg \in Seq(S) /\ Len(seg) = n
      /\ \A k \in 1..n : seg[k] = stream[k]
  <2>1. 0 + n = n /\ 0 + 1 = 1 /\ \A k \in 1..n : 0 + k = k
    BY <1>1
  <2>2. /\ SubSeq(stream, 0+1, 0+n) \in Seq(S) /\ Len(SubSeq(stream, 0+1, 0+n)) = n
        /\ \A k \in 1..n : SubSeq(stream, 0+1, 0+n)[k] = stream[0+k]
    BY <1>1, <2>1, PartProperties
  <2> QED BY <2>1, <2>2
<1>4. \A k \in 1..n : seg[k] = text[d+k]
  <2>1. \A k \in 1..n : k \in 1..Len(stream)
    BY <1>1
  <2> QED BY <1>2, <1>3, <2>1
<1>5. CString(Filled(buffer, seg)) = seg
  <2>1. seg \in Seq(Nat \ {0})
    <3>1. \A k \in 1..Len(seg) : seg[k] \in Nat \ {0}
      BY <1>3, ElementOfSeq
    <3> QED BY <1>3, <3>1
  <2> QED BY <1>3, <2>1, CStringOfFilled
<1>6. FoundAt(seg, text, d)
  BY <1>3, <1>4 DEF FoundAt
<1> QED BY <1>3, <1>5, <1>6

\* A read takes them from what is left.
LEMMA ReadProperties ==
  ASSUME NEW S, S \subseteq Nat \ {0}, NEW text \in Seq(S), stream \in Seq(S),
         RestOf(stream, text), NEW d \in Nat, Len(text) = d + Len(stream), NEW seg, Read(seg)
  PROVE  /\ seg \in Seq(S) /\ Len(seg) \in 1..Len(stream) /\ Len(seg) <= BufSize
         /\ stream' \in Seq(S) /\ Len(stream') = Len(stream) - Len(seg)
         /\ Len(stream) \in Nat /\ Len(text) = (d + Len(seg)) + Len(stream')
         /\ RestOf(stream', text)
         /\ FoundAt(seg, text, d)
         /\ CString(buffer') = seg
<1>1. PICK n \in 1..Len(stream) : n <= BufSize /\ seg = SubSeq(stream, 1, n)
  BY DEF Read
<1>2. /\ Len(stream) \in Nat /\ Len(text) \in Nat /\ n \in Nat /\ n <= Len(stream) /\ n >= 1
      /\ Len(stream) <= Len(text)
  BY <1>1, LenProperties DEF RestOf
<1>3. \A k \in 1..Len(stream) : stream[k] = text[d+k]
  <2>1. Len(text) - Len(stream) = d
    BY <1>2
  <2> QED BY <2>1 DEF RestOf
<1>4. /\ seg \in Seq(S) /\ Len(seg) = n /\ FoundAt(seg, text, d)
      /\ CString(Filled(buffer, seg)) = seg
  BY <1>1, TakenProperties
<1>5. stream' = SubSeq(stream, n+1, Len(stream)) /\ buffer' = Filled(buffer, seg)
  BY <1>4 DEF Read
<1>6. PICK m \in Nat : m = Len(stream) - n /\ n + m = Len(stream)
  <2>1. \A x, y \in Nat : x <= y => y - x \in Nat /\ x + (y - x) = y
    OBVIOUS
  <2> QED BY <1>2, <2>1
<1>7. /\ stream' \in Seq(S) /\ Len(stream') = m
      /\ \A k \in 1..m : stream'[k] = stream[n+k]
  <2>1. /\ SubSeq(stream, n+1, n+m) \in Seq(S) /\ Len(SubSeq(stream, n+1, n+m)) = m
        /\ \A k \in 1..m : SubSeq(stream, n+1, n+m)[k] = stream[n+k]
    <3>1. n + m <= Len(stream)
      BY <1>2, <1>6
    <3> QED BY <1>2, <3>1, PartProperties
  <2> QED BY <1>5, <1>6, <2>1
<1>9. RestOf(stream', text)
  <2>1. Len(stream') <= Len(text)
    BY <1>2, <1>6, <1>7
  <2>2. ASSUME NEW k \in 1..m PROVE stream'[k] = text[Len(text) - m + k]
    <3>1. n+k \in 1..Len(stream) /\ d + (n+k) = Len(text) - m + k
      BY <1>2, <1>6
    <3> QED BY <1>3, <1>7, <3>1
  <2> QED BY <1>7, <2>1, <2>2 DEF RestOf
<1>10. CString(buffer') = seg
  BY <1>4, <1>5
<1>12. Len(text) = (d + Len(seg)) + Len(stream')
  BY <1>2, <1>4, <1>6, <1>7
<1> QED BY <1>1, <1>2, <1>4, <1>6, <1>7, <1>9, <1>10, <1>12

-----------------------------------------------------------------------------
\* strstr for the words of one and of two bytes that the clients look for.
LEMMA OneByteWord ==
  ASSUME NEW S, NEW s \in Seq(S), NEW x
  PROVE  Has(s, <<x>>) <=> \E k \in 1..Len(s) : s[k] = x
<1>1. PICK n \in Nat : n = Len(s)
  BY LenProperties
<1>2. ASSUME NEW k \in 1..n PROVE SubSeq(s, k, k+1-1) = <<x>> <=> s[k] = x
  <2>1. PICK e \in Nat : e + 1 = k
    <3>1. k - 1 \in Nat /\ (k - 1) + 1 = k
      BY <1>1
    <3> QED BY <3>1
  <2>2. /\ SubSeq(s, e+1, e+1) \in Seq(S) /\ Len(SubSeq(s, e+1, e+1)) = 1
        /\ \A l \in 1..1 : SubSeq(s, e+1, e+1)[l] = s[e+l]
    <3>1. e + 1 <= Len(s) /\ 1 \in Nat
      BY <1>1, <2>1
    <3> QED BY <3>1, PartProperties
  <2>3. SubSeq(s, e+1, e+1)[1] = s[k]
    BY <2>1, <2>2
  <2>4. k + 1 - 1 = k
    BY <1>1
  <2> DEFINE sub == SubSeq(s, k, k)
  <2>5. sub \in Seq(S) /\ Len(sub) = 1 /\ sub[1] = s[k]
    BY <2>1, <2>2, <2>3
  <2> HIDE DEF sub
  <2>6. sub = <<sub[1]>>
    BY <2>5
  <2>7. sub = <<x>> => sub[1] = x
    OBVIOUS
  <2> QED BY <2>4, <2>5, <2>6, <2>7 DEF sub
<1>3. Places(s, <<x>>) = {k \in 1..n : s[k] = x}
  <2>1. Len(<<x>>) = 1 /\ n - 1 + 1 = n
    BY <1>1
  <2>2. Places(s, <<x>>) = {k \in 1..n : SubSeq(s, k, k+1-1) = <<x>>}
    BY <1>1, <2>1 DEF Places
  <2> QED BY <1>2, <2>2
<1> QED BY <1>1, <1>3 DEF Has

LEMMA TwoByteWord ==
  ASSUME NEW S, NEW s \in Seq(S), NEW x, NEW y
  PROVE  Places(s, <<x, y>>) = {k \in 1..Len(s)-1 : s[k] = x /\ s[k+1] = y}
<1>1. PICK n \in Nat : n = Len(s)
  BY LenProperties
<1>2. ASSUME NEW k \in 1..n-1
      PROVE  SubSeq(s, k, k+2-1) = <<x, y>> <=> s[k] = x /\ s[k+1] = y
  <2>1. PICK e \in Nat : e + 1 = k
    <3>1. k - 1 \in Nat /\ (k - 1) + 1 = k
      BY <1>1
    <3> QED BY <3>1
  <2>2. /\ SubSeq(s, e+1, e+2) \in Seq(S) /\ Len(SubSeq(s, e+1, e+2)) = 2
        /\ \A l \in 1..2 : SubSeq(s, e+1, e+2)[l] = s[e+l]
    <3>1. e + 2 <= Len(s) /\ 2 \in Nat
      BY <1>1, <2>1
    <3> QED BY <3>1, PartProperties
  <2>3. k + 2 - 1 = e + 2 /\ k + 1 = e + 2
    BY <1>1, <2>1
  <2> DEFINE sub == SubSeq(s, e+1, e+2)
  <2>4. sub \in Seq(S) /\ Len(sub) = 2 /\ sub[1] = s[k] /\ sub[2] = s[k+1]
    BY <2>1, <2>2, <2>3
  <2> HIDE DEF sub
  <2>5. sub = <<sub[1], sub[2]>>
    BY <2>4
  <2>6. sub = <<x, y>> => sub[1] = x /\ sub[2] = y
    OBVIOUS
  <2>7. SubSeq(s, k, k+2-1) = sub
    BY <2>1, <2>3 DEF sub
  <2> QED BY <2>4, <2>5, <2>6, <2>7
<1>3. Len(<<x, y>>) = 2 /\ n - 2 + 1 = n - 1
  BY <1>1
<1>4. Places(s, <<x, y>>) = {k \in 1..n-1 : SubSeq(s, k, k+2-1) = <<x, y>>}
  <2>1. Places(s, <<x, y>>) = {k \in 1..n-2+1 : SubSeq(s, k, k+2-1) = <<x, y>>}
    BY <1>1, <1>3 DEF Places
  <2> QED BY <1>3, <2>1
<1> QED BY <1>1, <1>2, <1>4

-----------------------------------------------------------------------------
\* lab3/code2.c, code3.c and 4code.c: the text of the maze.

LEMMA MazeTextNumbers ==
  /\ MazeText \in Seq(MazeByte) /\ Len(MazeText) = Lines + 3
  /\ \A k \in 1..Lines+3 : MazeText[k] = k
<1> DEFINE body == [k \in 1..Lines |-> k]
<1>1. body \in Seq(MazeByte) /\ Len(body) = Lines /\ \A k \in 1..Lines : body[k] = k
  BY LinesAssumption DEF MazeByte
<1>2. /\ Prompt \in Seq(MazeByte) /\ Len(Prompt) = 3
      /\ Prompt[1] = Lines+1 /\ Prompt[2] = Lines+2 /\ Prompt[3] = Lines+3
  BY LinesAssumption DEF Prompt, MazeByte
<1> HIDE DEF body
<1>3. /\ body \o Prompt \in Seq(MazeByte) /\ Len(body \o Prompt) = Lines + 3
      /\ \A k \in 1..Lines+3 : (body \o Prompt)[k] =
           IF k <= Lines THEN body[k] ELSE Prompt[k - Lines]
  <2>1. Len(body) + Len(Prompt) = Lines + 3
    BY <1>1, <1>2
  <2> QED BY <1>1, <1>2, <2>1, ConcatProperties
<1>4. \A k \in 1..Lines+3 : (body \o Prompt)[k] = k
  <2> SUFFICES ASSUME NEW k \in 1..Lines+3 PROVE (body \o Prompt)[k] = k
    OBVIOUS
  <2>1. CASE k <= Lines
    BY <1>1, <1>3, <2>1
  <2>2. CASE ~(k <= Lines)
    <3>1. k - Lines \in 1..3 /\ k \in {Lines+1, Lines+2, Lines+3}
      BY <2>2, LinesAssumption
    <3>2. \A n \in 1..3 : Prompt[n] = Lines + n
      BY <1>2
    <3>3. Prompt[k - Lines] = k
      BY <3>1, <3>2, LinesAssumption
    <3> QED BY <1>3, <2>2, <3>3
  <2> QED BY <2>1, <2>2
<1> QED BY <1>3, <1>4 DEF MazeText, body

\* strstr finds the prompt in a segment of the text exactly if all of it is there.
LEMMA PromptAtEnd ==
  ASSUME NEW d \in Nat, NEW seg \in Seq(MazeByte), d + Len(seg) <= Lines + 3,
         \A k \in 1..Len(seg) : seg[k] = d + k
  PROVE  Has(seg, Prompt) <=> Len(seg) >= 3 /\ d + Len(seg) = Lines + 3
<1>1. /\ Prompt \in Seq(MazeByte) /\ Len(Prompt) = 3
      /\ Prompt[1] = Lines+1 /\ Prompt[2] = Lines+2 /\ Prompt[3] = Lines+3
  BY LinesAssumption DEF Prompt, MazeByte
<1>2. PICK n \in Nat : n = Len(seg)
  BY LenProperties
<1>3. ASSUME NEW k \in Nat, k >= 1, k + 2 <= n
      PROVE  SubSeq(seg, k, k+2) = Prompt <=> d + k = Lines + 1
  <2>1. PICK e \in Nat : e + 1 = k /\ e + 3 = k + 2
    BY <1>3
  <2>2. /\ SubSeq(seg, k, k+2) \in Seq(MazeByte) /\ Len(SubSeq(seg, k, k+2)) = 3
        /\ \A l \in 1..3 : SubSeq(seg, k, k+2)[l] = seg[e+l]
    <3>1. e + 3 <= Len(seg) /\ 3 \in Nat
      BY <1>2, <1>3, <2>1
    <3>2. /\ SubSeq(seg, e+1, e+3) \in Seq(MazeByte) /\ Len(SubSeq(seg, e+1, e+3)) = 3
          /\ \A l \in 1..3 : SubSeq(seg, e+1, e+3)[l] = seg[e+l]
      BY <3>1, PartProperties
    <3> QED BY <2>1, <3>2
  <2>3. \A l \in 1..3 : seg[e+l] = d + (e+l)
    BY <1>2, <1>3, <2>1
  <2>4. CASE d + k = Lines + 1
    <3>1. \A l \in 1..3 : d + (e+l) = Lines + l
      BY <2>1, <2>4, LinesAssumption
    <3>2. \A l \in 1..3 : Prompt[l] = Lines + l
      BY <1>1
    <3>3. \A l \in 1..3 : SubSeq(seg, k, k+2)[l] = Prompt[l]
      BY <2>2, <2>3, <3>1, <3>2
    <3> QED BY <1>1, <2>2, <2>4, <3>3, SeqEqual
  <2>5. CASE d + k # Lines + 1
    <3>1. 1 \in 1..3 /\ d + (e+1) = d + k
      BY <2>1
    <3>2. SubSeq(seg, k, k+2)[1] # Prompt[1]
      BY <1>1, <2>2, <2>3, <2>5, <3>1
    <3> QED BY <2>5, <3>2
  <2> QED BY <2>4, <2>5
<1>4. Places(seg, Prompt) = {k \in 1..n-2 : d + k = Lines + 1}
  <2>1. n - 3 + 1 = n - 2 /\ \A k \in Nat : k + 3 - 1 = k + 2
    BY <1>2
  <2>2. \A k \in 1..n-2 : k \in Nat /\ k >= 1 /\ k + 2 <= n
    BY <1>2
  <2>3. Places(seg, Prompt) = {k \in 1..n-2 : SubSeq(seg, k, k+2) = Prompt}
    <3>1. Places(seg, Prompt) = {k \in 1..n-3+1 : SubSeq(seg, k, k+3-1) = Prompt}
      BY <1>1, <1>2 DEF Places
    <3> QED BY <2>1, <2>2, <3>1
  <2> QED BY <1>3, <2>2, <2>3
<1>5. ASSUME n >= 3, d + n = Lines + 3 PROVE Places(seg, Prompt) # {}
  <2>1. n - 2 \in 1..n-2 /\ d + (n - 2) = Lines + 1
    BY <1>2, <1>5, LinesAssumption
  <2> QED BY <1>4, <2>1
<1>6. ASSUME NEW k \in Places(seg, Prompt) PROVE n >= 3 /\ d + n = Lines + 3
  <2>1. k \in 1..n-2 /\ d + k = Lines + 1
    BY <1>4
  <2>2. d + n <= Lines + 3
    BY <1>2
  <2> QED BY <1>2, <2>1, <2>2, LinesAssumption
<1> QED BY <1>2, <1>5, <1>6 DEF Has

LEMMA MazeTurn ==
  ASSUME ReadsWhole, ReadMaze
  PROVE  ReadsWhole'
<1>1. PICK seg : Read(seg) /\ receivedData' = receivedData \o seg
  BY DEF ReadMaze, Longer
<1>2. mazeMode = "read" /\ mazeMode' = IF HasPrompt THEN "parse" ELSE "read"
  BY DEF ReadMaze
<1>3. /\ receivedData \in Seq(MazeByte) /\ stream \in Seq(MazeByte)
      /\ receivedData \o stream = MazeText
  BY DEF ReadsWhole
<1>4. /\ MazeText \in Seq(MazeByte) /\ Len(MazeText) = Lines + 3
      /\ \A k \in 1..Lines+3 : MazeText[k] = k
  BY MazeTextNumbers
<1>5. PICK d \in Nat, m \in Nat : d = Len(receivedData) /\ m = Len(stream)
  BY <1>3, LenProperties
<1>6. /\ d + m = Lines + 3
      /\ \A k \in 1..d+m : MazeText[k] = IF k <= d THEN receivedData[k] ELSE stream[k-d]
  <2>1. /\ Len(receivedData \o stream) = Len(receivedData) + Len(stream)
        /\ \A k \in 1..Len(receivedData)+Len(stream) : (receivedData \o stream)[k] =
             IF k <= Len(receivedData) THEN receivedData[k] ELSE stream[k-Len(receivedData)]
    BY <1>3, ConcatProperties
  <2> QED BY <1>3, <1>4, <1>5, <2>1
<1>7. RestOf(stream, MazeText)
  <2>1. ASSUME NEW k \in 1..m PROVE stream[k] = MazeText[Lines + 3 - m + k]
    <3>1. /\ Lines + 3 - m + k = d + k /\ d + k \in 1..d+m /\ ~(d+k <= d) /\ (d+k)-d = k
      BY <1>6, LinesAssumption
    <3> QED BY <1>6, <3>1
  <2>2. m <= Lines + 3
    BY <1>6, LinesAssumption
  <2>3. \A k \in 1..Len(stream) : stream[k] = MazeText[Len(MazeText) - Len(stream) + k]
    <3>1. Len(MazeText) - Len(stream) = Lines + 3 - m
      BY <1>4, <1>5, LinesAssumption
    <3> QED BY <1>5, <2>1, <3>1
  <2> QED BY <1>4, <1>5, <2>2, <2>3 DEF RestOf
<1>8. /\ seg \in Seq(MazeByte) /\ Len(seg) \in 1..m
      /\ stream' \in Seq(MazeByte) /\ Len(stream') = m - Len(seg)
      /\ \A k \in 1..Len(seg) : seg[k] = MazeText[d + k]
      /\ CString(buffer') = seg
  <2>1. MazeByte \subseteq Nat \ {0}
    BY LinesAssumption DEF MazeByte
  <2>2. /\ seg \in Seq(MazeByte) /\ Len(seg) \in 1..Len(stream)
        /\ stream' \in Seq(MazeByte) /\ Len(stream') = Len(stream) - Len(seg)
        /\ \A k \in 1..Len(seg) : seg[k] = MazeText[d + k]
        /\ CString(buffer') = seg
    <3>1. stream \in Seq(MazeByte) /\ MazeText \in Seq(MazeByte) /\ Read(seg)
      BY <1>1, <1>3, <1>4
    <3>2. Len(MazeText) = d + Len(stream)
      BY <1>4, <1>5, <1>6
    <3>3. seg \in Seq(MazeByte) /\ Len(seg) \in 1..Len(stream)
      BY <1>7, <2>1, <3>1, <3>2, ReadProperties
    <3>4. stream' \in Seq(MazeByte) /\ Len(stream') = Len(stream) - Len(seg)
      BY <1>7, <2>1, <3>1, <3>2, ReadProperties
    <3>5. FoundAt(seg, MazeText, d)
      BY <1>7, <2>1, <3>1, <3>2, ReadProperties
    <3>6. CString(buffer') = seg
      BY <1>7, <2>1, <3>1, <3>2, ReadProperties
    <3> QED BY <3>3, <3>4, <3>5, <3>6 DEF FoundAt
  <2> QED BY <1>4, <1>5, <2>2
<1>9. receivedData' \in Seq(MazeByte) /\ receivedData' \o stream' = MazeText
  <2>1. PICK n \in 1..Len(stream) : n <= BufSize /\ seg = SubSeq(stream, 1, n)
    BY <1>1 DEF Read
  <2>2. n \in Nat /\ n + 1 \in Nat /\ n <= m
    BY <1>5, <2>1
  <2>3. Len(seg) = n
    <3>1. 0 + 1 = 1 /\ 0 + n = n /\ 0 + n <= Len(stream)
      BY <1>5, <2>2
    <3> QED BY <1>3, <2>1, <2>2, <3>1, PartProperties
  <2>4. stream' = SubSeq(stream, n+1, Len(stream))
    BY <1>1, <2>3 DEF Read
  <2>5. seg \o stream' = stream
    <3>1. /\ seg \o stream' \in Seq(MazeByte) /\ Len(seg \o stream') = Len(seg) + Len(stream')
          /\ \A k \in 1..Len(seg)+Len(stream') : (seg \o stream')[k] =
               IF k <= Len(seg) THEN seg[k] ELSE stream'[k - Len(seg)]
      BY <1>8, ConcatProperties
    <3>2. n + Len(stream') = m
      BY <1>5, <1>8, <2>2, <2>3
    <3>3. \A k \in 1..n : seg[k] = stream[k]
      <4>1. 0 + 1 = 1 /\ 0 + n = n /\ 0 + n <= Len(stream) /\ \A k \in 1..n : 0 + k = k
        BY <1>5, <2>2
      <4>2. \A k \in 1..n : SubSeq(stream, 0+1, 0+n)[k] = stream[0+k]
        BY <1>3, <2>2, <4>1, PartProperties
      <4> QED BY <2>1, <4>1, <4>2
    <3>4. PICK e \in Nat : e = m - n /\ n + e = m
      <4>1. \A x, y \in Nat : x <= y => y - x \in Nat /\ x + (y - x) = y
        OBVIOUS
      <4> QED BY <2>2, <4>1
    <3>5. \A k \in 1..e : stream'[k] = stream[n+k]
      BY <1>3, <1>5, <2>2, <2>4, <3>4, PartProperties
    <3>6. ASSUME NEW k \in 1..m PROVE (seg \o stream')[k] = stream[k]
      <4>1. CASE k <= n
        BY <2>3, <3>1, <3>2, <3>3, <4>1
      <4>2. CASE ~(k <= n)
        <5>1. k - n \in 1..e /\ n + (k - n) = k
          BY <2>2, <3>4, <4>2
        <5> QED BY <2>3, <3>1, <3>2, <3>5, <4>2, <5>1
      <4> QED BY <4>1, <4>2
    <3> QED BY <1>3, <1>5, <2>3, <3>1, <3>2, <3>6, SeqEqual
  <2>6. receivedData' \o stream' = receivedData \o (seg \o stream')
    <3>1. (receivedData \o seg) \o stream' = receivedData \o (seg \o stream')
      <4>1. receivedData \in Seq(MazeByte) /\ seg \in Seq(MazeByte) /\ stream' \in Seq(MazeByte)
        BY <1>3, <1>8
      <4> QED BY <4>1, ConcatAssociative
    <3> QED BY <1>1, <3>1
  <2>7. receivedData' \in Seq(MazeByte)
    BY <1>1, <1>3, <1>8, ConcatProperties
  <2> QED BY <1>3, <2>5, <2>6, <2>7
<1>10. HasPrompt <=> Len(seg) >= 3 /\ d + Len(seg) = Lines + 3
  <2>1. PICK n \in Nat : n = Len(seg) /\ n <= m
    <3>1. \A k \in 1..m : k \in Nat /\ k <= m
      BY <1>5
    <3> QED BY <1>8, <3>1
  <2>2. \A k \in 1..n : seg[k] = d + k
    <3> SUFFICES ASSUME NEW k \in 1..n PROVE seg[k] = d + k
      OBVIOUS
    <3>1. Lines \in Nat /\ d + m = Lines + 3
      BY <1>6, LinesAssumption
    <3>2. d + k \in 1..Lines+3
      BY <2>1, <3>1
    <3> QED BY <1>4, <1>8, <2>1, <3>2
  <2>3. d + n <= Lines + 3
    BY <1>6, <2>1, LinesAssumption
  <2> QED BY <1>8, <2>1, <2>2, <2>3, PromptAtEnd DEF HasPrompt
<1>11. stream' = <<>> <=> d + Len(seg) = Lines + 3
  <2>1. stream' = <<>> <=> Len(stream') = 0
    BY <1>8, EmptySeq
  <2>2. PICK n \in Nat : n = Len(seg)
    BY <1>8
  <2>3. m - n = 0 <=> d + n = Lines + 3
    BY <1>6, LinesAssumption
  <2> QED BY <1>8, <2>1, <2>2, <2>3
<1>12. HasPrompt => receivedData' = MazeText /\ stream' = <<>>
  <2> SUFFICES ASSUME HasPrompt PROVE receivedData' = MazeText /\ stream' = <<>>
    OBVIOUS
  <2>1. stream' = <<>>
    BY <1>10, <1>11
  <2>2. receivedData' \o <<>> = receivedData'
    BY <1>9, ConcatEmptySeq
  <2> QED BY <1>9, <2>1, <2>2
<1>13. ~HasPrompt /\ stream' = <<>> => Len(CString(buffer')) < Len(Prompt)
  <2>1. PICK n \in Nat : n = Len(seg)
    BY <1>8
  <2>2. ~(n >= 3) => n < 3
    OBVIOUS
  <2>3. Len(Prompt) = 3
    BY DEF Prompt
  <2> QED BY <1>8, <1>10, <1>11, <2>1, <2>2, <2>3
<1>14. mazeMode' = "parse" <=> HasPrompt
  BY <1>2
<1>15. mazeMode' \in {"read", "parse"}
  BY <1>2
<1>16. mazeMode' = "parse" => /\ receivedData' = MazeText /\ stream' = <<>>
                              /\ RestOf(CString(buffer'), MazeText)
  <2> SUFFICES ASSUME HasPrompt PROVE RestOf(CString(buffer'), MazeText)
    BY <1>12, <1>14
  <2>1. PICK n \in Nat : n = Len(seg)
    BY <1>8
  <2>2. Len(MazeText) - Len(seg) = d /\ Len(seg) <= Len(MazeText)
    BY <1>4, <1>10, <2>1, LinesAssumption
  <2> QED BY <1>8, <2>2 DEF RestOf
<1>17. mazeMode' = "read" /\ stream' = <<>> => Len(CString(buffer')) < Len(Prompt)
  BY <1>13, <1>14
<1>18. MazeText' = MazeText /\ Prompt' = Prompt
  BY DEF MazeText, Prompt
<1>19. /\ CString(buffer)' = CString(buffer')
       /\ RestOf(CString(buffer), MazeText)' <=> RestOf(CString(buffer'), MazeText)
  BY <1>18 DEF CString, RestOf
<1> QED BY <1>8, <1>9, <1>15, <1>16, <1>17, <1>18, <1>19 DEF ReadsWhole

\* strstr finds the note in the last segment exactly if that begins at or before it.
LEMMA ViewStep ==
  ASSUME ReadsWhole, TakeFirstView
  PROVE  ReadsWhole'
<1> DEFINE s == CString(buffer)
<1>1. /\ mazeMode = "parse" /\ mazeMode' = IF Has(s, Note) THEN "view" ELSE "crashed"
      /\ UNCHANGED <<stream, buffer, receivedData>> /\ s \in Seq(MazeByte) /\ RestOf(s, MazeText)
  BY DEF TakeFirstView, ReadsWhole
<1>2. CString(buffer)' = s /\ MazeText' = MazeText /\ Before' = Before
  BY <1>1 DEF CString, MazeText, Prompt, Before
<1>3. Before = Len(MazeText) - Len(s)
  BY DEF Before
<1> HIDE DEF s
<1>4. PICK n \in Nat : n = Len(s)
  BY <1>1, LenProperties
<1>5. PICK d \in Nat : d = Before /\ d + n = Lines + 3
  <2>1. n <= Lines + 3 /\ Before = Lines + 3 - n
    <3>1. Len(s) <= Len(MazeText)
      BY <1>1 DEF RestOf
    <3>2. Len(MazeText) = Lines + 3
      BY MazeTextNumbers
    <3> QED BY <1>3, <1>4, <3>1, <3>2, LinesAssumption
  <2>2. PICK e \in Nat : e = Lines + 3 - n /\ e + n = Lines + 3
    BY <2>1, LinesAssumption
  <2> QED BY <2>1, <2>2
<1>6. \A k \in 1..n : s[k] = d + k
  <2> SUFFICES ASSUME NEW k \in 1..n PROVE s[k] = d + k
    OBVIOUS
  <2>1. s[k] = MazeText[d + k]
    BY <1>1, <1>3, <1>4, <1>5 DEF RestOf
  <2>2. d + k \in 1..Lines+3
    BY <1>5, LinesAssumption
  <2> QED BY <2>1, <2>2, MazeTextNumbers
<1>7. Places(s, Note) = {k \in 1..n-1 : s[k] = NoteAt /\ s[k+1] = NoteAt + 1}
  BY <1>1, <1>4, TwoByteWord DEF Note
<1>8. Has(s, Note) <=> d < NoteAt
  <2>1. ASSUME d < NoteAt PROVE Places(s, Note) # {}
    <3>1. PICK k \in Nat : k = NoteAt - d /\ k \in 1..n-1 /\ d + k = NoteAt
      BY <1>5, <2>1, LinesAssumption
    <3>2. k \in 1..n /\ k+1 \in 1..n /\ d + (k+1) = NoteAt + 1
      BY <3>1, LinesAssumption
    <3>3. s[k] = NoteAt /\ s[k+1] = NoteAt + 1
      BY <1>6, <3>1, <3>2
    <3> QED BY <1>7, <3>1, <3>3
  <2>2. ASSUME NEW k \in Places(s, Note) PROVE d < NoteAt
    <3>1. k \in 1..n-1 /\ k \in 1..n /\ s[k] = NoteAt
      BY <1>7
    <3> QED BY <1>6, <3>1, LinesAssumption
  <2> QED BY <2>1, <2>2 DEF Has
<1>9. /\ mazeMode' = "view" => Before < NoteAt
      /\ mazeMode' = "crashed" => Before >= NoteAt
  BY <1>1, <1>5, <1>8, LinesAssumption
<1>10. mazeMode' \in {"view", "crashed"}
  BY <1>1
<1>11. RestOf(CString(buffer), MazeText)' <=> RestOf(s, MazeText)
  BY <1>2 DEF RestOf
<1>12. /\ receivedData \in Seq(MazeByte) /\ stream \in Seq(MazeByte)
       /\ receivedData \o stream = MazeText /\ receivedData = MazeText /\ stream = <<>>
  BY <1>1 DEF ReadsWhole
<1> QED BY <1>1, <1>2, <1>9, <1>10, <1>11, <1>12 DEF ReadsWhole

LEMMA MazeStep ==
  ASSUME ReadsWhole, MazeNext
  PROVE  ReadsWhole'
BY MazeTurn, ViewStep DEF MazeNext

\* What is written of the buffer and the text stays true as long as they do.
LEMMA MazeStays ==
  ASSUME ReadsWhole, UNCHANGED mazeVars
  PROVE  ReadsWhole'
BY DEF ReadsWhole, mazeVars, CString, Before, RestOf, MazeText, Prompt

LEMMA MazeStart ==
  ASSUME SegmentsInit(MazeText), MazeBegins
  PROVE  ReadsWhole
<1>1. /\ MazeText \in Seq(MazeByte) /\ Len(MazeText) = Lines + 3
  BY MazeTextNumbers
<1>2. stream = MazeText /\ receivedData = <<>> /\ mazeMode = "read"
  BY DEF SegmentsInit, MazeBegins
<1>3. stream # <<>>
  BY <1>1, <1>2, EmptySeq, LinesAssumption
<1>4. receivedData \in Seq(MazeByte) /\ receivedData \o stream = MazeText
  BY <1>1, <1>2, ConcatEmptySeq
<1> QED BY <1>1, <1>2, <1>3, <1>4 DEF ReadsWhole

\* The text is put together as it was sent, and parsed when all of it is there; the view
\* that 4code.c takes from the last segment is there if the note before it is.
THEOREM MazeReadWhole == MazeSpec => []ReadsWhole
<1>1. MazeInit => ReadsWhole
  BY MazeStart DEF MazeInit
<1>2. ReadsWhole /\ [MazeNext]_mazeVars => ReadsWhole'
  <2> SUFFICES ASSUME ReadsWhole, [MazeNext]_mazeVars PROVE ReadsWhole'
    OBVIOUS
  <2>1. CASE MazeNext
    BY <2>1, MazeStep
  <2>2. CASE UNCHANGED mazeVars
    BY <2>2, MazeStays
  <2> QED BY <2>1, <2>2
<1> QED BY <1>1, <1>2, PTL DEF MazeSpec

\* The same beside the other programs.
THEOREM MazeReadRight == LabsSpec => []MazeRight
<1>1. LabsInit => MazeRight
  BY MazeStart DEF LabsInit, MazeRight
<1>2. MazeRight /\ [LabsNext]_labsVars => MazeRight'
  <2> SUFFICES ASSUME MazeRight, [LabsNext]_labsVars, running' = "maze" PROVE ReadsWhole'
    BY DEF MazeRight
  <2>1. CASE MazeRuns
    BY <2>1, MazeStep DEF MazeRuns, MazeRight
  <2>2. CASE UNCHANGED labsVars
    <3>1. ReadsWhole /\ UNCHANGED mazeVars
      BY <2>2 DEF labsVars, segmentVars, mazeOwn, mazeVars, MazeRight
    <3> QED BY <3>1, MazeStays
  <2>3. CASE ~MazeRuns /\ LabsNext
    BY <2>3 DEF LabsNext, ExploreRuns, CodecRuns, RoomRuns, OtpRuns, CaptureRuns,
                VerifyRuns, BlocksRun, MeterRuns
  <2> QED BY <2>1, <2>2, <2>3
<1> QED BY <1>1, <1>2, PTL DEF LabsSpec

-----------------------------------------------------------------------------
\* lab3/code.c

RoomTextAt(k) == /\ RoomText[k] = RoomRows + 1 <=> k = 1
                 /\ RoomText[k] = RoomRows + 2 <=> k = 2
                 /\ \A n \in 1..RoomRows : RoomText[k] = n <=> k = n + 2

LEMMA RoomTextBytes ==
  /\ RoomText \in Seq(RoomByte) /\ Len(RoomText) = RoomRows + 3
  /\ \A k \in 1..RoomRows+3 : RoomTextAt(k)
<1> DEFINE rows == [k \in 1..RoomRows |-> Row(k)]
           over == <<RoomRows + 3>>
<1>0. RoomRows \in Nat \ {0}
  BY RoomAssumption
<1>1. rows \in Seq(RoomByte) /\ Len(rows) = RoomRows /\ \A k \in 1..RoomRows : rows[k] = k
  BY <1>0 DEF Row, RoomByte
<1>2. over \in Seq(RoomByte) /\ Len(over) = 1 /\ over[1] = RoomRows + 3
  BY <1>0 DEF RoomByte
<1>3. /\ SizeIs \in Seq(RoomByte) /\ Len(SizeIs) = 2
      /\ SizeIs[1] = RoomRows + 1 /\ SizeIs[2] = RoomRows + 2
  BY <1>0 DEF SizeIs, RoomByte
<1> HIDE DEF rows, over
<1> DEFINE front == SizeIs \o rows
<1>4. /\ front \in Seq(RoomByte) /\ Len(front) = RoomRows + 2
      /\ \A k \in 1..RoomRows+2 : front[k] = IF k <= 2 THEN SizeIs[k] ELSE rows[k-2]
  <2>1. /\ front \in Seq(RoomByte) /\ Len(front) = Len(SizeIs) + Len(rows)
        /\ \A k \in 1..Len(SizeIs)+Len(rows) : front[k] =
             IF k <= Len(SizeIs) THEN SizeIs[k] ELSE rows[k - Len(SizeIs)]
    BY <1>1, <1>3, ConcatProperties
  <2>2. Len(SizeIs) + Len(rows) = RoomRows + 2
    BY <1>0, <1>1, <1>3
  <2> HIDE DEF front
  <2> QED BY <1>3, <2>1, <2>2
<1> HIDE DEF front
<1>5. /\ front \o over \in Seq(RoomByte) /\ Len(front \o over) = RoomRows + 3
      /\ \A k \in 1..RoomRows+3 : (front \o over)[k] =
           IF k <= RoomRows+2 THEN front[k] ELSE over[k - (RoomRows + 2)]
  <2>1. /\ front \o over \in Seq(RoomByte) /\ Len(front \o over) = Len(front) + Len(over)
        /\ \A k \in 1..Len(front)+Len(over) : (front \o over)[k] =
             IF k <= Len(front) THEN front[k] ELSE over[k - Len(front)]
    BY <1>2, <1>4, ConcatProperties
  <2>2. Len(front) + Len(over) = RoomRows + 3
    BY <1>0, <1>2, <1>4
  <2> QED BY <1>4, <2>1, <2>2
<1>6. RoomText = front \o over
  BY DEF RoomText, front, rows, over
<1>7. \A k \in 1..RoomRows+3 :
        RoomText[k] = IF k <= 2 THEN RoomRows + k ELSE IF k <= RoomRows+2 THEN k - 2 ELSE RoomRows + 3
  <2> SUFFICES ASSUME NEW k \in 1..RoomRows+3
               PROVE  RoomText[k] = IF k <= 2 THEN RoomRows + k
                                    ELSE IF k <= RoomRows+2 THEN k - 2 ELSE RoomRows + 3
    OBVIOUS
  <2>1. CASE k \in {1, 2}
    <3>1. k <= 2 /\ k <= RoomRows+2 /\ k \in 1..RoomRows+2
      BY <1>0, <2>1
    <3>2. RoomText[k] = SizeIs[k]
      BY <1>4, <1>5, <1>6, <3>1
    <3>3. SizeIs[k] = RoomRows + k
      BY <1>3, <2>1
    <3> QED BY <3>1, <3>2, <3>3
  <2>2. CASE k \in 3..RoomRows+2
    <3>1. ~(k <= 2) /\ k <= RoomRows+2 /\ k \in 1..RoomRows+2 /\ k - 2 \in 1..RoomRows
      BY <1>0, <2>2
    <3>2. RoomText[k] = rows[k-2]
      BY <1>4, <1>5, <1>6, <3>1
    <3> QED BY <1>1, <3>1, <3>2
  <2>3. CASE k = RoomRows+3
    <3>1. ~(k <= 2) /\ ~(k <= RoomRows+2) /\ k - (RoomRows + 2) = 1
      BY <1>0, <2>3
    <3> QED BY <1>2, <1>5, <1>6, <3>1
  <2> QED BY <1>0, <2>1, <2>2, <2>3
<1>8. \A k \in 1..RoomRows+3 : RoomTextAt(k)
  BY <1>0, <1>7 DEF RoomTextAt
<1>9. RoomText \in Seq(RoomByte) /\ Len(RoomText) = RoomRows + 3
  BY <1>5, <1>6
<1> QED BY <1>8, <1>9

\* The size is found only in a segment that begins where the text begins, and then
\* the rows found are those that end in it.
LEMMA SizeAtStart ==
  ASSUME NEW d \in Nat, NEW seg \in Seq(RoomByte), FoundAt(seg, RoomText, d),
         d + Len(seg) <= RoomRows + 3
  PROVE  /\ HasSize(seg) <=> d = 0 /\ Len(seg) >= 2
         /\ d = 0 => RowsIn(seg) = {k \in 1..RoomRows : k + 2 <= Len(seg)}
<1>1. PICK n \in Nat : n = Len(seg)
  BY LenProperties
<1>2. RoomRows \in Nat \ {0} /\ d + n <= RoomRows + 3
  BY <1>1, RoomAssumption
<1>3. \A k \in 1..n : d+k \in 1..RoomRows+3 /\ seg[k] = RoomText[d+k]
  BY <1>1, <1>2 DEF FoundAt
<1>4. \A k \in 1..n : /\ seg[k] = RoomRows + 1 <=> d+k = 1
                      /\ seg[k] = RoomRows + 2 <=> d+k = 2
                      /\ \A r \in 1..RoomRows : seg[k] = r <=> d+k = r+2
  BY <1>3, RoomTextBytes DEF RoomTextAt
<1>5. Places(seg, SizeIs) = {k \in 1..n-1 : seg[k] = RoomRows + 1 /\ seg[k+1] = RoomRows + 2}
  BY <1>1, TwoByteWord DEF SizeIs
<1>6. ASSUME d = 0, n >= 2 PROVE Places(seg, SizeIs) # {}
  <2>1. 1 \in 1..n-1 /\ 1 \in 1..n /\ 1+1 \in 1..n /\ d+1 = 1 /\ d+(1+1) = 2
    BY <1>6
  <2> QED BY <1>4, <1>5, <2>1
<1>7. ASSUME NEW k \in Places(seg, SizeIs) PROVE d = 0 /\ n >= 2
  <2>1. k \in 1..n-1 /\ k \in 1..n /\ seg[k] = RoomRows + 1
    BY <1>5
  <2>2. d + k = 1
    BY <1>4, <2>1
  <2> QED BY <2>1, <2>2
<1>8. HasSize(seg) <=> d = 0 /\ n >= 2
  BY <1>6, <1>7 DEF HasSize, Has
<1>9. ASSUME d = 0 PROVE RowsIn(seg) = {k \in 1..RoomRows : k + 2 <= n}
  <2>1. ASSUME NEW r \in 1..RoomRows PROVE Has(seg, <<Row(r)>>) <=> r + 2 <= n
    <3>1. Has(seg, <<Row(r)>>) <=> \E k \in 1..n : seg[k] = r
      BY <1>1, OneByteWord DEF Row
    <3>2. ASSUME r + 2 <= n PROVE \E k \in 1..n : seg[k] = r
      <4>1. r + 2 \in 1..n /\ d + (r + 2) = r + 2
        BY <1>9, <3>2
      <4> QED BY <1>4, <4>1
    <3>3. ASSUME NEW k \in 1..n, seg[k] = r PROVE r + 2 <= n
      <4>1. d + k = r + 2
        BY <1>4, <3>3
      <4> QED BY <1>9, <4>1
    <3> QED BY <3>1, <3>2, <3>3
  <2> QED BY <2>1 DEF RowsIn
<1> QED BY <1>1, <1>8, <1>9

\* The command for x columns and y rows, letter by letter.
Far(x)       == IF x > 0 THEN x ELSE -x
Along(x)     == IF x > 0 THEN "D" ELSE "A"
UpOrDown(y)  == IF y > 0 THEN "S" ELSE "W"
LetterAt(x, y, k) == IF k <= Far(x) THEN Along(x) ELSE UpOrDown(y)
\* The letters for u and v are those for x and y after the first.
FirstLess(x, y, u, v) ==
  /\ Far(x) + Far(y) = (Far(u) + Far(v)) + 1
  /\ \A k \in 1..Far(u)+Far(v) : LetterAt(x, y, k+1) = LetterAt(u, v, k)

LEMMA StraightLetters ==
  ASSUME NEW x \in Int, NEW y \in Int
  PROVE  /\ Straight(x, y) \in Seq(Letters) /\ Len(Straight(x, y)) = Far(x) + Far(y)
         /\ Far(x) \in Nat /\ Far(y) \in Nat
         /\ \A k \in 1..Far(x)+Far(y) :
              Straight(x, y)[k] = IF k <= Far(x) THEN Along(x) ELSE UpOrDown(y)
<1>1. Far(x) \in Nat /\ Far(y) \in Nat
  BY DEF Far
<1>2. Along(x) \in Letters /\ UpOrDown(y) \in Letters
  BY DEF Along, UpOrDown, Letters
<1> DEFINE s == Repeat(Along(x), Far(x))
           t == Repeat(UpOrDown(y), Far(y))
<1>3. Straight(x, y) = s \o t
  BY DEF Straight, Along, UpOrDown, Far
<1>4. /\ s \in Seq(Letters) /\ Len(s) = Far(x) /\ \A k \in 1..Far(x) : s[k] = Along(x)
      /\ t \in Seq(Letters) /\ Len(t) = Far(y) /\ \A k \in 1..Far(y) : t[k] = UpOrDown(y)
  BY <1>1, <1>2 DEF Repeat
<1> HIDE DEF s, t
<1>5. /\ s \o t \in Seq(Letters) /\ Len(s \o t) = Len(s) + Len(t)
      /\ \A k \in 1..Len(s)+Len(t) : (s \o t)[k] = IF k <= Len(s) THEN s[k] ELSE t[k - Len(s)]
  BY <1>4, ConcatProperties
<1>6. ASSUME NEW k \in 1..Far(x)+Far(y)
      PROVE  Straight(x, y)[k] = IF k <= Far(x) THEN Along(x) ELSE UpOrDown(y)
  <2>1. (s \o t)[k] = IF k <= Far(x) THEN s[k] ELSE t[k - Far(x)]
    BY <1>4, <1>5
  <2>2. k <= Far(x) => k \in 1..Far(x)
    BY <1>1
  <2>3. ~(k <= Far(x)) => k - Far(x) \in 1..Far(y)
    BY <1>1
  <2>4. CASE k <= Far(x)
    <3>1. (s \o t)[k] = s[k] /\ s[k] = Along(x)
      BY <1>4, <2>1, <2>2, <2>4
    <3> QED BY <1>3, <2>4, <3>1
  <2>5. CASE ~(k <= Far(x))
    <3>1. (s \o t)[k] = t[k - Far(x)] /\ t[k - Far(x)] = UpOrDown(y)
      BY <1>4, <2>1, <2>3, <2>5
    <3> QED BY <1>3, <2>5, <3>1
  <2> QED BY <2>4, <2>5
<1> QED BY <1>1, <1>3, <1>4, <1>5, <1>6

\* Two commands of which the second is what is left of the first after a letter.
LEMMA StraightTail ==
  ASSUME NEW x \in Int, NEW y \in Int, NEW u \in Int, NEW v \in Int,
         FirstLess(x, y, u, v)
  PROVE  /\ Straight(x, y) # <<>> /\ Tail(Straight(x, y)) = Straight(u, v)
         /\ Head(Straight(x, y)) = LetterAt(x, y, 1)
<1> DEFINE s == Straight(x, y)
           t == Straight(u, v)
<1>0. Far(x) + Far(y) = (Far(u) + Far(v)) + 1 /\ Far(u) + Far(v) \in Nat
  BY StraightLetters DEF FirstLess
<1>1. PICK n \in Nat : n = Far(u) + Far(v)
  BY <1>0
<1>2. /\ s \in Seq(Letters) /\ Len(s) = n + 1
      /\ \A k \in 1..n+1 : s[k] = LetterAt(x, y, k)
  BY <1>0, <1>1, StraightLetters DEF LetterAt
<1>3. /\ t \in Seq(Letters) /\ Len(t) = n
      /\ \A k \in 1..n : t[k] = LetterAt(u, v, k)
  BY <1>0, <1>1, StraightLetters DEF LetterAt
<1> HIDE DEF s, t
<1>4. s # <<>>
  BY <1>2, EmptySeq
<1>5. /\ Tail(s) \in Seq(Letters) /\ Len(Tail(s)) = n
      /\ \A k \in 1..n : Tail(s)[k] = s[k+1]
  <2>1. /\ Tail(s) \in Seq(Letters) /\ Len(Tail(s)) = Len(s) - 1
        /\ \A k \in 1..Len(Tail(s)) : Tail(s)[k] = s[k+1]
    BY <1>2, <1>4, HeadTailProperties
  <2>2. Len(s) - 1 = n
    BY <1>2
  <2> QED BY <2>1, <2>2
<1>6. ASSUME NEW k \in 1..n PROVE Tail(s)[k] = t[k]
  <2>1. k+1 \in 1..n+1
    OBVIOUS
  <2>2. s[k+1] = LetterAt(x, y, k+1)
    BY <1>2, <2>1
  <2>3. t[k] = LetterAt(u, v, k)
    BY <1>3
  <2>4. LetterAt(x, y, k+1) = LetterAt(u, v, k)
    BY <1>1 DEF FirstLess
  <2>5. Tail(s)[k] = s[k+1]
    BY <1>5
  <2> QED BY <2>2, <2>3, <2>4, <2>5
<1>7. Tail(s) = t
  BY <1>3, <1>5, <1>6, SeqEqual
<1>8. Head(s) = s[1]
  BY <1>2, <1>4
<1>9. s[1] = LetterAt(x, y, 1)
  BY <1>2
<1> QED BY <1>4, <1>7, <1>8, <1>9 DEF s, t

LEMMA StraightStep ==
  ASSUME NEW x \in Int, NEW y \in Int
  PROVE  LET s == Straight(x, y) IN
         /\ s = <<>> <=> x = 0 /\ y = 0
         /\ x > 0 => Head(s) = "D" /\ Tail(s) = Straight(x-1, y)
         /\ x < 0 => Head(s) = "A" /\ Tail(s) = Straight(x+1, y)
         /\ x = 0 /\ y > 0 => Head(s) = "S" /\ Tail(s) = Straight(x, y-1)
         /\ x = 0 /\ y < 0 => Head(s) = "W" /\ Tail(s) = Straight(x, y+1)
<1> DEFINE s == Straight(x, y)
<1>1. s \in Seq(Letters) /\ Len(s) = Far(x) + Far(y)
  BY StraightLetters
<1>2. s = <<>> <=> x = 0 /\ y = 0
  <2>1. Far(x) + Far(y) = 0 <=> x = 0 /\ y = 0
    BY DEF Far
  <2> QED BY <1>1, <2>1, EmptySeq
<1>3. ASSUME x > 0 PROVE Head(s) = "D" /\ Tail(s) = Straight(x-1, y)
  <2>1. Far(x) + Far(y) = (Far(x-1) + Far(y)) + 1
    BY <1>3 DEF Far
  <2>2. ASSUME NEW k \in 1..Far(x-1)+Far(y) PROVE LetterAt(x, y, k+1) = LetterAt(x-1, y, k)
    BY <1>3 DEF LetterAt, Far, Along, UpOrDown
  <2>3. LetterAt(x, y, 1) = "D"
    BY <1>3 DEF LetterAt, Far, Along, UpOrDown
  <2>4. x-1 \in Int /\ y \in Int
    OBVIOUS
  <2>5. FirstLess(x, y, x-1, y)
    BY <2>1, <2>2 DEF FirstLess
  <2> QED BY <2>3, <2>4, <2>5, StraightTail
<1>4. ASSUME x < 0 PROVE Head(s) = "A" /\ Tail(s) = Straight(x+1, y)
  <2>1. Far(x) + Far(y) = (Far(x+1) + Far(y)) + 1
    BY <1>4 DEF Far
  <2>2. ASSUME NEW k \in 1..Far(x+1)+Far(y) PROVE LetterAt(x, y, k+1) = LetterAt(x+1, y, k)
    BY <1>4 DEF LetterAt, Far, Along, UpOrDown
  <2>3. LetterAt(x, y, 1) = "A"
    BY <1>4 DEF LetterAt, Far, Along, UpOrDown
  <2>4. x+1 \in Int /\ y \in Int
    OBVIOUS
  <2>5. FirstLess(x, y, x+1, y)
    BY <2>1, <2>2 DEF FirstLess
  <2> QED BY <2>3, <2>4, <2>5, StraightTail
<1>5. ASSUME x = 0, y > 0 PROVE Head(s) = "S" /\ Tail(s) = Straight(x, y-1)
  <2>1. Far(x) + Far(y) = (Far(x) + Far(y-1)) + 1
    BY <1>5 DEF Far
  <2>2. ASSUME NEW k \in 1..Far(x)+Far(y-1) PROVE LetterAt(x, y, k+1) = LetterAt(x, y-1, k)
    BY <1>5 DEF LetterAt, Far, Along, UpOrDown
  <2>3. LetterAt(x, y, 1) = "S"
    BY <1>5 DEF LetterAt, Far, Along, UpOrDown
  <2>4. x \in Int /\ y-1 \in Int
    OBVIOUS
  <2>5. FirstLess(x, y, x, y-1)
    BY <2>1, <2>2 DEF FirstLess
  <2> QED BY <2>3, <2>4, <2>5, StraightTail
<1>6. ASSUME x = 0, y < 0 PROVE Head(s) = "W" /\ Tail(s) = Straight(x, y+1)
  <2>1. Far(x) + Far(y) = (Far(x) + Far(y+1)) + 1
    BY <1>6 DEF Far
  <2>2. ASSUME NEW k \in 1..Far(x)+Far(y+1) PROVE LetterAt(x, y, k+1) = LetterAt(x, y+1, k)
    BY <1>6 DEF LetterAt, Far, Along, UpOrDown
  <2>3. LetterAt(x, y, 1) = "W"
    BY <1>6 DEF LetterAt, Far, Along, UpOrDown
  <2>4. x \in Int /\ y+1 \in Int
    OBVIOUS
  <2>5. FirstLess(x, y, x, y+1)
    BY <2>1, <2>2 DEF FirstLess
  <2> QED BY <2>3, <2>4, <2>5, StraightTail
<1> QED BY <1>2, <1>3, <1>4, <1>5, <1>6

-----------------------------------------------------------------------------
LEMMA FilledType ==
  ASSUME NEW B, 0 \in B, NEW S, S \subseteq B, NEW mem \in [1..BufSize+1 -> B],
         NEW seg \in Seq(S)
  PROVE  Filled(mem, seg) \in [1..BufSize+1 -> B]
<1>1. ASSUME NEW k \in 1..BufSize+1
      PROVE  (IF k <= Len(seg) THEN seg[k] ELSE IF k = Len(seg) + 1 THEN NUL ELSE mem[k]) \in B
  <2>1. Len(seg) \in Nat /\ (k <= Len(seg) => k \in 1..Len(seg))
    BY LenProperties, BufferAssumption
  <2>2. k <= Len(seg) => seg[k] \in S
    BY <2>1, ElementOfSeq
  <2> QED BY <2>2 DEF NUL
<1> QED BY <1>1 DEF Filled

\* A segment of the text with the maze.
LEMMA RoomSegment ==
  ASSUME RoomTypeOK, RestOf(stream, RoomText), NEW seg, Read(seg)
  PROVE  /\ stream' \in Seq(RoomByte) /\ buffer' \in [1..BufSize+1 -> 0..RoomRows+3]
         /\ RestOf(stream', RoomText) /\ CString(buffer') = seg
         /\ HasSize(seg) =>
              /\ Len(seg) \in Nat /\ Len(seg) >= 2
              /\ RowsIn(seg) = {k \in 1..RoomRows : k + 2 <= Len(seg)}
              /\ Len(seg) = 2 => stream' = SubSeq(RoomText, Len(SizeIs) + 1, Len(RoomText))
<1>1. /\ RoomText \in Seq(RoomByte) /\ Len(RoomText) = RoomRows + 3
      /\ stream \in Seq(RoomByte) /\ RoomRows \in Nat \ {0}
  BY RoomTextBytes, RoomAssumption DEF RoomTypeOK
<1>2. PICK m \in Nat : m = Len(stream)
  BY <1>1, LenProperties
<1>3. PICK d \in Nat : d + m = RoomRows + 3
  <2>1. m <= RoomRows + 3
    BY <1>1, <1>2 DEF RestOf
  <2>2. (RoomRows + 3) - m \in Nat /\ ((RoomRows + 3) - m) + m = RoomRows + 3
    BY <1>1, <2>1
  <2> QED BY <2>2
<1>4. RoomByte \subseteq Nat \ {0} /\ RoomByte \subseteq 0..RoomRows+3 /\ 0 \in 0..RoomRows+3
  BY <1>1 DEF RoomByte
<1>5. Len(RoomText) = d + Len(stream)
  BY <1>1, <1>2, <1>3
<1>6. seg \in Seq(RoomByte) /\ Len(seg) \in 1..m /\ stream' \in Seq(RoomByte)
  BY <1>1, <1>2, <1>4, <1>5, ReadProperties
<1>7. RestOf(stream', RoomText) /\ FoundAt(seg, RoomText, d) /\ CString(buffer') = seg
  BY <1>1, <1>4, <1>5, ReadProperties
<1>8. buffer' \in [1..BufSize+1 -> 0..RoomRows+3]
  <2>1. buffer' = Filled(buffer, seg) /\ buffer \in [1..BufSize+1 -> 0..RoomRows+3]
    BY DEF Read, RoomTypeOK
  <2> QED BY <1>4, <1>6, <2>1, FilledType
<1>9. PICK n \in Nat : n = Len(seg) /\ n <= m
  BY <1>6
<1>10. d + Len(seg) <= RoomRows + 3
  BY <1>1, <1>3, <1>9
<1>11. /\ HasSize(seg) <=> d = 0 /\ Len(seg) >= 2
       /\ d = 0 => RowsIn(seg) = {k \in 1..RoomRows : k + 2 <= Len(seg)}
  BY <1>6, <1>7, <1>10, SizeAtStart
<1>12. ASSUME d = 0, n = 2
       PROVE  stream' = SubSeq(RoomText, Len(SizeIs) + 1, Len(RoomText))
  <2>1. m = RoomRows + 3
    BY <1>1, <1>3, <1>12
  <2>2. ASSUME NEW k \in 1..m PROVE stream[k] = RoomText[k]
    <3>1. Len(RoomText) - Len(stream) + k = k
      BY <1>1, <1>2, <2>1
    <3> QED BY <1>2, <3>1 DEF RestOf
  <2>3. stream = RoomText
    BY <1>1, <1>2, <2>1, <2>2, SeqEqual
  <2>4. stream' = SubSeq(stream, Len(seg) + 1, Len(stream))
    BY DEF Read
  <2>5. Len(SizeIs) = 2
    BY DEF SizeIs
  <2> QED BY <1>9, <1>12, <2>3, <2>4, <2>5
<1>13. HasSize(seg) => d = 0 /\ n >= 2
  BY <1>9, <1>11
<1> QED BY <1>6, <1>7, <1>8, <1>9, <1>11, <1>12, <1>13

\* Reading: what is still to come is the rest of the text.
LEMMA UnsizedStep ==
  ASSUME RoomInv, ReadUnsized
  PROVE  RoomInv'
<1> USE DEF RoomInv
<1>1. PICK seg : Read(seg)
  BY DEF ReadUnsized
<1>2. /\ stream' \in Seq(RoomByte) /\ buffer' \in [1..BufSize+1 -> 0..RoomRows+3]
      /\ RestOf(stream', RoomText)
  BY <1>1, RoomSegment
<1>3. RoomText' = RoomText /\ HasSize(CString(buffer))' = HasSize(CString(buffer'))
  BY DEF RoomText, HasSize, Has, Places, CString
<1>4. /\ UNCHANGED <<start, roomExit, walker, room, command, roomMode>>
      /\ roomMode = "read" /\ ~HasSize(CString(buffer'))
  BY DEF ReadUnsized
<1>5. RoomTypeOK'
  BY <1>2, <1>4 DEF RoomTypeOK
<1>6. RestOf(stream, RoomText)'
  BY <1>2 DEF RestOf
<1>7. WalksToExit'
  BY <1>4 DEF WalksToExit
<1>8. WrongOnlyIfCut'
  BY <1>3, <1>4 DEF WrongOnlyIfCut
<1> QED BY <1>5, <1>6, <1>7, <1>8

LEMMA StoreStep ==
  ASSUME RoomInv, Store
  PROVE  RoomInv'
<1> USE DEF RoomInv
<1>1. PICK seg : Read(seg)
  BY DEF Store
<1>2. /\ stream' \in Seq(RoomByte) /\ buffer' \in [1..BufSize+1 -> 0..RoomRows+3]
      /\ RestOf(stream', RoomText) /\ CString(buffer') = seg
  BY <1>1, RoomSegment
<1>3. /\ UNCHANGED <<start, roomExit, walker, command>> /\ roomMode = "read"
      /\ room' = RowsIn(seg)
      /\ roomMode' = IF room' \in {{}, 1..RoomRows} THEN "search" ELSE "crashed"
      /\ HasSize(seg)
  BY <1>2 DEF Store
<1>4. /\ Len(seg) \in Nat /\ Len(seg) >= 2
      /\ RowsIn(seg) = {k \in 1..RoomRows : k + 2 <= Len(seg)}
      /\ Len(seg) = 2 => stream' = SubSeq(RoomText, Len(SizeIs) + 1, Len(RoomText))
  BY <1>1, <1>3, RoomSegment
<1>5. PICK n \in Nat : n = Len(seg) /\ n >= 2
  BY <1>4
<1>6. RoomRows \in Nat \ {0} /\ room' = {k \in 1..RoomRows : k + 2 <= n}
  BY <1>3, <1>4, <1>5, RoomAssumption
<1>7. room' = {} => stream' = SubSeq(RoomText, Len(SizeIs) + 1, Len(RoomText))
  <2> SUFFICES ASSUME room' = {} PROVE n = 2
    BY <1>4, <1>5
  <2>1. 1 \in 1..RoomRows
    BY <1>6
  <2>2. ~(1 + 2 <= n)
    BY <1>6, <2>1
  <2> QED BY <1>5, <2>2
<1>8. roomMode' = "crashed" => RoomRows \notin room' /\ 1 \in room'
  <2> SUFFICES ASSUME room' # {}, room' # 1..RoomRows PROVE RoomRows \notin room' /\ 1 \in room'
    BY <1>3
  <2>1. 1 \in room'
    <3>1. PICK k \in 1..RoomRows : k + 2 <= n
      BY <1>6
    <3>2. 1 \in 1..RoomRows /\ 1 + 2 <= n
      BY <1>5, <1>6, <3>1
    <3> QED BY <1>6, <3>2
  <2>2. ASSUME RoomRows \in room' PROVE FALSE
    <3>1. \A k \in 1..RoomRows : k + 2 <= n
      BY <1>5, <1>6, <2>2
    <3> QED BY <1>6, <3>1
  <2> QED BY <2>1, <2>2
<1>9. RoomText' = RoomText /\ SizeIs' = SizeIs
  BY DEF RoomText, SizeIs
<1>10. room' \subseteq 1..RoomRows /\ roomMode' \in {"search", "crashed"}
  BY <1>3, <1>6
<1>11. RoomTypeOK'
  BY <1>2, <1>3, <1>10 DEF RoomTypeOK
<1>12. RestOf(stream, RoomText)'
  BY <1>2 DEF RestOf
<1>13. WalksToExit'
  BY <1>3, <1>10 DEF WalksToExit
<1>14. WrongOnlyIfCut'
  BY <1>7, <1>8, <1>9, <1>10 DEF WrongOnlyIfCut
<1> QED BY <1>11, <1>12, <1>13, <1>14

\* Walking: the letters left to obey are the straight way from here.
LEMMA SendStep ==
  ASSUME RoomInv, Send
  PROVE  RoomInv'
<1> USE DEF RoomInv
<1>1. /\ UNCHANGED <<stream, buffer, start, roomExit, walker, room>>
      /\ roomMode = "search" /\ roomMode' = "walk"
  BY DEF Send
<1>2. \A p \in Square : p[1] \in Int /\ p[2] \in Int
  BY RoomAssumption DEF Square
<1>3. \A p, e \in Square : Straight(e[2] - p[2], e[1] - p[1]) \in Seq(Letters)
  <2> SUFFICES ASSUME NEW p \in Square, NEW e \in Square
               PROVE  Straight(e[2] - p[2], e[1] - p[1]) \in Seq(Letters)
    OBVIOUS
  <2>1. e[2] - p[2] \in Int /\ e[1] - p[1] \in Int
    BY <1>2
  <2> QED BY <2>1, StraightLetters
<1>4. start \in Square /\ roomExit \in Square
  BY DEF RoomTypeOK
<1>5. command' \in Seq(Letters)
  <2>1. CASE room = 1..RoomRows
    <3>1. command' = Straight(roomExit[2] - start[2], roomExit[1] - start[1])
      BY <2>1 DEF Send
    <3> QED BY <1>3, <1>4, <3>1
  <2>2. CASE room # 1..RoomRows
    <3>1. PICK p, e \in Square : command' = Straight(e[2] - p[2], e[1] - p[1])
      BY <2>2 DEF Send
    <3> QED BY <1>3, <3>1
  <2> QED BY <2>1, <2>2
<1>6. RoomTypeOK'
  BY <1>1, <1>5 DEF RoomTypeOK
<1>7. RestOf(stream, RoomText)'
  BY <1>1 DEF RestOf, RoomText
<1>8. WalksToExit'
  <2>1. walker = start
    BY <1>1 DEF WalksToExit
  <2>2. room = 1..RoomRows => command' = Straight(roomExit[2] - start[2], roomExit[1] - start[1])
    BY DEF Send
  <2> QED BY <1>1, <1>4, <2>1, <2>2 DEF WalksToExit
<1>9. WrongOnlyIfCut'
  BY <1>1 DEF WrongOnlyIfCut, RoomText, SizeIs
<1> QED BY <1>6, <1>7, <1>8, <1>9

LEMMA ObeyStep ==
  ASSUME RoomInv, ObeyWalk
  PROVE  RoomInv'
<1> USE DEF RoomInv
<1>1. /\ UNCHANGED <<stream, buffer, start, roomExit, room, roomMode>>
      /\ roomMode = "walk" /\ command # <<>> /\ command' = Tail(command)
  BY DEF ObeyWalk
<1>2. command \in Seq(Letters) /\ Head(command) \in Letters /\ command' \in Seq(Letters)
  <2>1. command \in Seq(Letters)
    BY DEF RoomTypeOK
  <2> QED BY <1>1, <2>1, HeadTailProperties
<1>3. PICK wr \in Int, wc \in Int : walker = <<wr, wc>>
  BY DEF RoomTypeOK
<1>4. PICK xr \in Int, xc \in Int : roomExit = <<xr, xc>> /\ xr \in 1..RoomRows /\ xc \in 1..RoomCols
  BY RoomAssumption DEF RoomTypeOK, Square
<1>5. walker[1] = wr /\ walker[2] = wc /\ roomExit[1] = xr /\ roomExit[2] = xc
  BY <1>3, <1>4
<1>6. /\ Head(command) = "W" => walker' = <<wr-1, wc>>
      /\ Head(command) = "S" => walker' = <<wr+1, wc>>
      /\ Head(command) = "A" => walker' = <<wr, wc-1>>
      /\ Head(command) = "D" => walker' = <<wr, wc+1>>
  BY <1>5 DEF ObeyWalk
<1>7. walker' \in Int \X Int
  BY <1>2, <1>6 DEF Letters
<1>8. RoomTypeOK'
  BY <1>1, <1>2, <1>7 DEF RoomTypeOK
<1>9. RestOf(stream, RoomText)'
  BY <1>1 DEF RestOf, RoomText
<1>10. ASSUME room = 1..RoomRows
       PROVE  /\ walker' \in Square
              /\ command' = Straight(roomExit[2] - walker'[2], roomExit[1] - walker'[1])
  <2>1. walker \in Square /\ command = Straight(xc - wc, xr - wr)
    BY <1>1, <1>5, <1>10 DEF WalksToExit
  <2>2. wr \in 1..RoomRows /\ wc \in 1..RoomCols
    BY <1>3, <2>1 DEF Square
  <2> DEFINE dc == xc - wc
             dr == xr - wr
  <2>3. dc \in Int /\ dr \in Int
    OBVIOUS
  <2>4. ~(dc = 0 /\ dr = 0)
    BY <1>1, <2>1, <2>3, StraightStep
  <2>5. CASE dc > 0
    <3>1. Head(command) = "D" /\ command' = Straight(dc-1, dr)
      BY <1>1, <2>1, <2>3, <2>5, StraightStep
    <3>2. wc+1 \in 1..RoomCols /\ dc-1 = xc - (wc+1)
      BY <1>4, <2>2, <2>5, RoomAssumption
    <3> QED BY <1>5, <1>6, <2>2, <3>1, <3>2 DEF Square
  <2>6. CASE dc < 0
    <3>1. Head(command) = "A" /\ command' = Straight(dc+1, dr)
      BY <1>1, <2>1, <2>3, <2>6, StraightStep
    <3>2. wc-1 \in 1..RoomCols /\ dc+1 = xc - (wc-1)
      BY <1>4, <2>2, <2>6, RoomAssumption
    <3> QED BY <1>5, <1>6, <2>2, <3>1, <3>2 DEF Square
  <2>7. CASE dc = 0 /\ dr > 0
    <3>1. Head(command) = "S" /\ command' = Straight(dc, dr-1)
      BY <1>1, <2>1, <2>3, <2>7, StraightStep
    <3>2. wr+1 \in 1..RoomRows /\ dr-1 = xr - (wr+1)
      BY <1>4, <2>2, <2>7, RoomAssumption
    <3> QED BY <1>5, <1>6, <2>2, <3>1, <3>2 DEF Square
  <2>8. CASE dc = 0 /\ dr < 0
    <3>1. Head(command) = "W" /\ command' = Straight(dc, dr+1)
      BY <1>1, <2>1, <2>3, <2>8, StraightStep
    <3>2. wr-1 \in 1..RoomRows /\ dr+1 = xr - (wr-1)
      BY <1>4, <2>2, <2>8, RoomAssumption
    <3> QED BY <1>5, <1>6, <2>2, <3>1, <3>2 DEF Square
  <2>9. dc > 0 \/ dc < 0 \/ (dc = 0 /\ dr > 0) \/ (dc = 0 /\ dr < 0)
    BY <2>3, <2>4
  <2> QED BY <2>5, <2>6, <2>7, <2>8, <2>9
<1>11. WalksToExit'
  BY <1>1, <1>10 DEF WalksToExit
<1>12. WrongOnlyIfCut'
  BY <1>1 DEF WrongOnlyIfCut, RoomText, SizeIs
<1> QED BY <1>8, <1>9, <1>11, <1>12

LEMMA ArriveStep ==
  ASSUME RoomInv, ArriveAtExit
  PROVE  RoomInv'
<1> USE DEF RoomInv
<1>1. /\ UNCHANGED <<stream, buffer, start, roomExit, walker, room, command>>
      /\ roomMode = "walk" /\ command = <<>> /\ roomMode' = "arrived"
  BY DEF ArriveAtExit
<1>2. ASSUME room = 1..RoomRows PROVE walker = roomExit
  <2>1. /\ walker \in Square /\ roomExit \in Square
        /\ <<>> = Straight(roomExit[2] - walker[2], roomExit[1] - walker[1])
    BY <1>1, <1>2 DEF WalksToExit, RoomTypeOK
  <2>2. PICK wr \in Int, wc \in Int : walker = <<wr, wc>>
    BY <2>1, RoomAssumption DEF Square
  <2>3. PICK xr \in Int, xc \in Int : roomExit = <<xr, xc>>
    BY <2>1, RoomAssumption DEF Square
  <2>4. <<>> = Straight(xc - wc, xr - wr)
    BY <2>1, <2>2, <2>3
  <2>5. xc - wc \in Int /\ xr - wr \in Int
    OBVIOUS
  <2>6. xc - wc = 0 /\ xr - wr = 0
    BY <2>4, <2>5, StraightStep
  <2> QED BY <2>2, <2>3, <2>6
<1>3. RoomTypeOK'
  BY <1>1 DEF RoomTypeOK
<1>4. RestOf(stream, RoomText)'
  BY <1>1 DEF RestOf, RoomText
<1>5. WalksToExit'
  BY <1>1, <1>2 DEF WalksToExit
<1>6. WrongOnlyIfCut'
  BY <1>1 DEF WrongOnlyIfCut, RoomText, SizeIs
<1> QED BY <1>3, <1>4, <1>5, <1>6

LEMMA RoomStep ==
  ASSUME RoomInv, RoomNext
  PROVE  RoomInv'
BY UnsizedStep, StoreStep, SendStep, ObeyStep, ArriveStep DEF RoomNext

LEMMA RoomStart ==
  ASSUME SegmentsInit(RoomText), RoomBegins
  PROVE  RoomInv
<1>1. /\ RoomText \in Seq(RoomByte) /\ Len(RoomText) = RoomRows + 3
      /\ RoomRows \in Nat \ {0} /\ RoomCols \in Nat \ {0}
  BY RoomTextBytes, RoomAssumption
<1>2. /\ stream = RoomText /\ buffer = [k \in 1..BufSize+1 |-> NUL]
      /\ start \in Square /\ roomExit \in Square /\ walker = start
      /\ room = {} /\ command = <<>> /\ roomMode = "read"
  BY DEF SegmentsInit, RoomBegins
<1>3. buffer \in [1..BufSize+1 -> 0..RoomRows+3]
  BY <1>1, <1>2 DEF NUL
<1>4. walker \in Int \X Int
  BY <1>1, <1>2 DEF Square
<1>5. RoomTypeOK
  BY <1>1, <1>2, <1>3, <1>4 DEF RoomTypeOK
<1>6. RestOf(stream, RoomText)
  <2>1. Len(RoomText) - Len(RoomText) = 0 /\ \A k \in 1..Len(RoomText) : 0 + k = k
    BY <1>1
  <2> QED BY <1>1, <1>2, <2>1 DEF RestOf
<1>7. WalksToExit
  BY <1>2 DEF WalksToExit
<1>8. stream # <<>>
  BY <1>1, <1>2, EmptySeq
<1>9. WrongOnlyIfCut
  BY <1>2, <1>8 DEF WrongOnlyIfCut
<1> QED BY <1>5, <1>6, <1>7, <1>9 DEF RoomInv

LEMMA RoomStays ==
  ASSUME RoomInv, UNCHANGED roomVars
  PROVE  RoomInv'
<1> USE DEF RoomInv
<1>1. UNCHANGED <<stream, buffer, start, roomExit, walker, room, command, roomMode>>
  BY DEF roomVars
<1>2. RoomTypeOK'
  BY <1>1 DEF RoomTypeOK
<1>3. RestOf(stream, RoomText)'
  BY <1>1 DEF RestOf, RoomText
<1>4. WalksToExit'
  BY <1>1 DEF WalksToExit
<1>5. HasSize(CString(buffer))' = HasSize(CString(buffer))
  BY <1>1 DEF HasSize, Has, Places, CString
<1>6. RoomText' = RoomText /\ SizeIs' = SizeIs
  BY DEF RoomText, SizeIs
<1>7. WrongOnlyIfCut'
  BY <1>1, <1>5, <1>6 DEF WrongOnlyIfCut
<1> QED BY <1>2, <1>3, <1>4, <1>7

\* The first client gets to the exit, unless the maze came in pieces.
THEOREM RoomWalkedRight == RoomSpec => []RoomInv
<1>1. RoomInit => RoomInv
  BY RoomStart DEF RoomInit
<1>2. RoomInv /\ [RoomNext]_roomVars => RoomInv'
  <2> SUFFICES ASSUME RoomInv, [RoomNext]_roomVars PROVE RoomInv'
    OBVIOUS
  <2>1. CASE RoomNext
    BY <2>1, RoomStep
  <2>2. CASE UNCHANGED roomVars
    BY <2>2, RoomStays
  <2> QED BY <2>1, <2>2
<1> QED BY <1>1, <1>2, PTL DEF RoomSpec

\* The same beside the other programs.
THEOREM RoomWalkRight == LabsSpec => []RoomRight
<1>1. LabsInit => RoomRight
  BY RoomStart DEF LabsInit, RoomRight
<1>2. RoomRight /\ [LabsNext]_labsVars => RoomRight'
  <2> SUFFICES ASSUME RoomRight, [LabsNext]_labsVars, running' = "room" PROVE RoomInv'
    BY DEF RoomRight
  <2>1. CASE RoomRuns
    BY <2>1, RoomStep DEF RoomRuns, RoomRight
  <2>2. CASE UNCHANGED labsVars
    <3>1. RoomInv /\ UNCHANGED roomVars
      BY <2>2 DEF labsVars, segmentVars, roomOwn, roomVars, RoomRight
    <3> QED BY <3>1, RoomStays
  <2>3. CASE ~RoomRuns /\ LabsNext
    BY <2>3 DEF LabsNext, ExploreRuns, CodecRuns, MazeRuns, OtpRuns, CaptureRuns,
                VerifyRuns, BlocksRun, MeterRuns
  <2> QED BY <2>1, <2>2, <2>3
<1> QED BY <1>1, <1>2, PTL DEF LabsSpec

-----------------------------------------------------------------------------
\* lab4/code.c

OtpByte == 1..3+RestLen
OtpText == Header \o Password
OtpTextAt(k) == /\ OtpText[k] = 1 <=> k = HeaderLen + 1
                /\ OtpText[k] = 2 <=> k = HeaderLen + 2
                /\ k > HeaderLen => OtpText[k] = Password[k - HeaderLen]

LEMMA OtpLengths == HeaderLen \in Nat /\ RestLen \in Nat /\ ReplyLen \in Nat \ {0}
BY LengthAssumption

LEMMA PasswordBytes ==
  /\ Password \in Seq(OtpByte) /\ Len(Password) = RestLen + 2
  /\ Password[1] = 1 /\ Password[2] = 2
  /\ \A k \in 1..RestLen+2 : k > 2 => Password[k] > 3
<1> DEFINE rest == [k \in 1..RestLen |-> 3 + k]
<1>1. rest \in Seq(OtpByte) /\ Len(rest) = RestLen /\ \A k \in 1..RestLen : rest[k] > 3
  BY OtpLengths DEF OtpByte
<1>2. Id \in Seq(OtpByte) /\ Len(Id) = 2 /\ Id[1] = 1 /\ Id[2] = 2
  BY OtpLengths DEF Id, OtpByte
<1> HIDE DEF rest
<1>3. /\ Id \o rest \in Seq(OtpByte) /\ Len(Id \o rest) = RestLen + 2
      /\ \A k \in 1..RestLen+2 : (Id \o rest)[k] = IF k <= 2 THEN Id[k] ELSE rest[k-2]
  <2>1. /\ Id \o rest \in Seq(OtpByte) /\ Len(Id \o rest) = Len(Id) + Len(rest)
        /\ \A k \in 1..Len(Id)+Len(rest) : (Id \o rest)[k] =
             IF k <= Len(Id) THEN Id[k] ELSE rest[k - Len(Id)]
    BY <1>1, <1>2, ConcatProperties
  <2>2. Len(Id) + Len(rest) = RestLen + 2
    BY <1>1, <1>2, OtpLengths
  <2> QED BY <1>2, <2>1, <2>2
<1>4. (Id \o rest)[1] = 1 /\ (Id \o rest)[2] = 2
  <2>1. 1 \in 1..RestLen+2 /\ 2 \in 1..RestLen+2
    BY OtpLengths
  <2> QED BY <1>2, <1>3, <2>1
<1>5. ASSUME NEW k \in 1..RestLen+2, k > 2 PROVE (Id \o rest)[k] > 3
  <2>1. k - 2 \in 1..RestLen /\ ~(k <= 2)
    BY <1>5, OtpLengths
  <2> QED BY <1>1, <1>3, <2>1
<1> QED BY <1>3, <1>4, <1>5 DEF Password, rest

LEMMA OtpTextBytes ==
  /\ OtpText \in Seq(OtpByte) /\ Len(OtpText) = HeaderLen + (RestLen + 2)
  /\ \A k \in 1..HeaderLen+(RestLen+2) : OtpTextAt(k)
<1>1. /\ Header \in Seq(OtpByte) /\ Len(Header) = HeaderLen
      /\ \A k \in 1..HeaderLen : Header[k] = 3
  BY OtpLengths DEF Header, OtpByte
<1>2. /\ OtpText \in Seq(OtpByte) /\ Len(OtpText) = HeaderLen + (RestLen + 2)
      /\ \A k \in 1..HeaderLen+(RestLen+2) : OtpText[k] =
           IF k <= HeaderLen THEN Header[k] ELSE Password[k - HeaderLen]
  <2>1. /\ OtpText \in Seq(OtpByte) /\ Len(OtpText) = Len(Header) + Len(Password)
        /\ \A k \in 1..Len(Header)+Len(Password) : OtpText[k] =
             IF k <= Len(Header) THEN Header[k] ELSE Password[k - Len(Header)]
    BY <1>1, PasswordBytes, ConcatProperties DEF OtpText
  <2> QED BY <1>1, <2>1, PasswordBytes
<1>3. ASSUME NEW k \in 1..HeaderLen+(RestLen+2) PROVE OtpTextAt(k)
  <2>1. CASE k <= HeaderLen
    <3>1. k \in 1..HeaderLen /\ k # HeaderLen + 1 /\ k # HeaderLen + 2 /\ ~(k > HeaderLen)
      BY <2>1, OtpLengths
    <3>2. OtpText[k] = 3
      BY <1>1, <1>2, <2>1, <3>1
    <3> QED BY <3>1, <3>2 DEF OtpTextAt
  <2>2. CASE ~(k <= HeaderLen)
    <3>1. PICK l \in 1..RestLen+2 : k = HeaderLen + l /\ l = k - HeaderLen
      <4>1. k - HeaderLen \in 1..RestLen+2 /\ k = HeaderLen + (k - HeaderLen)
        BY <2>2, OtpLengths
      <4> QED BY <4>1
    <3>2. OtpText[k] = Password[l]
      BY <1>2, <2>2, <3>1
    <3>3. /\ Password[l] = 1 <=> l = 1
          /\ Password[l] = 2 <=> l = 2
      <4>1. l = 1 \/ l = 2 \/ l > 2
        BY OtpLengths
      <4>2. l > 2 => Password[l] > 3
        BY PasswordBytes
      <4>3. l > 2 => Password[l] # 1 /\ Password[l] # 2 /\ l # 1 /\ l # 2
        <5>1. Password[l] \in Int
          <6>1. Password[l] \in OtpByte
            BY PasswordBytes, ElementOfSeq
          <6> QED BY <6>1 DEF OtpByte
        <5> QED BY <4>2, <5>1
      <4> QED BY <4>1, <4>3, PasswordBytes
    <3>4. (k = HeaderLen + 1 <=> l = 1) /\ (k = HeaderLen + 2 <=> l = 2)
      BY <3>1, OtpLengths
    <3> QED BY <3>1, <3>2, <3>3, <3>4 DEF OtpTextAt
  <2> QED BY <2>1, <2>2
<1> QED BY <1>2, <1>3

\* The id is found at the one place where it is.
LEMMA IdPlace ==
  ASSUME NEW d \in Nat, NEW seg \in Seq(OtpByte), FoundAt(seg, OtpText, d),
         d + Len(seg) <= HeaderLen + (RestLen + 2)
  PROVE  Places(seg, Id) = {k \in 1..Len(seg)-1 : d + k = HeaderLen + 1}
<1>1. PICK n \in Nat : n = Len(seg)
  BY LenProperties
<1>2. d + n <= HeaderLen + (RestLen + 2)
  BY <1>1
<1>3. \A k \in 1..n : d+k \in 1..HeaderLen+(RestLen+2) /\ seg[k] = OtpText[d+k]
  BY <1>1, <1>2, OtpLengths DEF FoundAt
<1>4. \A k \in 1..n : /\ seg[k] = 1 <=> d+k = HeaderLen + 1
                      /\ seg[k] = 2 <=> d+k = HeaderLen + 2
  BY <1>3, OtpTextBytes DEF OtpTextAt
<1>5. Places(seg, Id) = {k \in 1..n-1 : seg[k] = 1 /\ seg[k+1] = 2}
  BY <1>1, TwoByteWord DEF Id
<1>6. ASSUME NEW k \in 1..n-1
      PROVE  seg[k] = 1 /\ seg[k+1] = 2 <=> d + k = HeaderLen + 1
  <2>1. k \in 1..n /\ k+1 \in 1..n /\ (d+(k+1) = HeaderLen + 2 <=> d+k = HeaderLen + 1)
    BY <1>1, OtpLengths
  <2> QED BY <1>4, <2>1
<1> QED BY <1>1, <1>5, <1>6

\* What is then taken for the password.
LEMMA TakenOtp ==
  ASSUME NEW d \in Nat, NEW seg \in Seq(OtpByte), FoundAt(seg, OtpText, d),
         d + Len(seg) <= HeaderLen + (RestLen + 2), HasId(seg)
  PROVE  LET pass == From(seg, Id) IN
         /\ pass \in Seq(OtpByte) /\ Len(pass) >= Len(Id)
         /\ pass = SubSeq(Password, 1, Len(pass))
<1>1. PICK n \in Nat : n = Len(seg)
  BY LenProperties
<1>2. Places(seg, Id) = {k \in 1..n-1 : d + k = HeaderLen + 1}
  BY <1>1, IdPlace
<1>3. PICK k \in 1..n-1 : d + k = HeaderLen + 1
  BY <1>2 DEF HasId, Has
<1>4. Places(seg, Id) = {k}
  BY <1>1, <1>2, <1>3, OtpLengths
<1>5. From(seg, Id) = SubSeq(seg, k, n)
  <2>1. (CHOOSE p \in {k} : \A q \in {k} : p <= q) = k
    BY <1>1
  <2> QED BY <1>1, <1>4, <2>1 DEF From
<1>6. PICK e \in Nat, m \in Nat : e + 1 = k /\ e + m = n /\ m >= 2
  <2>1. k - 1 \in Nat /\ n - (k - 1) \in Nat /\ (k-1) + 1 = k /\ (k-1) + (n - (k-1)) = n
        /\ n - (k-1) >= 2
    BY <1>1
  <2> QED BY <2>1
<1> DEFINE pass == SubSeq(seg, e+1, e+m)
<1>7. /\ pass \in Seq(OtpByte) /\ Len(pass) = m
      /\ \A l \in 1..m : pass[l] = seg[e+l]
  <2>1. e + m <= Len(seg)
    BY <1>1, <1>6
  <2> QED BY <1>6, <2>1, PartProperties
<1> HIDE DEF pass
<1>8. d + e = HeaderLen /\ m <= RestLen + 2
  BY <1>1, <1>3, <1>6, OtpLengths
<1>9. ASSUME NEW l \in 1..m PROVE pass[l] = Password[l]
  <2>1. e+l \in 1..n /\ d + (e+l) = HeaderLen + l
    BY <1>1, <1>6, <1>8, OtpLengths
  <2>2. seg[e+l] = OtpText[HeaderLen + l]
    BY <1>1, <2>1 DEF FoundAt
  <2>3. /\ HeaderLen + l \in 1..HeaderLen+(RestLen+2) /\ HeaderLen + l > HeaderLen
        /\ (HeaderLen + l) - HeaderLen = l
    BY <1>6, <1>8, OtpLengths
  <2>4. OtpText[HeaderLen + l] = Password[l]
    BY <2>3, OtpTextBytes DEF OtpTextAt
  <2> QED BY <1>7, <2>2, <2>4
<1>10. pass = SubSeq(Password, 1, m)
  <2>1. 0 + 1 = 1 /\ 0 + m = m /\ \A l \in 1..m : 0 + l = l
    BY <1>6
  <2>2. 0 + m <= Len(Password)
    BY <1>8, <2>1, PasswordBytes
  <2>3. /\ SubSeq(Password, 0+1, 0+m) \in Seq(OtpByte) /\ Len(SubSeq(Password, 0+1, 0+m)) = m
        /\ \A l \in 1..m : SubSeq(Password, 0+1, 0+m)[l] = Password[0+l]
    BY <1>6, <2>2, PasswordBytes, PartProperties
  <2> QED BY <1>7, <1>9, <2>1, <2>3, SeqEqual
<1>11. From(seg, Id) = pass /\ Len(Id) = 2
  BY <1>5, <1>6 DEF pass, Id
<1> QED BY <1>6, <1>7, <1>10, <1>11

LEMMA OtpBytes ==
  /\ OtpByte \subseteq Nat \ {0} /\ OtpByte \subseteq 0..3+RestLen /\ 0 \in 0..3+RestLen
  /\ Reply \in Seq(OtpByte) /\ <<>> \in Seq(OtpByte)
  BY OtpLengths DEF OtpByte, Reply

\* Where the client is in the text while it waits for the password.
LEMMA OtpPosition ==
  ASSUME OtpTypeOK, LostOnlyIfCut, otpMode = "otp"
  PROVE  \E d \in Nat : /\ Len(OtpText) = d + Len(stream)
                        /\ d + Len(stream) = HeaderLen + (RestLen + 2)
<1>1. Len(OtpText) = HeaderLen + (RestLen + 2) /\ HeaderLen + (RestLen + 2) \in Nat
  BY OtpTextBytes, OtpLengths
<1>2. PICK m \in Nat : m = Len(stream)
  BY LenProperties DEF OtpTypeOK
<1>3. m <= HeaderLen + (RestLen + 2)
  BY <1>1, <1>2 DEF LostOnlyIfCut, RestOf, OtpText
<1>4. \A x, y \in Nat : x <= y => y - x \in Nat /\ (y - x) + x = y
  OBVIOUS
<1> QED BY <1>1, <1>2, <1>3, <1>4

LEMMA RecvOnStep ==
  ASSUME OtpInv, RecvOn
  PROVE  OtpInv'
<1> USE DEF OtpInv
<1>1. PICK seg : Read(seg)
  BY DEF RecvOn
<1>2. /\ UNCHANGED <<closes, otp, reads, otpMode>> /\ otpMode = "otp"
      /\ cut' = (cut \/ Len(stream') = RestLen + 1) /\ ~HasId(CString(buffer'))
  BY DEF RecvOn
<1>3. PICK d \in Nat : /\ Len(OtpText) = d + Len(stream)
                       /\ d + Len(stream) = HeaderLen + (RestLen + 2)
  BY <1>2, OtpPosition
<1>4. /\ RestOf(stream, OtpText) /\ otp = <<>> /\ stream \in Seq(OtpByte)
      /\ buffer \in [1..BufSize+1 -> 0..3+RestLen]
      /\ Len(stream) < RestLen + 2 => cut
  BY <1>2, PasswordBytes DEF LostOnlyIfCut, OtpTypeOK, OtpText, OtpByte
<1>5. OtpText \in Seq(OtpByte)
  BY OtpTextBytes
<1>6. /\ seg \in Seq(OtpByte) /\ Len(seg) \in 1..Len(stream) /\ Len(seg) <= BufSize
      /\ stream' \in Seq(OtpByte) /\ Len(stream') = Len(stream) - Len(seg)
  BY <1>1, <1>3, <1>4, <1>5, OtpBytes, ReadProperties
<1>7. /\ Len(stream) \in Nat /\ RestOf(stream', OtpText) /\ FoundAt(seg, OtpText, d)
      /\ CString(buffer') = seg
  BY <1>1, <1>3, <1>4, <1>5, OtpBytes, ReadProperties
<1>15. PICK m \in Nat, n \in Nat : m = Len(stream) /\ n = Len(seg) /\ n <= m /\ n >= 1
  BY <1>6, <1>7
<1>16. PICK e \in Nat : e = m - n /\ e + n = m
  <2>1. \A x, y \in Nat : x <= y => y - x \in Nat /\ (y - x) + x = y
    OBVIOUS
  <2> QED BY <1>15, <2>1
<1>8. m = Len(stream) /\ n = Len(seg) /\ e = Len(stream') /\ e + n = m /\ n >= 1
  BY <1>6, <1>15, <1>16
<1>9. d + m = HeaderLen + (RestLen + 2) /\ d + n <= HeaderLen + (RestLen + 2)
  BY <1>3, <1>8
<1>10. e < RestLen + 2 => cut'
  <2> SUFFICES ASSUME e < RestLen + 2, ~cut, e # RestLen + 1 PROVE FALSE
    BY <1>2, <1>8, OtpLengths DEF OtpTypeOK
  <2>1. m >= RestLen + 2
    BY <1>4, <1>8, OtpLengths
  <2>2. d <= HeaderLen /\ d + n >= HeaderLen + 2
    BY <1>8, <1>9, <2>1, OtpLengths
  <2>3. PICK k \in Nat : d + k = HeaderLen + 1
    <3>1. \A x, y \in Nat : x <= y => y + 1 - x \in Nat /\ x + (y + 1 - x) = y + 1
      OBVIOUS
    <3> QED BY <2>2, <3>1, OtpLengths
  <2>4. k \in 1..n-1
    BY <2>2, <2>3, OtpLengths
  <2>5. Places(seg, Id) = {p \in 1..Len(seg)-1 : d + p = HeaderLen + 1}
    BY <1>6, <1>7, <1>8, <1>9, IdPlace
  <2> QED BY <1>2, <1>7, <1>8, <2>3, <2>4, <2>5 DEF HasId, Has
<1>11. buffer' \in [1..BufSize+1 -> 0..3+RestLen]
  <2>1. buffer' = Filled(buffer, seg)
    BY <1>1 DEF Read
  <2> QED BY <1>4, <1>6, <2>1, OtpBytes, FilledType
<1>12. OtpTypeOK'
  <2>1. cut' \in BOOLEAN
    BY <1>2
  <2> QED BY <1>2, <1>6, <1>11, <2>1 DEF OtpTypeOK, OtpByte
<1>13. OtpIsPrefix'
  BY <1>2 DEF OtpIsPrefix, Password, Id
<1>14. LostOnlyIfCut'
  <2>1. (Header \o Password)' = OtpText /\ Len(Password)' = RestLen + 2
    BY PasswordBytes DEF OtpText, Header, Password, Id
  <2>2. RestOf(stream, Header \o Password)' = RestOf(stream', OtpText)
    BY <2>1 DEF RestOf
  <2>3. otp' = <<>> /\ otpMode' = "otp"
    BY <1>2, <1>4
  <2>4. Len(stream)' = e
    BY <1>8
  <2> QED BY <1>7, <1>10, <2>1, <2>2, <2>3, <2>4 DEF LostOnlyIfCut
<1> QED BY <1>12, <1>13, <1>14

LEMMA RecvOtpStep ==
  ASSUME OtpInv, RecvOtp
  PROVE  OtpInv'
<1> USE DEF OtpInv
<1>1. PICK n \in 1..Len(stream) : n <= BufSize /\ buffer' = Filled(buffer, SubSeq(stream, 1, n))
  BY DEF RecvOtp
<1> DEFINE seg == SubSeq(stream, 1, n)
<1>2. /\ UNCHANGED <<closes, cut>> /\ otpMode = "otp" /\ otpMode' = "verify"
      /\ stream' = Reply /\ reads' = 0
      /\ HasId(CString(buffer')) /\ otp' = From(CString(buffer'), Id)
  BY DEF RecvOtp, Request
<1>3. PICK d \in Nat : /\ Len(OtpText) = d + Len(stream)
                       /\ d + Len(stream) = HeaderLen + (RestLen + 2)
  BY <1>2, OtpPosition
<1>4. /\ RestOf(stream, OtpText) /\ stream \in Seq(OtpByte)
      /\ buffer \in [1..BufSize+1 -> 0..3+RestLen]
  BY <1>2 DEF LostOnlyIfCut, OtpTypeOK, OtpText, OtpByte
<1>5. OtpText \in Seq(OtpByte)
  BY OtpTextBytes
<1>6. /\ seg \in Seq(OtpByte) /\ Len(seg) = n /\ FoundAt(seg, OtpText, d)
      /\ CString(buffer') = seg
  BY <1>1, <1>3, <1>4, <1>5, OtpBytes, TakenProperties
<1> HIDE DEF seg
<1>7. d + Len(seg) <= HeaderLen + (RestLen + 2)
  <2>1. Len(stream) \in Nat
    BY <1>4, LenProperties
  <2> QED BY <1>1, <1>3, <1>6, <2>1
<1>8. /\ otp' \in Seq(OtpByte) /\ Len(otp') >= Len(Id)
      /\ otp' = SubSeq(Password, 1, Len(otp'))
  BY <1>2, <1>6, <1>7, TakenOtp
<1>9. buffer' \in [1..BufSize+1 -> 0..3+RestLen]
  BY <1>1, <1>4, <1>6, OtpBytes, FilledType DEF seg
<1>10. OtpTypeOK'
  BY <1>2, <1>8, <1>9, OtpBytes DEF OtpTypeOK, OtpByte
<1>11. OtpIsPrefix'
  BY <1>8 DEF OtpIsPrefix, Password, Id
<1>12. otp' # <<>>
  <2>1. Len(Id) = 2
    BY DEF Id
  <2> QED BY <1>8, <2>1, EmptySeq
<1>13. LostOnlyIfCut'
  BY <1>2, <1>12 DEF LostOnlyIfCut
<1> QED BY <1>10, <1>11, <1>13

LEMMA RecvEndStep ==
  ASSUME OtpInv, RecvEnd
  PROVE  OtpInv'
<1> USE DEF OtpInv
<1>1. /\ UNCHANGED <<buffer, closes, otp, cut>> /\ otpMode = "otp" /\ stream = <<>>
      /\ otpMode' = "verify" /\ stream' = Reply /\ reads' = 0
  BY DEF RecvEnd, StopsAt0, Request
<1>2. cut
  <2>1. Len(stream) = 0 /\ Len(stream) < RestLen + 2
    BY <1>1, OtpLengths
  <2> QED BY <1>1, <2>1, PasswordBytes DEF LostOnlyIfCut
<1>3. OtpTypeOK'
  BY <1>1, OtpBytes DEF OtpTypeOK, OtpByte
<1>4. OtpIsPrefix'
  BY <1>1 DEF OtpIsPrefix, Password, Id
<1>5. LostOnlyIfCut'
  BY <1>1, <1>2 DEF LostOnlyIfCut
<1> QED BY <1>3, <1>4, <1>5

\* The answers to the other requests.
LEMMA ReadReplyStep ==
  ASSUME OtpInv, ReadReply
  PROVE  OtpInv'
<1> USE DEF OtpInv
<1>0. PICK seg : Read(seg)
  BY DEF ReadReply
<1>1. PICK n \in 1..Len(stream) :
        /\ seg = SubSeq(stream, 1, n) /\ buffer' = Filled(buffer, seg)
        /\ stream' = SubSeq(stream, Len(seg) + 1, Len(stream))
  BY <1>0 DEF Read
<1>2. /\ UNCHANGED <<closes, otp, otpMode, cut>> /\ otpMode \in {"verify", "upload"}
      /\ reads' = reads + 1 /\ reads + 1 # 2
  BY DEF ReadReply, Twice
<1>3. /\ stream \in Seq(OtpByte) /\ buffer \in [1..BufSize+1 -> 0..3+RestLen]
      /\ reads \in 0..1
  BY DEF OtpTypeOK, OtpByte
<1>4. seg \in Seq(OtpByte) /\ Len(seg) = n
  <2>1. Len(stream) \in Nat
    BY <1>3, LenProperties
  <2>2. n \in Nat /\ 0 + 1 = 1 /\ 0 + n = n /\ 0 + n <= Len(stream)
    BY <2>1
  <2> QED BY <1>1, <1>3, <2>2, PartProperties
<1>5. stream' \in Seq(OtpByte)
  <2>1. PICK m \in Nat : m = Len(stream)
    BY <1>3, LenProperties
  <2>2. PICK e \in Nat : n + e = m
    <3>1. \A x, y \in Nat : x <= y => y - x \in Nat /\ x + (y - x) = y
      OBVIOUS
    <3>2. n \in Nat /\ n <= m
      BY <2>1
    <3> QED BY <3>1, <3>2
  <2>3. n \in Nat /\ n + e <= Len(stream) /\ stream' = SubSeq(stream, n+1, n+e)
    BY <1>1, <1>4, <2>1, <2>2
  <2> QED BY <1>3, <2>3, PartProperties
<1>6. buffer' \in [1..BufSize+1 -> 0..3+RestLen]
  BY <1>1, <1>3, <1>4, OtpBytes, FilledType
<1>7. reads' \in 0..1
  BY <1>2, <1>3
<1>8. OtpTypeOK'
  BY <1>2, <1>5, <1>6, <1>7 DEF OtpTypeOK, OtpByte
<1>9. OtpIsPrefix'
  BY <1>2 DEF OtpIsPrefix, Password, Id
<1>10. LostOnlyIfCut'
  BY <1>2 DEF LostOnlyIfCut
<1> QED BY <1>8, <1>9, <1>10

LEMMA ReadLastStep ==
  ASSUME OtpInv, ReadLast
  PROVE  OtpInv'
<1> USE DEF OtpInv
<1>1. /\ UNCHANGED <<closes, otp, cut>> /\ otpMode \in {"verify", "upload"}
      /\ otpMode' \in {"upload", "end"} /\ stream' \in {Reply, <<>>} /\ reads' = 0
  BY DEF ReadLast, Request, NextMode
<1>2. /\ stream \in Seq(OtpByte) /\ buffer \in [1..BufSize+1 -> 0..3+RestLen]
  BY DEF OtpTypeOK, OtpByte
<1>3. PICK seg \in Seq(OtpByte) : buffer' = Filled(buffer, seg)
  <2>1. CASE \E n \in 1..Len(stream) : n <= BufSize /\ buffer' = Filled(buffer, SubSeq(stream, 1, n))
    <3>1. PICK n \in 1..Len(stream) : buffer' = Filled(buffer, SubSeq(stream, 1, n))
      BY <2>1
    <3>2. Len(stream) \in Nat
      BY <1>2, LenProperties
    <3>3. n \in Nat /\ 0 + 1 = 1 /\ 0 + n = n /\ 0 + n <= Len(stream)
      BY <3>2
    <3>4. SubSeq(stream, 1, n) \in Seq(OtpByte)
      BY <1>2, <3>3, PartProperties
    <3> QED BY <3>1, <3>4
  <2>2. CASE buffer' = Filled(buffer, <<>>)
    BY <2>2, OtpBytes
  <2> QED BY <2>1, <2>2 DEF ReadLast
<1>4. buffer' \in [1..BufSize+1 -> 0..3+RestLen]
  BY <1>2, <1>3, OtpBytes, FilledType
<1>5. stream' \in Seq(OtpByte)
  BY <1>1, OtpBytes
<1>6. OtpTypeOK'
  BY <1>1, <1>4, <1>5 DEF OtpTypeOK, OtpByte
<1>7. OtpIsPrefix'
  BY <1>1 DEF OtpIsPrefix, Password, Id
<1>8. LostOnlyIfCut'
  BY <1>1 DEF LostOnlyIfCut
<1> QED BY <1>6, <1>7, <1>8

LEMMA OtpStep ==
  ASSUME OtpInv, OtpNext
  PROVE  OtpInv'
BY RecvOnStep, RecvOtpStep, RecvEndStep, ReadReplyStep, ReadLastStep DEF OtpNext

LEMMA OtpStays ==
  ASSUME OtpInv, UNCHANGED otpVars
  PROVE  OtpInv'
<1> USE DEF OtpInv
<1>1. UNCHANGED <<stream, buffer, closes, otp, reads, otpMode, cut>>
  BY DEF otpVars
<1>2. OtpTypeOK'
  BY <1>1 DEF OtpTypeOK
<1>3. OtpIsPrefix'
  BY <1>1 DEF OtpIsPrefix, Password, Id
<1>4. LostOnlyIfCut'
  BY <1>1 DEF LostOnlyIfCut, RestOf, Header, Password, Id
<1> QED BY <1>2, <1>3, <1>4

LEMMA OtpStart ==
  ASSUME SegmentsInit(Header \o Password), OtpBegins
  PROVE  OtpInv
<1>1. /\ stream = OtpText /\ buffer = [k \in 1..BufSize+1 |-> NUL]
      /\ closes \in BOOLEAN /\ otp = <<>> /\ reads = 0 /\ otpMode = "otp" /\ cut = FALSE
  BY DEF SegmentsInit, OtpBegins, OtpText
<1>2. OtpText \in Seq(OtpByte) /\ Len(OtpText) = HeaderLen + (RestLen + 2)
  BY OtpTextBytes
<1>3. OtpTypeOK
  <2>1. buffer \in [1..BufSize+1 -> 0..3+RestLen]
    BY <1>1, OtpBytes DEF NUL
  <2>2. stream \in Seq(OtpByte) /\ otp \in Seq(OtpByte)
    BY <1>1, <1>2, OtpBytes
  <2>3. reads \in 0..1 /\ otpMode \in {"otp", "verify", "upload", "end"}
    BY <1>1
  <2>4. closes \in BOOLEAN /\ cut \in BOOLEAN
    BY <1>1
  <2> QED BY <2>1, <2>2, <2>3, <2>4 DEF OtpTypeOK, OtpByte
<1>4. OtpIsPrefix
  <2>1. Len(otp) = 0 /\ 0 + 1 = 1 /\ 0 + 0 = 0 /\ 0 + 0 <= Len(Password)
    BY <1>1, PasswordBytes, OtpLengths
  <2>2. SubSeq(Password, 0+1, 0+0) \in Seq(OtpByte) /\ Len(SubSeq(Password, 0+1, 0+0)) = 0
    BY <2>1, PasswordBytes, PartProperties
  <2>3. SubSeq(Password, 1, Len(otp)) = <<>>
    BY <2>1, <2>2, EmptySeq
  <2> QED BY <1>1, <2>3 DEF OtpIsPrefix
<1>5. RestOf(stream, OtpText)
  <2>1. Len(OtpText) - Len(OtpText) = 0 /\ \A k \in 1..Len(OtpText) : 0 + k = k
    BY <1>2, OtpLengths
  <2> QED BY <1>1, <1>2, <2>1, OtpLengths DEF RestOf
<1>6. LostOnlyIfCut
  <2>1. ~(Len(stream) < Len(Password))
    BY <1>1, <1>2, PasswordBytes, OtpLengths
  <2> QED BY <1>1, <1>5, <2>1 DEF LostOnlyIfCut, OtpText
<1> QED BY <1>3, <1>4, <1>6 DEF OtpInv

\* The client takes the beginning of the password, and only a cut within the id
\* makes it take nothing.
THEOREM OtpTakenRight == OtpSpec => []OtpInv
<1>1. OtpInit => OtpInv
  BY OtpStart DEF OtpInit
<1>2. OtpInv /\ [OtpNext]_otpVars => OtpInv'
  BY OtpStep, OtpStays
<1> QED BY <1>1, <1>2, PTL DEF OtpSpec

\* The same beside the other programs.
THEOREM OtpRightAlways == LabsSpec => []OtpRight
<1>1. LabsInit => OtpRight
  BY OtpStart DEF LabsInit, OtpRight
<1>2. OtpRight /\ [LabsNext]_labsVars => OtpRight'
  <2> SUFFICES ASSUME OtpRight, [LabsNext]_labsVars, running' = "otp" PROVE OtpInv'
    BY DEF OtpRight
  <2>1. CASE OtpRuns
    BY <2>1, OtpStep DEF OtpRuns, OtpRight
  <2>2. CASE UNCHANGED labsVars
    <3>1. OtpInv /\ UNCHANGED otpVars
      BY <2>2 DEF labsVars, segmentVars, otpOwn, otpVars, OtpRight
    <3> QED BY <3>1, OtpStays
  <2>3. CASE ~OtpRuns /\ LabsNext
    BY <2>3 DEF LabsNext, ExploreRuns, CodecRuns, MazeRuns, RoomRuns, CaptureRuns,
                VerifyRuns, BlocksRun, MeterRuns
  <2> QED BY <2>1, <2>2, <2>3
<1> QED BY <1>1, <1>2, PTL DEF LabsSpec

-----------------------------------------------------------------------------
\* lab1/part2-2.c and part2-3.c

LEMMA CaptureNumbers ==
  /\ First \in Nat /\ Last \in Nat /\ Enough \in Nat /\ MaxSent \in Nat
  /\ 0 < First /\ First < Last
BY NumberAssumption

LEMMA CaptureTyped ==
  ASSUME CaptureTypeOK
  PROVE  /\ seen \in Seq(Number \cup {Plain}) /\ Len(seen) \in Nat
         /\ next \in Nat /\ next <= Len(seen) /\ file \in Int /\ file <= Len(seen)
         /\ \A k \in 1..Len(seen) : seen[k] \in 0..Last
<1>1. seen \in Seq(Number \cup {Plain}) /\ Len(seen) \in Nat
  BY LenProperties DEF CaptureTypeOK
<1>2. \A k \in 1..Len(seen) : seen[k] \in Number \cup {Plain}
  BY <1>1, ElementOfSeq
<1>3. Number \cup {Plain} \subseteq 0..Last
  BY CaptureNumbers DEF Number, Plain
<1> QED BY <1>1, <1>2, <1>3 DEF CaptureTypeOK

\* What is captured beside the program leaves what it has read as it was.
LEMMA SeenGrows ==
  ASSUME CaptureTypeOK, NEW s \in Number \cup {Plain}, next' = next,
         seen' = IF started THEN Append(seen, s) ELSE seen
  PROVE  /\ seen' \in Seq(Number \cup {Plain}) /\ Len(seen) <= Len(seen')
         /\ Len(seen') \in Nat /\ InFile' = InFile
<1>1. /\ seen \in Seq(Number \cup {Plain}) /\ Len(seen) \in Nat
      /\ next \in Nat /\ next <= Len(seen)
  BY CaptureTyped
<1>2. CASE started
  <2>1. seen' = Append(seen, s)
    BY <1>2
  <2>2. /\ Append(seen, s) \in Seq(Number \cup {Plain})
        /\ Len(Append(seen, s)) = Len(seen) + 1
        /\ \A k \in 1..Len(seen) : Append(seen, s)[k] = seen[k]
    BY <1>1, AppendProperties
  <2>3. \A k \in 1..next : k \in 1..Len(seen)
    BY <1>1
  <2>4. \A k \in 1..next : seen'[k] = seen[k]
    BY <2>1, <2>2, <2>3
  <2> QED BY <1>1, <2>1, <2>2, <2>4 DEF InFile
<1>3. CASE ~started
  BY <1>1, <1>3 DEF InFile
<1> QED BY <1>2, <1>3

\* The part of the state that the loops at the end are about.
LEMMA SpelledStays ==
  ASSUME MessageRight, InFile' = InFile,
         UNCHANGED <<next, packet_lengths, begin, end, place, flag, printed, captureMode>>
  PROVE  Untouched' /\ FoundIsSet' /\ LoopEnds' /\ FlagIsMessage' /\ PrintsInOrder'
<1>1. FoundIsSet'
  BY DEF MessageRight, FoundIsSet, Missing, LetterOf
<1>2. Bounds' = Bounds /\ Reached' = Reached
  BY DEF Bounds, Reached
<1>3. LoopEnds'
  BY <1>2 DEF MessageRight, LoopEnds
<1>4. FlagIsMessage'
  BY <1>2 DEF MessageRight, FlagIsMessage, LetterOf, Garbage
<1>5. PrintsInOrder'
  BY <1>2 DEF MessageRight, PrintsInOrder, LetterOf
<1>6. Untouched'
  BY DEF MessageRight, Untouched
<1> QED BY <1>1, <1>3, <1>4, <1>5, <1>6

\* The program does not spell yet.
LEMMA BeforeSpelling ==
  ASSUME captureMode' \notin {"spell", "flag"}
  PROVE  LoopEnds' /\ FlagIsMessage' /\ PrintsInOrder'
BY DEF LoopEnds, FlagIsMessage, PrintsInOrder

LEMMA ArrivalStep ==
  ASSUME MessageRight, \E s \in Number : Arrive(s)
  PROVE  MessageRight'
<1>1. PICK s \in Number : Arrive(s)
  OBVIOUS
<1>2. /\ UNCHANGED <<started, file, next, packet_lengths, begin, end, place, flag, printed, captureMode>>
      /\ datagrams < MaxSent /\ datagrams' = datagrams + 1
      /\ seen' = IF started THEN Append(seen, s) ELSE seen
      /\ cnt' = IF cnt < Enough THEN cnt + 1 ELSE cnt
  BY <1>1 DEF Arrive, found, spelled
<1>3. CaptureTypeOK
  BY DEF MessageRight
<1>4. /\ seen' \in Seq(Number \cup {Plain}) /\ Len(seen) <= Len(seen')
      /\ Len(seen') \in Nat /\ InFile' = InFile
  BY <1>2, <1>3, SeenGrows
<1>5. Untouched' /\ FoundIsSet' /\ LoopEnds' /\ FlagIsMessage' /\ PrintsInOrder'
  BY <1>2, <1>4, SpelledStays
<1>6. file' \in -1..Len(seen') /\ next' \in 0..Len(seen')
  BY <1>2, <1>3, <1>4, CaptureTyped DEF CaptureTypeOK
<1>7. datagrams' \in 0..MaxSent /\ cnt' \in 0..Enough
  BY <1>2, <1>3, CaptureNumbers DEF CaptureTypeOK
<1>8. CaptureTypeOK'
  BY <1>2, <1>3, <1>4, <1>6, <1>7 DEF CaptureTypeOK, Number, Plain, Missing, Garbage
<1> QED BY <1>5, <1>8 DEF MessageRight

LEMMA TalkStep ==
  ASSUME MessageRight, Talk
  PROVE  MessageRight'
<1>1. /\ UNCHANGED <<started, file, datagrams, cnt, next, packet_lengths, begin, end, place, flag, printed>>
      /\ captureMode = "hello" /\ captureMode' = "recv"
      /\ seen' = IF started THEN Append(seen, Plain) ELSE seen
  BY DEF Talk, found, spelled
<1>2. CaptureTypeOK
  BY DEF MessageRight
<1>3. /\ seen' \in Seq(Number \cup {Plain}) /\ Len(seen) <= Len(seen')
      /\ Len(seen') \in Nat
  BY <1>1, <1>2, SeenGrows
<1>4. file' \in -1..Len(seen') /\ next' \in 0..Len(seen')
  BY <1>1, <1>2, <1>3, CaptureTyped DEF CaptureTypeOK
<1>5. CaptureTypeOK'
  BY <1>1, <1>2, <1>3, <1>4 DEF CaptureTypeOK, Number, Plain, Missing, Garbage
<1>6. FoundIsSet'
  BY <1>1 DEF FoundIsSet
<1>7. Untouched'
  BY <1>1 DEF MessageRight, Untouched
<1> QED BY <1>1, <1>5, <1>6, <1>7, BeforeSpelling DEF MessageRight

LEMMA TcpdumpStep ==
  ASSUME MessageRight, Start \/ Flush
  PROVE  MessageRight'
<1>1. /\ UNCHANGED <<seen, datagrams, cnt, next, packet_lengths, begin, end, place, flag, printed, captureMode>>
      /\ started' = TRUE /\ file' \in {file} \cup file+1..Len(seen)
  BY DEF Start, Flush, found, spelled, MessageRight, CaptureTypeOK
<1>2. CaptureTypeOK
  BY DEF MessageRight
<1>3. InFile' = InFile
  BY <1>1 DEF InFile
<1>4. Untouched' /\ FoundIsSet' /\ LoopEnds' /\ FlagIsMessage' /\ PrintsInOrder'
  BY <1>1, <1>3, SpelledStays
<1>5. file' \in -1..Len(seen)
  BY <1>1, <1>2, CaptureTyped DEF CaptureTypeOK
<1>6. CaptureTypeOK'
  BY <1>1, <1>2, <1>5 DEF CaptureTypeOK, Number, Plain, Missing, Garbage
<1> QED BY <1>4, <1>6 DEF MessageRight

LEMMA OpenFileStep ==
  ASSUME MessageRight, OpenFile
  PROVE  MessageRight'
<1>1. /\ UNCHANGED <<started, seen, file, datagrams, cnt, next, begin, end, place, flag, printed>>
      /\ captureMode = "recv" /\ captureMode' = "read"
      /\ packet_lengths' = [s \in 0..Last |-> Missing]
  BY DEF OpenFile, dump, spelled
<1>2. next = 0 /\ begin = 0 /\ end = 0 /\ printed = <<>>
  BY <1>1 DEF MessageRight, Untouched
<1>3. InFile' = {}
  BY <1>1, <1>2 DEF InFile
<1>4. CaptureTypeOK'
  <2>1. packet_lengths' \in [0..Last -> Nat \cup {Missing}]
    BY <1>1
  <2> QED BY <1>1, <2>1 DEF MessageRight, CaptureTypeOK, Number, Plain, Missing, Garbage
<1>5. FoundIsSet'
  BY <1>1, <1>2, <1>3 DEF FoundIsSet, Missing
<1>6. Untouched'
  BY <1>1, <1>2 DEF Untouched
<1> QED BY <1>1, <1>4, <1>5, <1>6, BeforeSpelling DEF MessageRight

LEMMA HandleStep ==
  ASSUME MessageRight, Handle
  PROVE  MessageRight'
<1>1. /\ UNCHANGED <<started, seen, file, datagrams, cnt, place, flag, printed, captureMode>>
      /\ captureMode = "read" /\ next < file /\ next' = next + 1
      /\ packet_handler(seen[next+1])
  BY DEF Handle, dump, spelled
<1>2. CaptureTypeOK
  BY DEF MessageRight
<1>3. /\ next \in Nat /\ next + 1 \in 1..Len(seen) /\ Len(seen) \in Nat
      /\ seen[next+1] \in 0..Last
  BY <1>1, <1>2, CaptureTyped
<1>4. PICK s \in 0..Last : s = seen[next+1]
  BY <1>3
<1>5. /\ begin' = (IF s = First THEN s ELSE begin) /\ end' = (IF s = Last THEN s ELSE end)
      /\ packet_lengths' = [packet_lengths EXCEPT ![s] = 48 + LetterOf(s)]
  BY <1>1, <1>4 DEF packet_handler, Marks
<1>6. InFile' = InFile \cup {s}
  <2>1. InFile' = {seen[k] : k \in 1..next+1}
    BY <1>1 DEF InFile
  <2>2. 1..next+1 = (1..next) \cup {next+1}
    BY <1>3
  <2> QED BY <1>4, <2>1, <2>2 DEF InFile
<1>7. packet_lengths \in [0..Last -> Nat \cup {Missing}] /\ 48 + LetterOf(s) \in Nat
  BY <1>2, <1>4, CaptureNumbers DEF CaptureTypeOK, LetterOf
<1>8. packet_lengths' \in [0..Last -> Nat \cup {Missing}]
  BY <1>5, <1>7
<1>9. begin' \in 0..Last /\ end' \in 0..Last
  BY <1>2, <1>5 DEF CaptureTypeOK
<1>10. next' \in 0..Len(seen)
  BY <1>1, <1>3
<1>11. CaptureTypeOK'
  BY <1>1, <1>2, <1>8, <1>9, <1>10 DEF CaptureTypeOK, Number, Plain, Missing, Garbage
<1>12. FoundIsSet'
  <2>1. /\ \A t \in 0..Last : packet_lengths[t] = IF t \in InFile THEN 48 + LetterOf(t) ELSE Missing
        /\ begin = (IF First \in InFile THEN First ELSE 0)
        /\ end = (IF Last \in InFile THEN Last ELSE 0)
    BY <1>1 DEF MessageRight, FoundIsSet
  <2>2. ASSUME NEW t \in 0..Last
        PROVE  packet_lengths'[t] = IF t \in InFile' THEN 48 + LetterOf(t) ELSE Missing
    BY <1>5, <1>6, <1>7, <2>1
  <2>3. begin' = (IF First \in InFile' THEN First ELSE 0) /\ end' = (IF Last \in InFile' THEN Last ELSE 0)
    BY <1>5, <1>6, <2>1
  <2> QED BY <2>2, <2>3 DEF FoundIsSet, LetterOf, Missing
<1>13. Untouched'
  BY <1>1 DEF MessageRight, Untouched
<1> QED BY <1>1, <1>11, <1>12, <1>13, BeforeSpelling DEF MessageRight

\* Where begin and end are when the loops run.
LEMMA BoundsKnown ==
  ASSUME MessageRight, captureMode \in {"read", "spell", "flag"}
  PROVE  /\ begin \in Nat /\ end \in Nat /\ begin \in {0, First} /\ end \in {0, Last}
         /\ Bounds => begin = First /\ end = Last
BY CaptureNumbers DEF MessageRight, FoundIsSet, Bounds

LEMMA EndOfFileStep ==
  ASSUME MessageRight, EndOfFile
  PROVE  MessageRight'
<1>1. /\ UNCHANGED <<started, seen, file, datagrams, cnt, next, packet_lengths, begin, end, printed>>
      /\ captureMode = "read" /\ captureMode' = "spell"
      /\ place' = begin + 1 /\ flag' = [k \in 1..end-begin-1 |-> Garbage]
  BY DEF EndOfFile, dump, found
<1>2. /\ begin \in Nat /\ end \in Nat /\ begin \in {0, First} /\ end \in {0, Last} /\ printed = <<>>
      /\ Bounds => begin = First /\ end = Last
  BY <1>1, BoundsKnown DEF MessageRight, Untouched
<1>3. place' \in 0..Last /\ begin < place'
  BY <1>1, <1>2, CaptureNumbers
<1>4. PICK n \in Nat : n = IF end-begin-1 > 0 THEN end-begin-1 ELSE 0
  <2>1. (IF end-begin-1 > 0 THEN end-begin-1 ELSE 0) \in Nat
    BY <1>2
  <2> QED BY <2>1
<1>5. flag' = [k \in 1..n |-> Garbage]
  <2>1. 1..end-begin-1 = 1..n
    BY <1>2, <1>4, CaptureNumbers
  <2> QED BY <1>1, <2>1
<1>6. flag' \in Seq(Nat \cup {Garbage}) /\ Len(flag') = n /\ \A k \in 1..n : flag'[k] = Garbage
  BY <1>5
<1>7. CaptureTypeOK'
  BY <1>1, <1>3, <1>6 DEF MessageRight, CaptureTypeOK, Number, Plain, Missing, Garbage
<1>8. InFile' = InFile /\ Bounds' = Bounds
  BY <1>1 DEF InFile, Bounds
<1>9. FoundIsSet'
  BY <1>1, <1>8 DEF MessageRight, FoundIsSet, Missing, LetterOf
<1>10. LoopEnds' /\ Untouched'
  BY <1>1, <1>3 DEF LoopEnds, Untouched
<1>11. Reached' = {}
  <2>1. (begin + 1) - 1 = begin
    BY <1>2, CaptureNumbers
  <2>2. Reached' = begin+1..begin
    BY <1>1, <2>1 DEF Reached
  <2>3. begin+1..begin = {}
    BY <1>2, CaptureNumbers
  <2> QED BY <2>2, <2>3
<1>12. FlagIsMessage'
  <2> SUFFICES ASSUME Bounds
               PROVE  /\ Len(flag') = Last - First - 1
                      /\ \A k \in 1..Len(flag') : flag'[k] = Garbage
    BY <1>8, <1>11 DEF FlagIsMessage, Garbage
  <2>1. n = Last - First - 1
    BY <1>2, <1>4, CaptureNumbers
  <2> QED BY <1>6, <2>1
<1>13. PrintsInOrder'
  <2>1. printed' = <<>> /\ Len(printed') = 0 /\ 1..0 = {}
    BY <1>1, <1>2
  <2> QED BY <1>11, <2>1 DEF PrintsInOrder
<1> QED BY <1>7, <1>9, <1>10, <1>12, <1>13 DEF MessageRight

LEMMA ElementReplaced ==
  ASSUME NEW S, NEW s \in Seq(S), NEW p, NEW v \in S
  PROVE  [s EXCEPT ![p] = v] \in Seq(S) /\ Len([s EXCEPT ![p] = v]) = Len(s)
<1>1. Len(s) \in Nat /\ s \in [1..Len(s) -> S]
  BY LenProperties
<1> DEFINE r == [s EXCEPT ![p] = v]
<1>2. r \in [1..Len(s) -> S]
  BY <1>1
<1> HIDE DEF r
<1>3. r \in Seq(S) /\ Len(r) = Len(s)
  BY <1>1, <1>2
<1> QED BY <1>3 DEF r

LEMMA SpellStep ==
  ASSUME MessageRight, Spell
  PROVE  MessageRight'
<1>1. /\ UNCHANGED <<started, seen, file, datagrams, cnt, next, packet_lengths, begin, end, captureMode>>
      /\ captureMode = "spell" /\ place < end /\ place' = place + 1
      /\ IF packet_lengths[place] # Missing
           THEN /\ flag' = [flag EXCEPT ![place-begin] = packet_lengths[place] - 48]
                /\ printed' = Append(printed, packet_lengths[place] - 48)
           ELSE UNCHANGED <<flag, printed>>
  BY DEF Spell, dump, found
<1>2. /\ begin \in Nat /\ end \in Nat /\ begin \in {0, First} /\ end \in {0, Last}
      /\ Bounds => begin = First /\ end = Last
  BY <1>1, BoundsKnown
<1>3. /\ place \in 1..Last-1 /\ begin < place /\ place \in 0..Last
  BY <1>1, <1>2, CaptureNumbers DEF MessageRight, LoopEnds, CaptureTypeOK
<1>4. packet_lengths[place] = IF place \in InFile THEN 48 + LetterOf(place) ELSE Missing
  BY <1>1, <1>3 DEF MessageRight, FoundIsSet
<1>5. 48 + LetterOf(place) # Missing /\ (48 + LetterOf(place)) - 48 = LetterOf(place) /\ LetterOf(place) \in Nat
  BY <1>3, CaptureNumbers DEF LetterOf, Missing
<1>6. /\ flag \in Seq(Nat \cup {Garbage}) /\ printed \in Seq(Nat \cup {Garbage})
  BY DEF MessageRight, CaptureTypeOK
<1>7. /\ place \in InFile => /\ flag' = [flag EXCEPT ![place-begin] = LetterOf(place)]
                             /\ printed' = Append(printed, LetterOf(place))
      /\ place \notin InFile => UNCHANGED <<flag, printed>>
  BY <1>1, <1>4, <1>5
<1>8. flag' \in Seq(Nat \cup {Garbage}) /\ printed' \in Seq(Nat \cup {Garbage}) /\ Len(flag') = Len(flag)
  <2>1. CASE place \in InFile
    <3>1. flag' \in Seq(Nat \cup {Garbage}) /\ Len(flag') = Len(flag)
      BY <1>5, <1>6, <1>7, <2>1, ElementReplaced
    <3>2. printed' \in Seq(Nat \cup {Garbage})
      BY <1>5, <1>6, <1>7, <2>1, AppendProperties
    <3> QED BY <3>1, <3>2
  <2>2. CASE place \notin InFile
    BY <1>6, <1>7, <2>2
  <2> QED BY <2>1, <2>2
<1>9. place' \in 0..Last /\ begin < place'
  BY <1>1, <1>2, <1>3, CaptureNumbers
<1>10. CaptureTypeOK'
  BY <1>1, <1>8, <1>9 DEF MessageRight, CaptureTypeOK, Number, Plain, Missing, Garbage
<1>11. InFile' = InFile /\ Bounds' = Bounds
  BY <1>1 DEF InFile, Bounds
<1>12. FoundIsSet'
  BY <1>1, <1>11 DEF MessageRight, FoundIsSet, Missing, LetterOf
<1>13. LoopEnds' /\ Untouched'
  BY <1>1, <1>9 DEF LoopEnds, Untouched
<1>14. Reached' = Reached \cup {place} /\ \A s \in Reached : s \in Nat /\ s < place
  <2>1. Reached' = begin+1..place
    <3>1. (place + 1) - 1 = place
      BY <1>3, CaptureNumbers
    <3> QED BY <1>1, <3>1 DEF Reached
  <2>2. begin+1..place = (begin+1..place-1) \cup {place}
    BY <1>2, <1>3, CaptureNumbers
  <2>3. \A s \in begin+1..place-1 : s \in Nat /\ s < place
    BY <1>2, <1>3, CaptureNumbers
  <2> QED BY <2>1, <2>2, <2>3 DEF Reached
<1>15. FlagIsMessage'
  <2> SUFFICES ASSUME Bounds
               PROVE  /\ Len(flag') = Last - First - 1
                      /\ \A k \in 1..Len(flag') :
                           flag'[k] = IF First + k \in Reached' \cap InFile
                                        THEN LetterOf(First + k) ELSE Garbage
    BY <1>11 DEF FlagIsMessage, Garbage, LetterOf
  <2>1. /\ Len(flag) = Last - First - 1
        /\ \A k \in 1..Len(flag) :
             flag[k] = IF First + k \in Reached \cap InFile THEN LetterOf(First + k) ELSE Garbage
    BY <1>1 DEF MessageRight, FlagIsMessage
  <2>2. begin = First
    BY <1>2
  <2>3. ASSUME NEW k \in 1..Len(flag)
        PROVE  flag'[k] = IF First + k \in Reached' \cap InFile THEN LetterOf(First + k) ELSE Garbage
    <3>1. Len(flag) \in Nat /\ k \in Nat
      BY <1>6, LenProperties
    <3>2. First + k = place <=> k = place - begin
      BY <1>3, <2>2, <3>1, CaptureNumbers
    <3>3. CASE place \in InFile /\ k = place - begin
      <4>1. flag'[k] = LetterOf(place)
        BY <1>6, <1>7, <3>3
      <4> QED BY <1>14, <3>2, <3>3, <4>1
    <3>4. CASE place \in InFile /\ k # place - begin
      <4>1. flag'[k] = flag[k]
        BY <1>6, <1>7, <3>4
      <4>2. First + k \in Reached' <=> First + k \in Reached
        BY <1>14, <3>2, <3>4
      <4> QED BY <2>1, <4>1, <4>2
    <3>5. CASE place \notin InFile
      <4>1. flag'[k] = flag[k]
        BY <1>7, <3>5
      <4>2. First + k \in Reached' \cap InFile <=> First + k \in Reached \cap InFile
        BY <1>14, <3>5
      <4> QED BY <2>1, <4>1, <4>2
    <3> QED BY <3>3, <3>4, <3>5
  <2> QED BY <1>8, <2>1, <2>3
<1>16. PrintsInOrder'
  <2> SUFFICES ASSUME Bounds
               PROVE  /\ \A k, l \in 1..Len(printed') : k < l => printed'[k] < printed'[l]
                      /\ {printed'[k] : k \in 1..Len(printed')} = {LetterOf(s) : s \in InFile \cap Reached'}
    BY <1>11 DEF PrintsInOrder, LetterOf
  <2>1. /\ \A k, l \in 1..Len(printed) : k < l => printed[k] < printed[l]
        /\ {printed[k] : k \in 1..Len(printed)} = {LetterOf(s) : s \in InFile \cap Reached}
    BY <1>1 DEF MessageRight, PrintsInOrder
  <2>2. CASE place \notin InFile
    <3>1. InFile \cap Reached' = InFile \cap Reached /\ printed' = printed
      BY <1>7, <1>14, <2>2
    <3> QED BY <2>1, <3>1
  <2>3. CASE place \in InFile
    <3>1. PICK n \in Nat : n = Len(printed)
      BY <1>6, LenProperties
    <3>2. /\ Len(printed') = n + 1 /\ printed'[n+1] = LetterOf(place)
          /\ \A k \in 1..n : printed'[k] = printed[k]
      BY <1>5, <1>6, <1>7, <2>3, <3>1, AppendProperties
    <3>3. \A k \in 1..n : printed[k] < LetterOf(place)
      <4> SUFFICES ASSUME NEW k \in 1..n PROVE printed[k] < LetterOf(place)
        OBVIOUS
      <4>1. PICK s \in InFile \cap Reached : printed[k] = LetterOf(s)
        BY <2>1, <3>1
      <4>2. s \in Nat /\ s < place
        BY <1>14
      <4> QED BY <1>3, <4>1, <4>2 DEF LetterOf
    <3>4. 1..n+1 = (1..n) \cup {n+1}
      BY <3>1
    <3>5. ASSUME NEW k \in 1..n+1, NEW l \in 1..n+1, k < l PROVE printed'[k] < printed'[l]
      <4>1. k \in 1..n
        BY <3>1, <3>5
      <4>2. CASE l \in 1..n
        BY <2>1, <3>1, <3>2, <3>5, <4>1, <4>2
      <4>3. CASE l = n+1
        BY <3>2, <3>3, <4>1, <4>3
      <4> QED BY <3>4, <4>2, <4>3
    <3>6. {printed'[k] : k \in 1..n+1} = {LetterOf(s) : s \in InFile \cap Reached'}
      <4>1. {printed'[k] : k \in 1..n+1} = {printed'[k] : k \in 1..n} \cup {printed'[n+1]}
        BY <3>4
      <4>2. {printed'[k] : k \in 1..n} = {printed[k] : k \in 1..n}
        BY <3>2
      <4>3. InFile \cap Reached' = (InFile \cap Reached) \cup {place}
        BY <1>14, <2>3
      <4>4. {LetterOf(s) : s \in (InFile \cap Reached) \cup {place}}
              = {LetterOf(s) : s \in InFile \cap Reached} \cup {LetterOf(place)}
        OBVIOUS
      <4> QED BY <2>1, <3>1, <3>2, <4>1, <4>2, <4>3, <4>4
    <3> QED BY <3>2, <3>5, <3>6
  <2> QED BY <2>2, <2>3
<1> QED BY <1>10, <1>12, <1>13, <1>15, <1>16 DEF MessageRight

LEMMA MakeFlagStep ==
  ASSUME MessageRight, MakeFlag
  PROVE  MessageRight'
<1>1. /\ UNCHANGED <<started, seen, file, datagrams, cnt, next, packet_lengths, begin, end,
                     place, flag, printed>>
      /\ captureMode = "spell" /\ ~(place < end) /\ captureMode' = "flag"
  BY DEF MakeFlag, dump, found, spelled
<1>2. CaptureTypeOK'
  BY <1>1 DEF MessageRight, CaptureTypeOK, Number, Plain, Missing, Garbage
<1>3. InFile' = InFile /\ Bounds' = Bounds /\ Reached' = Reached
  BY <1>1 DEF InFile, Bounds, Reached
<1>4. FoundIsSet'
  BY <1>1, <1>3 DEF MessageRight, FoundIsSet, Missing, LetterOf
<1>5. LoopEnds'
  <2>1. Bounds => place = Last
    <3>1. place \in 0..Last /\ (Bounds => end = Last)
      BY <1>1, BoundsKnown DEF MessageRight, CaptureTypeOK
    <3> QED BY <1>1, <3>1, CaptureNumbers
  <2>2. begin < place
    BY <1>1 DEF MessageRight, LoopEnds
  <2> QED BY <1>1, <1>3, <2>1, <2>2 DEF LoopEnds
<1>6. Untouched'
  BY <1>1 DEF Untouched
<1>7. FlagIsMessage'
  BY <1>1, <1>3 DEF MessageRight, FlagIsMessage, LetterOf, Garbage
<1>8. PrintsInOrder'
  BY <1>1, <1>3 DEF MessageRight, PrintsInOrder, LetterOf
<1> QED BY <1>2, <1>4, <1>5, <1>6, <1>7, <1>8 DEF MessageRight

LEMMA CaptureStep ==
  ASSUME MessageRight, CaptureNext
  PROVE  MessageRight'
BY ArrivalStep, TalkStep, TcpdumpStep, OpenFileStep, HandleStep, EndOfFileStep, SpellStep,
   MakeFlagStep DEF CaptureNext

LEMMA CaptureStays ==
  ASSUME MessageRight, UNCHANGED captureVars
  PROVE  MessageRight'
<1>1. UNCHANGED <<started, seen, file, datagrams, cnt, next, packet_lengths, begin, end,
                  place, flag, printed, captureMode>>
  BY DEF captureVars, dump, found, spelled
<1>2. CaptureTypeOK'
  BY <1>1 DEF MessageRight, CaptureTypeOK, Number, Plain, Missing, Garbage
<1>3. InFile' = InFile
  BY <1>1 DEF InFile
<1> QED BY <1>1, <1>2, <1>3, SpelledStays DEF MessageRight

LEMMA CaptureStart == CaptureInit => MessageRight
<1> SUFFICES ASSUME CaptureInit PROVE MessageRight
  OBVIOUS
<1>1. /\ started = FALSE /\ seen = <<>> /\ file = -1 /\ datagrams = 0 /\ cnt = 0 /\ next = 0
      /\ packet_lengths = [s \in 0..Last |-> 0] /\ begin = 0 /\ end = 0
      /\ place = 0 /\ flag = <<>> /\ printed = <<>> /\ captureMode = "hello"
  BY DEF CaptureInit
<1>2. seen \in Seq(Number \cup {Plain}) /\ Len(seen) = 0
  BY <1>1
<1>3. packet_lengths \in [0..Last -> Nat \cup {Missing}]
  BY <1>1
<1>4. {flag, printed} \subseteq Seq(Nat \cup {Garbage})
  BY <1>1
<1>5. datagrams \in 0..MaxSent /\ file \in -1..Len(seen) /\ cnt \in 0..Enough /\ next \in 0..Len(seen)
  BY <1>1, <1>2, CaptureNumbers
<1>6. begin \in 0..Last /\ end \in 0..Last /\ place \in 0..Last
  BY <1>1, CaptureNumbers
<1>7. CaptureTypeOK
  BY <1>1, <1>2, <1>3, <1>4, <1>5, <1>6 DEF CaptureTypeOK
<1>8. Untouched /\ FoundIsSet /\ LoopEnds /\ FlagIsMessage /\ PrintsInOrder
  BY <1>1 DEF Untouched, FoundIsSet, LoopEnds, FlagIsMessage, PrintsInOrder
<1> QED BY <1>7, <1>8 DEF MessageRight

\* The message is right, in whatever order, how often and how many of the datagrams
\* have come, and whenever tcpdump writes its file.
THEOREM MessageTakenRight == CaptureSpec => []MessageRight
<1>1. MessageRight /\ [CaptureNext]_captureVars => MessageRight'
  BY CaptureStep, CaptureStays
<1> QED BY <1>1, CaptureStart, PTL DEF CaptureSpec

\* The same beside the other programs.
THEOREM LabsMessageRight == LabsSpec => []MessageRight
<1>1. LabsInit => MessageRight
  BY CaptureStart DEF LabsInit
<1>2. MessageRight /\ [LabsNext]_labsVars => MessageRight'
  <2> SUFFICES ASSUME MessageRight, [LabsNext]_labsVars PROVE MessageRight'
    OBVIOUS
  <2>1. CASE CaptureRuns
    BY <2>1, CaptureStep DEF CaptureRuns
  <2>2. CASE ~CaptureRuns /\ [LabsNext]_labsVars
    <3>1. UNCHANGED captureVars
      BY <2>2 DEF LabsNext, ExploreRuns, CodecRuns, MazeRuns, RoomRuns, OtpRuns,
                  VerifyRuns, BlocksRun, MeterRuns, labsVars
    <3> QED BY <3>1, CaptureStays
  <2> QED BY <2>1, <2>2
<1> QED BY <1>1, <1>2, PTL DEF LabsSpec

-----------------------------------------------------------------------------
\* lab2/all.c

SourceOK ==
  /\ data \in Seq(Bit) /\ Size \in Nat /\ Size >= 2
  /\ cuts \subseteq Nat /\ \A o \in cuts : o < Size
  /\ 0 \in cuts

LEMMA SourceTyped ==
  ASSUME BlocksTypeOK
  PROVE  SourceOK
<1>1. data \in Seq(Bit) /\ Size >= Shortest /\ cuts \subseteq 0..Size-1 /\ 0 \in cuts
  BY DEF BlocksTypeOK
<1>2. Size \in Nat
  BY <1>1, LenProperties DEF Size
<1> HIDE DEF Size
<1>3. Size >= 2
  BY <1>1, <1>2, BoundAssumption
<1>4. cuts \subseteq Nat /\ \A o \in cuts : o < Size
  BY <1>1, <1>2
<1> QED BY <1>1, <1>2, <1>3, <1>4 DEF SourceOK

\* A block ends where the next one begins.
LEMMA NextCut ==
  ASSUME SourceOK, NEW o \in cuts
  PROVE  /\ End(o) \in cuts \cup {Size} /\ End(o) \in Nat /\ o < End(o) /\ End(o) <= Size
         /\ \A e \in cuts : e <= o \/ End(o) <= e
<1>1. /\ Size \in Nat /\ cuts \subseteq Nat /\ o \in Nat /\ o < Size
      /\ \A e \in cuts : e \in Nat /\ e < Size
  BY DEF SourceOK
<1> DEFINE later == {e \in cuts \cup {Size} : e > o}
<1>2. later \subseteq Nat /\ later # {}
  BY <1>1
<1>3. PICK e \in later : \A d \in later : e <= d
  <2>1. \E e \in later : \A d \in later : ~ (<<d, e>> \in OpToRel(<, Nat))
    BY <1>2, WFMin, NatLessThanWellFounded
  <2>2. \A p, q \in Nat : p < q => <<p, q>> \in OpToRel(<, Nat)
    BY DEF OpToRel
  <2>3. \A p, q \in Nat : ~(p < q) => q <= p
    OBVIOUS
  <2> QED BY <1>2, <2>1, <2>2, <2>3
<1>4. /\ e \in cuts \cup {Size} /\ e > o /\ e \in Nat
      /\ \A d \in cuts : d <= o \/ d >= e
  BY <1>1, <1>2, <1>3
<1>5. \E d \in cuts \cup {Size} : d > o /\ \A c_ \in cuts : c_ <= o \/ c_ >= d
  BY <1>4
<1>6. /\ End(o) \in cuts \cup {Size} /\ End(o) > o
      /\ \A d \in cuts : d <= o \/ d >= End(o)
  BY <1>5 DEF End
<1>7. End(o) \in Nat /\ End(o) <= Size
  <2>1. CASE End(o) \in cuts
    <3>1. End(o) \in Nat /\ End(o) < Size
      BY <1>1, <2>1
    <3> QED BY <1>1, <3>1
  <2>2. CASE End(o) = Size
    <3>1. Size \in Nat
      BY <1>1
    <3> HIDE DEF Size
    <3> QED BY <2>2, <3>1
  <2> QED BY <1>6, <2>1, <2>2
<1> QED BY <1>1, <1>6, <1>7

Span(o) == o+1..End(o)

LEMMA SpansApart ==
  ASSUME SourceOK, NEW o \in cuts, NEW e \in cuts, o # e
  PROVE  Span(o) \cap Span(e) = {}
<1>1. o \in Nat /\ e \in Nat
  BY DEF SourceOK
<1>2. /\ End(o) \in Nat /\ End(e) \in Nat /\ o < End(o) /\ e < End(e)
      /\ e <= o \/ End(o) <= e
      /\ o <= e \/ End(e) <= o
  BY NextCut
<1> QED BY <1>1, <1>2 DEF Span

LEMMA IntactParts ==
  ASSUME SourceOK, NEW o \in cuts, NEW n \in Nat, o + n = End(o)
  PROVE  /\ Intact(o).offset = o
         /\ Intact(o).payload \in Seq(Bit) /\ Len(Intact(o).payload) = n
         /\ \A k \in 1..n : Intact(o).payload[k] = data[o+k]
         /\ Intact(o) \in Block
<1>1. o \in Nat /\ data \in Seq(Bit) /\ o + n <= Len(data)
  BY NextCut DEF SourceOK, Size
<1> DEFINE sub == SubSeq(data, o+1, o+n)
<1>2. /\ sub \in Seq(Bit) /\ Len(sub) = n
      /\ \A k \in 1..n : sub[k] = data[o+k]
  BY <1>1, PartProperties
<1> HIDE DEF sub
<1>3. Intact(o) = [offset |-> o, payload |-> sub]
  BY DEF Intact, sub
<1>4. Intact(o).offset = o /\ Intact(o).payload = sub
  BY <1>3
<1>5. Intact(o) \in Block
  BY <1>1, <1>2, <1>3 DEF Block
<1> QED BY <1>2, <1>4, <1>5

LEMMA BlockLength ==
  ASSUME SourceOK, NEW o \in cuts
  PROVE  \E n \in Nat : o + n = End(o) /\ n >= 1
<1>1. o \in Nat /\ End(o) \in Nat /\ o < End(o)
  BY NextCut DEF SourceOK
<1>2. End(o) - o \in Nat /\ o + (End(o) - o) = End(o) /\ End(o) - o >= 1
  BY <1>1
<1> QED BY <1>2

\* A block with one bit turned over is told from an intact one.
Ones(s, k) == {l \in 1..Len(s) : l >= k /\ (l - k) % 2 = 0 /\ s[l] = 1}

LEMMA FlippedBitShows ==
  ASSUME NEW p \in Seq(Bit), NEW k \in 1..Len(p)
  PROVE  Results([p EXCEPT ![k] = 1 - @]) # Cksum(p)
<1>1. Len(p) \in Nat /\ p[k] \in Bit
  BY LenProperties, ElementOfSeq
<1> DEFINE q == [p EXCEPT ![k] = 1 - @]
<1>2. 1 - p[k] \in Bit /\ q = [p EXCEPT ![k] = 1 - p[k]]
  BY <1>1 DEF Bit
<1>3. q \in Seq(Bit) /\ Len(q) = Len(p)
  BY <1>2, ElementReplaced
<1>4. /\ q[k] = 1 - p[k]
      /\ \A l \in 1..Len(p) : l # k => q[l] = p[l]
  BY <1>1, <1>2
<1> HIDE DEF q
<1>5. PICK j \in {1, 2} : k >= j /\ (k - j) % 2 = 0
  BY <1>1
<1>6. IsFiniteSet(Ones(p, j)) /\ Cardinality(Ones(p, j)) \in Nat
  <2>1. IsFiniteSet(1..Len(p))
    BY <1>1, FS_Interval
  <2>2. Ones(p, j) \in SUBSET (1..Len(p))
    BY DEF Ones
  <2> QED BY <2>1, <2>2, FS_Subset, FS_CardinalityType
<1>7. CASE p[k] = 1
  <2>1. k \in Ones(p, j)
    BY <1>5, <1>7 DEF Ones
  <2>2. Ones(q, j) = Ones(p, j) \ {k}
    <3>1. \A l \in 1..Len(p) : q[l] = 1 <=> p[l] = 1 /\ l # k
      BY <1>4, <1>7
    <3> QED BY <1>3, <3>1 DEF Ones
  <2>3. Cardinality(Ones(q, j)) = Cardinality(Ones(p, j)) - 1
    BY <1>6, <2>1, <2>2, FS_RemoveElement
  <2>4. Cardinality(Ones(q, j)) % 2 # Cardinality(Ones(p, j)) % 2
    BY <1>6, <2>3
  <2>5. Xor(q, j) # Xor(p, j)
    BY <2>4 DEF Xor, Ones
  <2> QED BY <1>5, <2>5 DEF Results, Cksum, q
<1>8. CASE p[k] = 0
  <2>1. k \notin Ones(p, j)
    BY <1>8 DEF Ones
  <2>2. Ones(q, j) = Ones(p, j) \cup {k}
    <3>1. \A l \in 1..Len(p) : q[l] = 1 <=> p[l] = 1 \/ l = k
      BY <1>4, <1>8
    <3> QED BY <1>3, <1>5, <3>1 DEF Ones
  <2>3. Cardinality(Ones(q, j)) = Cardinality(Ones(p, j)) + 1
    BY <1>6, <2>1, <2>2, FS_AddElement
  <2>4. Cardinality(Ones(q, j)) % 2 # Cardinality(Ones(p, j)) % 2
    BY <1>6, <2>3
  <2>5. Xor(q, j) # Xor(p, j)
    BY <2>4 DEF Xor, Ones
  <2> QED BY <1>5, <2>5 DEF Results, Cksum, q
<1> QED BY <1>1, <1>7, <1>8 DEF Bit

\* While no two are Half or more apart, the difference of two offsets as an int is
\* their difference.
LEMMA DifferenceFits ==
  ASSUME NEW x \in Nat, NEW y \in Nat, x - y < Half, y - x < Half
  PROVE  Signed((x - y) % (2 * Half)) = x - y
<1>1. Half \in Nat
  BY BoundAssumption
<1>2. PICK m \in Nat : m = 2 * Half /\ m > 0
  BY <1>1
<1>3. CASE y <= x
  <2>1. (x - y) % m = x - y
    BY <1>1, <1>2, <1>3
  <2>2. ~(x - y >= Half)
    BY <1>1
  <2> QED BY <1>2, <2>1, <2>2 DEF Signed
<1>4. CASE x < y
  <2>1. (x - y) % m = x - y + m
    BY <1>1, <1>2, <1>4
  <2>2. x - y + m >= Half /\ (x - y + m) - m = x - y
    BY <1>1, <1>2
  <2> QED BY <1>2, <2>1, <2>2 DEF Signed
<1> QED BY <1>3, <1>4

-----------------------------------------------------------------------------
\* The offset of the k-th block in the array.
Offset(k) == good[k].offset

\* FlagRight in parts.
BlocksKnown(n) ==
  /\ BlocksTypeOK /\ SourceOK /\ n \in Nat /\ n = Len(good)
  /\ copied \in Nat /\ copied <= n
  /\ \A k \in 1..n : Offset(k) \in cuts /\ good[k] = Intact(Offset(k))
  /\ \A k, l \in 1..n : Offset(k) = Offset(l) => k = l

LEMMA KnownBlocks ==
  ASSUME FlagRight
  PROVE  \E n \in Nat : BlocksKnown(n)
<1>1. BlocksTypeOK /\ SourceOK
  BY SourceTyped DEF FlagRight
<1>2. PICK n \in Nat : n = Len(good)
  BY <1>1, LenProperties DEF BlocksTypeOK
<1>3. copied \in Nat /\ copied <= n
  BY <1>1, <1>2 DEF BlocksTypeOK
<1>4. /\ \A k \in 1..n : Offset(k) \in cuts /\ good[k] = Intact(Offset(k))
      /\ \A k, l \in 1..n : Offset(k) = Offset(l) => k = l
  BY <1>2 DEF FlagRight, KeepsIntact, Offset
<1> QED BY <1>1, <1>2, <1>3, <1>4 DEF BlocksKnown

\* What is kept by a step that leaves the array alone.
SameBlocks == UNCHANGED <<data, cuts, unread, good>>

LEMMA SameSource ==
  ASSUME UNCHANGED <<data, cuts>>
  PROVE  Size' = Size /\ Near' = Near /\ (\A o : End(o)' = End(o) /\ Intact(o)' = Intact(o))
<1>1. Size' = Size
  BY DEF Size
<1>2. \A o : End(o)' = End(o)
  BY <1>1 DEF End
<1>3. \A o : Intact(o)' = Intact(o)
  BY <1>2 DEF Intact
<1>4. Near' = Near
  BY DEF Near
<1> QED BY <1>1, <1>2, <1>3, <1>4

LEMMA StillIntact ==
  ASSUME FlagRight, SameBlocks
  PROVE  KeepsIntact'
<1>1. \A o : Intact(o)' = Intact(o)
  BY SameSource DEF SameBlocks
<1> QED BY <1>1 DEF SameBlocks, FlagRight, KeepsIntact

LEMMA StillTaken ==
  ASSUME UNCHANGED <<data, cuts, good, copied>>
  PROVE  Taken' = Taken
<1>1. Size' = Size /\ \A o : End(o)' = End(o)
  BY SameSource
<1> QED BY <1>1 DEF Taken

\* Nothing is copied while blocks are read.
LEMMA NoneTaken ==
  ASSUME copied = 0
  PROVE  Taken = {} /\ Cardinality(Taken) = 0
<1>1. 1..copied = {}
  OBVIOUS
<1> QED BY <1>1, FS_EmptySet DEF Taken

LEMMA ReadingStep ==
  ASSUME FlagRight, NEW o \in cuts, ReadIntact(o) \/ ReadDamaged(o)
  PROVE  FlagRight'
<1>1. PICK n \in Nat : BlocksKnown(n)
  BY KnownBlocks
<1>2. /\ UNCHANGED <<data, cuts, short, copied, all, currentOffset, asked, out, blocksMode>>
      /\ unread' \subseteq cuts /\ damaged' \in 0..Damages
  <2>1. damaged \in 0..Damages /\ unread \subseteq cuts /\ Damages \in Nat
    BY BoundAssumption DEF FlagRight, BlocksTypeOK
  <2>2. CASE ReadIntact(o)
    BY <2>1, <2>2 DEF ReadIntact, source
  <2>3. CASE ReadDamaged(o)
    BY <2>1, <2>3 DEF ReadDamaged, source
  <2> QED BY <2>2, <2>3
<1>3. blocksMode = "blocks" /\ copied = 0 /\ currentOffset = 0
  BY NoneTaken DEF FlagRight, Copying, ReadIntact, ReadDamaged
<1>4. Size' = Size /\ Near' = Near /\ (\A e : End(e)' = End(e) /\ Intact(e)' = Intact(e))
  BY <1>2, SameSource
<1>5. PICK m \in Nat : o + m = End(o)
  BY <1>1, BlockLength DEF BlocksKnown
<1>6. /\ Intact(o).offset = o /\ Intact(o).payload \in Seq(Bit)
      /\ Intact(o) \in Block
  BY <1>1, <1>5, IntactParts DEF BlocksKnown
<1>7. good \in Seq(Block) /\ n = Len(good)
  BY <1>1 DEF BlocksKnown, BlocksTypeOK
<1>8. /\ good' \in Seq(Block) /\ KeepsIntact'
  <2>1. CASE ReadIntact(o)
    <3>1. o \in unread /\ unread' = unread \ {o} /\ good' = Append(good, Intact(o))
      BY <1>2, <2>1 DEF ReadIntact, Keep, Results, Cksum
    <3>2. /\ good' \in Seq(Block) /\ Len(good') = n + 1 /\ good'[n+1] = Intact(o)
          /\ \A k \in 1..n : good'[k] = good[k]
      BY <1>6, <1>7, <3>1, AppendProperties
    <3>3. 1..n+1 = (1..n) \cup {n+1}
      OBVIOUS
    <3>4. {Offset(k) : k \in 1..n} = cuts \ unread
      BY <1>7 DEF FlagRight, KeepsIntact, Offset
    <3>5. \A k \in 1..n : Offset(k) # o
      BY <3>1, <3>4
    <3>6. (\A k \in 1..n : good'[k].offset = Offset(k)) /\ good'[n+1].offset = o
      BY <1>6, <3>2 DEF Offset
    <3>7. \A k \in 1..n+1 : good'[k].offset \in cuts /\ good'[k] = Intact(good'[k].offset)
      BY <1>1, <3>2, <3>3, <3>6 DEF BlocksKnown
    <3>8. \A k, l \in 1..n+1 : good'[k].offset = good'[l].offset => k = l
      BY <1>1, <3>3, <3>5, <3>6 DEF BlocksKnown
    <3>9. {good'[k].offset : k \in 1..n+1} = cuts \ unread'
      <4>1. {good'[k].offset : k \in 1..n+1} = {good'[k].offset : k \in 1..n} \cup {good'[n+1].offset}
        BY <3>3
      <4>2. {good'[k].offset : k \in 1..n} = {Offset(k) : k \in 1..n}
        BY <3>6
      <4>3. cuts \ unread' = (cuts \ unread) \cup {o}
        BY <3>1
      <4> QED BY <3>4, <3>6, <4>1, <4>2, <4>3
    <3> QED BY <1>2, <1>4, <3>2, <3>7, <3>8, <3>9 DEF KeepsIntact
  <2>2. CASE ReadDamaged(o)
    <3>1. good' = good /\ unread' = unread
      <4> DEFINE p == Intact(o).payload
      <4>1. PICK k \in 1..Len(p) : Keep([offset |-> o, payload |-> [p EXCEPT ![k] = 1 - @]], p)
        BY <2>2 DEF ReadDamaged
      <4>2. Results([p EXCEPT ![k] = 1 - @]) # Cksum(p)
        BY <1>6, FlippedBitShows
      <4> QED BY <2>2, <4>1, <4>2 DEF Keep, ReadDamaged
    <3> QED BY <1>2, <1>7, <3>1, StillIntact DEF SameBlocks
  <2> QED BY <2>1, <2>2
<1>9. Len(good') \in Nat /\ copied' \in 0..Len(good')
  BY <1>2, <1>3, <1>8, LenProperties
<1>10. BlocksTypeOK'
  BY <1>2, <1>4, <1>8, <1>9 DEF FlagRight, BlocksTypeOK, Block, Bit, Unset
<1>11. copied' = 0 /\ currentOffset' = 0 /\ blocksMode' = "blocks" /\ Cardinality(Taken') = 0
  <2>1. copied' = 0 /\ currentOffset' = 0
    BY <1>2, <1>3
  <2>2. Taken' = {}
    BY <2>1 DEF Taken
  <2> QED BY <1>2, <1>3, <2>1, <2>2, FS_EmptySet
<1>12. InOrder' /\ Copying' /\ PutTogether'
  BY <1>11 DEF InOrder, Copying, PutTogether
<1>13. Answers'
  BY <1>2 DEF FlagRight, Answers
<1> QED BY <1>8, <1>10, <1>11, <1>12, <1>13 DEF FlagRight

LEMMA PayloadShortStep ==
  ASSUME FlagRight, PayloadShort
  PROVE  FlagRight'
<1>1. /\ UNCHANGED <<data, cuts, unread, damaged, short, good, copied, all, currentOffset,
                     asked, out>>
      /\ blocksMode' = "failed"
  BY DEF PayloadShort, source
<1>2. Size' = Size
  BY <1>1, SameSource
<1>3. BlocksTypeOK'
  BY <1>1, <1>2 DEF FlagRight, BlocksTypeOK, Block, Bit, Unset
<1>4. KeepsIntact'
  BY <1>1, StillIntact DEF SameBlocks
<1>5. Taken' = Taken
  BY <1>1, StillTaken
<1>6. InOrder' /\ Copying' /\ PutTogether'
  BY <1>1, <1>5 DEF FlagRight, InOrder, Copying, PutTogether
<1>7. Answers'
  BY <1>1 DEF FlagRight, Answers
<1> QED BY <1>1, <1>3, <1>4, <1>6, <1>7 DEF FlagRight

\* The order qsort is given puts the offsets in theirs.
NotAfter(b, d)  == compareOffsets(b, d) <= 0
NotBehind(k, l) == NotAfter(good[k], good[l])

LEMMA NearOrders ==
  ASSUME NEW n \in Nat, BlocksKnown(n), Near, NEW k \in 1..n, NEW l \in 1..n
  PROVE  NotBehind(k, l) <=> Offset(k) <= Offset(l)
<1>1. Offset(k) \in cuts /\ Offset(l) \in cuts
  BY DEF BlocksKnown
<1>2. Offset(k) \in Nat /\ Offset(l) \in Nat
  BY <1>1 DEF BlocksKnown, SourceOK
<1>3. Offset(k) - Offset(l) < Half /\ Offset(l) - Offset(k) < Half
  BY <1>1 DEF Near
<1>4. Signed((Offset(k) - Offset(l)) % (2 * Half)) = Offset(k) - Offset(l)
  BY <1>2, <1>3, DifferenceFits
<1>5. compareOffsets(good[k], good[l]) = Signed((Offset(k) - Offset(l)) % (2 * Half))
  BY DEF compareOffsets, Offset
<1>6. PICK x \in Nat, y \in Nat : x = Offset(k) /\ y = Offset(l)
  BY <1>2
<1>7. compareOffsets(good[k], good[l]) = x - y
  BY <1>4, <1>5, <1>6
<1>8. NotBehind(k, l) <=> x - y <= 0
  BY <1>7 DEF NotBehind, NotAfter
<1>9. x - y <= 0 <=> x <= y
  OBVIOUS
<1> QED BY <1>6, <1>8, <1>9

LEMMA SortStep ==
  ASSUME FlagRight, Sort
  PROVE  FlagRight'
<1>1. PICK n \in Nat : BlocksKnown(n)
  BY KnownBlocks
<1>2. n = Len(good) /\ good \in Seq(Block)
  BY <1>1 DEF BlocksKnown, BlocksTypeOK
<1>3. PICK f \in [1..n -> 1..n] :
        /\ \A k, l \in 1..n : f[k] = f[l] => k = l
        /\ good' = [k \in 1..n |-> good[f[k]]]
        /\ Orders(good) => Sorted(good')
  <2>1. \A g \in [1..n -> 1..n] : DOMAIN g = 1..n
    OBVIOUS
  <2>2. \E f \in {g \in [1..n -> 1..n] : \A k, l \in DOMAIN g : g[k] = g[l] => k = l} :
          /\ good' = [k \in 1..n |-> good[f[k]]]
          /\ Orders(good) => Sorted(good')
    BY <1>2 DEF Sort
  <2>3. PICK f \in {g \in [1..n -> 1..n] : \A k, l \in DOMAIN g : g[k] = g[l] => k = l} :
          /\ good' = [k \in 1..n |-> good[f[k]]]
          /\ Orders(good) => Sorted(good')
    BY <2>2
  <2>4. f \in [1..n -> 1..n] /\ \A k, l \in 1..n : f[k] = f[l] => k = l
    BY <2>1, <2>3
  <2> QED BY <2>3, <2>4
<1>4. /\ UNCHANGED <<data, cuts, unread, damaged, copied, all, currentOffset, asked, out>>
      /\ blocksMode = "blocks" /\ blocksMode' = "copy"
      /\ short' \in BOOLEAN /\ (~short' => unread = {})
  BY DEF Sort, HeaderShort, source
<1>5. copied = 0 /\ currentOffset = 0
  BY <1>4, NoneTaken DEF FlagRight, Copying
<1>6. Size' = Size /\ Near' = Near /\ (\A e : End(e)' = End(e) /\ Intact(e)' = Intact(e))
  BY <1>4, SameSource
<1>7. ASSUME NEW k \in 1..n PROVE \E l \in 1..n : f[l] = k
  <2>1. IsFiniteSet(1..n)
    BY FS_Interval
  <2>2. f \in Injection(1..n, 1..n)
    BY <1>3 DEF Injection, IsInjective
  <2>3. f \in Surjection(1..n, 1..n)
    BY <2>1, <2>2, FS_Injection
  <2> QED BY <2>3 DEF Surjection
<1>8. good' \in Seq(Block) /\ Len(good') = n
  <2>1. \A k \in 1..n : good[f[k]] \in Block
    BY <1>2, <1>3, ElementOfSeq
  <2> QED BY <1>3, <2>1
<1>9. \A k \in 1..n : f[k] \in 1..n /\ good'[k] = good[f[k]] /\ good'[k].offset = Offset(f[k])
  BY <1>3 DEF Offset
<1>10. KeepsIntact'
  <2>1. \A k \in 1..n : good'[k].offset \in cuts /\ good'[k] = Intact(good'[k].offset)
    BY <1>1, <1>9 DEF BlocksKnown
  <2>2. \A k, l \in 1..n : good'[k].offset = good'[l].offset => k = l
    BY <1>1, <1>3, <1>9 DEF BlocksKnown
  <2>3. {good'[k].offset : k \in 1..n} = cuts \ unread
    <3>1. {Offset(k) : k \in 1..n} = cuts \ unread
      BY <1>2 DEF FlagRight, KeepsIntact, Offset
    <3>2. {good'[k].offset : k \in 1..n} = {Offset(k) : k \in 1..n}
      <4>1. ASSUME NEW k \in 1..n PROVE good'[k].offset \in {Offset(l) : l \in 1..n}
        BY <1>9
      <4>2. ASSUME NEW k \in 1..n PROVE Offset(k) \in {good'[l].offset : l \in 1..n}
        <5>1. PICK l \in 1..n : f[l] = k
          BY <1>7
        <5> QED BY <1>9, <5>1
      <4> QED BY <4>1, <4>2
    <3> QED BY <3>1, <3>2
  <2> QED BY <1>4, <1>6, <1>8, <2>1, <2>2, <2>3 DEF KeepsIntact
<1>11. Near => \A k, l \in 1..n : k < l => good'[k].offset < good'[l].offset
  <2> SUFFICES ASSUME Near, NEW k \in 1..n, NEW l \in 1..n, k < l
               PROVE  good'[k].offset < good'[l].offset
    OBVIOUS
  <2>1. \A x \in 1..n : Offset(x) \in Nat
    BY <1>1 DEF BlocksKnown, SourceOK
  <2>2. \A x, y \in 1..n : NotBehind(x, y) <=> Offset(x) <= Offset(y)
    BY <1>1, NearOrders
  <2>3. \A x, y, z \in 1..n :
          /\ NotBehind(x, y) /\ NotBehind(y, z) => NotBehind(x, z)
          /\ NotBehind(x, y) \/ NotBehind(y, x)
    <3> SUFFICES ASSUME NEW x \in 1..n, NEW y \in 1..n, NEW z \in 1..n
                 PROVE  /\ NotBehind(x, y) /\ NotBehind(y, z) => NotBehind(x, z)
                        /\ NotBehind(x, y) \/ NotBehind(y, x)
      OBVIOUS
    <3>1. Offset(x) \in Nat /\ Offset(y) \in Nat /\ Offset(z) \in Nat
      BY <2>1
    <3>2. /\ NotBehind(x, y) <=> Offset(x) <= Offset(y)
          /\ NotBehind(y, x) <=> Offset(y) <= Offset(x)
          /\ NotBehind(y, z) <=> Offset(y) <= Offset(z)
          /\ NotBehind(x, z) <=> Offset(x) <= Offset(z)
      BY <2>2
    <3>3. PICK p \in Nat : p = Offset(x)
      BY <3>1
    <3>4. PICK q \in Nat : q = Offset(y)
      BY <3>1
    <3>5. PICK r \in Nat : r = Offset(z)
      BY <3>1
    <3>6. (p <= q /\ q <= r => p <= r) /\ (p <= q \/ q <= p)
      OBVIOUS
    <3> QED BY <3>2, <3>3, <3>4, <3>5, <3>6
  <2>4. Orders(good)
    BY <1>2, <2>3 DEF Orders, NotBehind, NotAfter
  <2>5. NotAfter(good'[k], good'[l])
    BY <1>3, <1>8, <2>4 DEF Sorted, NotAfter
  <2>6. PICK x \in 1..n : x = f[k]
    BY <1>9
  <2>7. PICK y \in 1..n : y = f[l]
    BY <1>9
  <2>8. NotBehind(x, y)
    BY <1>9, <2>5, <2>6, <2>7 DEF NotBehind
  <2>9. Offset(x) <= Offset(y) /\ Offset(x) \in Nat /\ Offset(y) \in Nat
    BY <2>1, <2>2, <2>8
  <2>10. x # y
    BY <1>3, <2>6, <2>7
  <2>11. Offset(x) # Offset(y)
    BY <1>1, <2>10 DEF BlocksKnown
  <2>12. Offset(x) < Offset(y)
    BY <2>9, <2>11
  <2>13. good'[k].offset = Offset(x) /\ good'[l].offset = Offset(y)
    BY <1>9, <2>6, <2>7
  <2> QED BY <2>12, <2>13
<1>12. InOrder'
  BY <1>6, <1>8, <1>11 DEF InOrder
<1>13. BlocksTypeOK'
  BY <1>1, <1>4, <1>5, <1>6, <1>8 DEF FlagRight, BlocksTypeOK, Block, Bit, Unset
<1>14. copied' = 0 /\ currentOffset' = 0 /\ Cardinality(Taken') = 0
  <2>1. copied' = 0 /\ currentOffset' = 0
    BY <1>4, <1>5
  <2>2. Taken' = {}
    BY <2>1 DEF Taken
  <2> QED BY <2>1, <2>2, FS_EmptySet
<1>15. Copying' /\ PutTogether'
  BY <1>4, <1>14 DEF Copying, PutTogether
<1>16. Answers'
  BY <1>4 DEF FlagRight, Answers
<1> QED BY <1>4, <1>10, <1>12, <1>13, <1>15, <1>16 DEF FlagRight

\* The bytes of the block in place k.
SpanOf(k) == Span(Offset(k))

LEMMA TakenSpans ==
  ASSUME NEW n \in Nat, BlocksKnown(n)
  PROVE  /\ Taken = {p \in 1..Size : \E k \in 1..copied : p \in SpanOf(k)}
         /\ \A k \in 1..n : SpanOf(k) \subseteq 1..Size
<1>1. Taken = {p \in 1..Size : \E k \in 1..copied : p \in SpanOf(k)}
  BY DEF Taken, SpanOf, Span, Offset
<1>2. ASSUME NEW k \in 1..n PROVE SpanOf(k) \subseteq 1..Size
  <2>1. PICK o \in cuts : o = Offset(k)
    BY DEF BlocksKnown
  <2>2. SourceOK
    BY DEF BlocksKnown
  <2>3. o \in Nat /\ End(o) \in Nat /\ End(o) <= Size /\ Size \in Nat
    BY <2>2, NextCut DEF SourceOK
  <2> HIDE DEF Size
  <2>4. o+1..End(o) \subseteq 1..Size
    BY <2>3
  <2> QED BY <2>1, <2>4 DEF SpanOf, Span
<1> QED BY <1>1, <1>2

\* A block is copied after those before it, in room of its own.
LEMMA RoomForBlock ==
  ASSUME FlagRight, NEW n \in Nat, BlocksKnown(n), copied < n,
         NEW m \in Nat, Offset(copied+1) + m = End(Offset(copied+1))
  PROVE  /\ Taken \cap SpanOf(copied+1) = {}
         /\ IsFiniteSet(Taken \cup SpanOf(copied+1))
         /\ Cardinality(Taken \cup SpanOf(copied+1)) = currentOffset + m
         /\ currentOffset + m <= Size
<1>1. copied \in Nat /\ SourceOK /\ Size \in Nat
  BY DEF BlocksKnown, SourceOK
<1>2. PICK s \in 1..n : s = copied + 1
  BY <1>1
<1>3. PICK o \in cuts : o = Offset(s)
  BY DEF BlocksKnown
<1>4. o \in Nat /\ o + m = End(o)
  BY <1>1, <1>2, <1>3 DEF SourceOK
<1>5. /\ Taken = {p \in 1..Size : \E k \in 1..copied : p \in SpanOf(k)}
      /\ SpanOf(s) \subseteq 1..Size
  BY TakenSpans
<1>6. Taken \cap SpanOf(s) = {}
  <2> SUFFICES ASSUME NEW p \in Taken, p \in SpanOf(s) PROVE FALSE
    OBVIOUS
  <2>1. PICK k \in 1..copied : p \in SpanOf(k)
    BY <1>5
  <2>2. k \in 1..n /\ k # s
    BY <1>1, <1>2
  <2>3. Offset(k) \in cuts /\ Offset(k) # Offset(s)
    BY <1>2, <2>2 DEF BlocksKnown
  <2>4. Span(Offset(k)) \cap Span(o) = {}
    BY <1>1, <1>3, <2>3, SpansApart
  <2> QED BY <1>3, <2>1, <2>4 DEF SpanOf
<1>7. SpanOf(s) = o+1..o+m
  BY <1>3, <1>4 DEF SpanOf, Span
<1>8. IsFiniteSet(1..Size) /\ Cardinality(1..Size) = Size
  <2>1. \A x \in Nat : IsFiniteSet(1..x) /\ Cardinality(1..x) = x
    <3> SUFFICES ASSUME NEW x \in Nat PROVE IsFiniteSet(1..x) /\ Cardinality(1..x) = x
      OBVIOUS
    <3>1. IsFiniteSet(1..x) /\ Cardinality(1..x) = IF 1 > x THEN 0 ELSE x - 1 + 1
      BY FS_Interval
    <3> QED BY <3>1
  <2> QED BY <1>1, <2>1
<1>9. IsFiniteSet(SpanOf(s)) /\ Cardinality(SpanOf(s)) = m
  <2>1. o+1 \in Int /\ o+m \in Int
    BY <1>4
  <2>2. /\ IsFiniteSet((o+1)..(o+m))
        /\ Cardinality((o+1)..(o+m)) = IF o+1 > o+m THEN 0 ELSE (o+m) - (o+1) + 1
    BY <2>1, FS_Interval
  <2>3. (IF o+1 > o+m THEN 0 ELSE (o+m) - (o+1) + 1) = m
    BY <1>4
  <2> QED BY <1>7, <2>2, <2>3
<1>10. IsFiniteSet(Taken) /\ Taken \subseteq 1..Size
  <2>1. Taken \in SUBSET (1..Size)
    BY <1>5
  <2> QED BY <1>8, <2>1, FS_Subset
<1>11. /\ IsFiniteSet(Taken \cup SpanOf(s))
       /\ Cardinality(Taken \cup SpanOf(s))
            = Cardinality(Taken) + Cardinality(SpanOf(s)) - Cardinality(Taken \cap SpanOf(s))
  BY <1>9, <1>10, FS_Union
<1>12. Cardinality(Taken \cap SpanOf(s)) = 0
  BY <1>6, FS_EmptySet
<1>13. Cardinality(Taken) = currentOffset /\ currentOffset \in Nat
  <2>1. Cardinality(Taken) = currentOffset
    BY DEF FlagRight, Copying
  <2> QED BY <2>1, <1>10, FS_CardinalityType
<1>14. Cardinality(Taken \cup SpanOf(s)) = currentOffset + m
  BY <1>9, <1>11, <1>12, <1>13
<1>15. Cardinality(Taken \cup SpanOf(s)) <= Size
  <2>1. Taken \cup SpanOf(s) \in SUBSET (1..Size)
    BY <1>5, <1>10
  <2> QED BY <1>8, <2>1, FS_Subset
<1> QED BY <1>2, <1>6, <1>11, <1>14, <1>15

\* When all the blocks were read and are in order, the next one begins where the
\* last one copied ends.
AllThere(n) ==
  /\ \A e \in cuts : \E k \in 1..n : Offset(k) = e
  /\ \A k, l \in 1..n : k < l => Offset(k) < Offset(l)

LEMMA BlocksAllThere ==
  ASSUME FlagRight, NEW n \in Nat, BlocksKnown(n),
         blocksMode \in {"copy", "flag", "done"}, ~short, Near
  PROVE  AllThere(n)
<1>1. unread = {} /\ n = Len(good)
  BY DEF FlagRight, Copying, BlocksKnown
<1>2. {Offset(k) : k \in 1..n} = cuts
  BY <1>1 DEF FlagRight, KeepsIntact, Offset
<1>3. \A k, l \in 1..n : k < l => Offset(k) < Offset(l)
  BY <1>1 DEF FlagRight, InOrder, Offset
<1> QED BY <1>2, <1>3 DEF AllThere

LEMMA NextBegins ==
  ASSUME NEW n \in Nat, BlocksKnown(n), AllThere(n), copied < n
  PROVE  Offset(copied+1) = IF copied = 0 THEN 0 ELSE End(Offset(copied))
<1>1. copied \in Nat /\ SourceOK /\ 0 \in cuts
  BY DEF BlocksKnown, SourceOK
<1>2. PICK s \in 1..n : s = copied + 1
  BY <1>1
<1>3. \A k \in 1..n : Offset(k) \in cuts /\ Offset(k) \in Nat /\ Offset(k) < Size
  BY <1>1 DEF BlocksKnown, SourceOK
<1>4. CASE copied = 0
  <2>1. PICK k \in 1..n : Offset(k) = 0
    BY <1>1 DEF AllThere
  <2>2. CASE k = s
    BY <1>2, <1>4, <2>1, <2>2
  <2>3. CASE s < k
    <3>1. Offset(s) < 0
      BY <2>1, <2>3 DEF AllThere
    <3>2. Offset(s) \in Nat
      BY <1>3
    <3> QED BY <3>1, <3>2
  <2>4. k = s \/ s < k
    BY <1>2, <1>4
  <2> QED BY <2>2, <2>3, <2>4
<1>5. CASE copied # 0
  <2>1. copied \in 1..n /\ copied < s
    BY <1>1, <1>2, <1>5
  <2>2. PICK q \in cuts : q = Offset(copied)
    BY <1>3, <2>1
  <2>3. PICK o \in cuts : o = Offset(s)
    BY <1>3
  <2>4. q \in Nat /\ o \in Nat /\ q < o /\ o < Size /\ Size \in Nat
    BY <1>1, <1>3, <2>1, <2>2, <2>3 DEF AllThere, SourceOK
  <2>5. /\ End(q) \in cuts \cup {Size} /\ End(q) \in Nat /\ q < End(q)
        /\ o <= q \/ End(q) <= o
    BY <1>1, NextCut
  <2>6. End(q) <= o
    BY <2>4, <2>5
  <2>7. End(q) \in cuts
    <3>1. End(q) # Size
      <4>1. ~(Size <= o)
        <5> HIDE DEF Size
        <5> QED BY <2>4
      <4> QED BY <2>6, <4>1
    <3> QED BY <2>5, <3>1
  <2>8. PICK k \in 1..n : Offset(k) = End(q)
    BY <2>7 DEF AllThere
  <2>9. ~(k <= copied)
    <3> SUFFICES ASSUME k <= copied PROVE FALSE
      OBVIOUS
    <3>1. CASE k = copied
      BY <2>2, <2>4, <2>5, <2>8, <3>1
    <3>2. CASE k < copied
      <4>1. Offset(k) < Offset(copied)
        BY <2>1, <3>2 DEF AllThere
      <4> QED BY <2>2, <2>4, <2>5, <2>8, <4>1
    <3> QED BY <1>1, <3>1, <3>2
  <2>10. o <= End(q)
    <3>1. CASE k = s
      BY <2>3, <2>4, <2>8, <3>1
    <3>2. CASE s < k
      <4>1. Offset(s) < Offset(k)
        BY <3>2 DEF AllThere
      <4> QED BY <2>3, <2>4, <2>5, <2>8, <4>1
    <3>3. k = s \/ s < k
      BY <1>1, <1>2, <2>9
    <3> QED BY <3>1, <3>2, <3>3
  <2>11. o = End(q)
    BY <2>4, <2>5, <2>6, <2>10
  <2> QED BY <1>2, <1>5, <2>2, <2>3, <2>11
<1> QED BY <1>4, <1>5

\* The last block ends with the data.
LEMMA LastEnds ==
  ASSUME NEW n \in Nat, BlocksKnown(n), AllThere(n)
  PROVE  n # 0 /\ End(Offset(n)) = Size
<1>1. SourceOK /\ 0 \in cuts
  BY DEF BlocksKnown, SourceOK
<1>2. n # 0 /\ n \in 1..n
  <2>1. PICK k \in 1..n : Offset(k) = 0
    BY <1>1 DEF AllThere
  <2> QED BY <2>1
<1>3. PICK q \in cuts : q = Offset(n)
  BY <1>2 DEF BlocksKnown
<1>4. q \in Nat /\ End(q) \in cuts \cup {Size} /\ End(q) \in Nat /\ q < End(q)
  BY <1>1, NextCut DEF SourceOK
<1>5. End(q) \notin cuts
  <2> SUFFICES ASSUME End(q) \in cuts PROVE FALSE
    OBVIOUS
  <2>1. PICK k \in 1..n : Offset(k) = End(q)
    BY DEF AllThere
  <2>2. CASE k = n
    BY <1>3, <1>4, <2>1, <2>2
  <2>3. CASE k < n
    <3>1. Offset(k) < Offset(n)
      BY <1>2, <2>3 DEF AllThere
    <3> QED BY <1>3, <1>4, <2>1, <3>1
  <2>4. k = n \/ k < n
    OBVIOUS
  <2> QED BY <2>2, <2>3, <2>4
<1> QED BY <1>2, <1>3, <1>4, <1>5

LEMMA CopyBlockStep ==
  ASSUME FlagRight, CopyBlock
  PROVE  FlagRight'
<1>1. PICK n \in Nat : BlocksKnown(n)
  BY KnownBlocks
<1>2. /\ n = Len(good) /\ copied \in Nat /\ SourceOK /\ Size \in Nat
      /\ data \in Seq(Bit)
  BY <1>1 DEF BlocksKnown, SourceOK
<1>3. copied < n /\ blocksMode = "copy" /\ copied' = copied + 1
  BY <1>2 DEF CopyBlock
<1>4. UNCHANGED <<data, cuts, unread, damaged, short, good, asked, out, blocksMode>>
  BY DEF CopyBlock, source
<1>5. Size' = Size /\ Near' = Near /\ (\A e : End(e)' = End(e) /\ Intact(e)' = Intact(e))
  BY <1>4, SameSource
<1>6. PICK s \in 1..n : s = copied + 1
  BY <1>2, <1>3
<1>7. PICK o \in cuts : o = Offset(s) /\ good[s] = Intact(o)
  BY <1>1 DEF BlocksKnown
<1>8. PICK m \in Nat : o + m = End(o)
  BY <1>2, BlockLength
<1>9. /\ Intact(o).payload \in Seq(Bit) /\ Len(Intact(o).payload) = m
      /\ \A k \in 1..m : Intact(o).payload[k] = data[o+k]
  BY <1>2, <1>8, IntactParts
<1>10. PICK b \in Seq(Bit) : b = Intact(o).payload
  BY <1>9
<1>11. Len(b) = m /\ \A k \in 1..m : b[k] = data[o+k] /\ b[k] \in Bit
  BY <1>9, <1>10, ElementOfSeq
<1>12. /\ all' = [k \in 1..Size |-> IF k \in currentOffset+1..currentOffset+m
                                    THEN b[k - currentOffset] ELSE all[k]]
       /\ currentOffset' = currentOffset + m
  BY <1>6, <1>7, <1>10, <1>11 DEF CopyBlock
<1>13. /\ Cardinality(Taken \cup SpanOf(s)) = currentOffset + m
       /\ currentOffset + m <= Size
  BY <1>1, <1>3, <1>6, <1>7, <1>8, RoomForBlock
<1>14. currentOffset \in Nat /\ all \in [1..Size -> Bit \cup {Unset}]
  BY DEF FlagRight, BlocksTypeOK
<1>15. Taken' = Taken \cup SpanOf(s)
  <2>1. /\ Taken = {p \in 1..Size : \E k \in 1..copied : p \in SpanOf(k)}
        /\ SpanOf(s) \subseteq 1..Size
    BY <1>1, TakenSpans
  <2>2. Taken' = {p \in 1..Size : \E k \in 1..s : p \in SpanOf(k)}
    <3>1. Taken' = {p \in 1..Size : \E k \in 1..s : p \in (good[k].offset+1)..End(good[k].offset)}
      BY <1>3, <1>4, <1>5, <1>6 DEF Taken
    <3> QED BY <3>1 DEF SpanOf, Span, Offset
  <2>3. 1..s = (1..copied) \cup {s}
    BY <1>2, <1>6
  <2> QED BY <2>1, <2>2, <2>3
<1>16. all' \in [1..Size -> Bit \cup {Unset}]
  <2>1. ASSUME NEW k \in 1..Size, k \in currentOffset+1..currentOffset+m
        PROVE  b[k - currentOffset] \in Bit
    <3>1. k - currentOffset \in 1..m
      BY <1>8, <1>14, <2>1
    <3> QED BY <1>11, <3>1
  <2>2. ASSUME NEW k \in 1..Size PROVE all[k] \in Bit \cup {Unset}
    BY <1>14
  <2> QED BY <1>12, <2>1, <2>2
<1>17. BlocksTypeOK'
  <2>1. copied' \in 0..Len(good')
    BY <1>2, <1>3, <1>4
  <2>2. currentOffset' \in 0..Size'
    <3>1. currentOffset + m \in Nat
      BY <1>8, <1>14
    <3> HIDE DEF Size
    <3> QED BY <1>2, <1>5, <1>12, <1>13, <3>1
  <2> QED BY <1>4, <1>5, <1>16, <2>1, <2>2 DEF FlagRight, BlocksTypeOK, Block, Bit, Unset
<1>18. KeepsIntact'
  BY <1>4, StillIntact DEF SameBlocks
<1>19. InOrder'
  BY <1>4, <1>5 DEF FlagRight, InOrder
<1>20. ASSUME ~short, Near
       PROVE  currentOffset' = End(o) /\ \A p \in 1..End(o) : all'[p] = data[p]
  <2>1. AllThere(n)
    BY <1>1, <1>3, <1>20, BlocksAllThere
  <2>2. o = IF copied = 0 THEN 0 ELSE End(Offset(copied))
    BY <1>1, <1>3, <1>6, <1>7, <2>1, NextBegins
  <2>3. /\ currentOffset = o
        /\ \A p \in 1..currentOffset : all[p] = data[p]
    BY <1>3, <1>20, <2>2 DEF FlagRight, Copying, Offset
  <2>4. currentOffset' = End(o)
    BY <1>8, <1>12, <2>3
  <2>5. o \in Nat /\ End(o) <= Size /\ End(o) \in Nat
    BY <1>2, NextCut DEF SourceOK
  <2>6. ASSUME NEW p \in 1..End(o) PROVE all'[p] = data[p]
    <3>1. p \in 1..Size
      <4> HIDE DEF Size
      <4> QED BY <1>2, <2>5
    <3>2. CASE p <= o
      <4>1. p \in 1..o /\ ~(p \in o+1..o+m)
        BY <2>5, <2>6, <3>2
      <4>2. all'[p] = all[p]
        BY <1>12, <2>3, <3>1, <4>1
      <4> QED BY <2>3, <4>1, <4>2
    <3>3. CASE o < p
      <4>1. p \in o+1..o+m /\ p - o \in 1..m /\ o + (p - o) = p
        BY <1>8, <2>5, <2>6, <3>3
      <4>2. all'[p] = b[p - o]
        BY <1>12, <2>3, <3>1, <4>1
      <4> QED BY <1>11, <4>1, <4>2
    <3> QED BY <2>5, <3>2, <3>3
  <2> QED BY <2>4, <2>6
<1>21. Copying'
  <2>1. currentOffset' = Cardinality(Taken')
    BY <1>12, <1>13, <1>15
  <2>2. blocksMode' = "copy" /\ (~short' => unread' = {})
    BY <1>3, <1>4 DEF FlagRight, Copying
  <2>3. ASSUME ~short', Near'
        PROVE  /\ currentOffset' = IF copied' = 0 THEN 0 ELSE End(good[copied].offset)'
               /\ \A p \in 1..currentOffset' : all'[p] = data'[p]
    <3>1. currentOffset' = End(o) /\ \A p \in 1..End(o) : all'[p] = data[p]
      BY <1>4, <1>5, <1>20, <2>3
    <3>2. copied' = s /\ copied' # 0 /\ good'[copied'].offset = o
      BY <1>2, <1>3, <1>4, <1>6, <1>7 DEF Offset
    <3> QED BY <1>4, <1>5, <3>1, <3>2
  <2> QED BY <2>1, <2>2, <2>3 DEF Copying
<1>22. PutTogether' /\ Answers'
  BY <1>3, <1>4 DEF FlagRight, PutTogether, Answers
<1> QED BY <1>3, <1>4, <1>17, <1>18, <1>19, <1>21, <1>22 DEF FlagRight

LEMMA ReadFlagStep ==
  ASSUME FlagRight, ReadFlag
  PROVE  FlagRight'
<1>1. PICK n \in Nat : BlocksKnown(n)
  BY KnownBlocks
<1>2. n = Len(good) /\ data \in Seq(Bit)
  BY <1>1 DEF BlocksKnown, SourceOK
<1>3. /\ UNCHANGED <<data, cuts, unread, damaged, short, good, copied, all, currentOffset,
                     asked, out>>
      /\ blocksMode = "copy" /\ copied = n
      /\ blocksMode' = IF short THEN "failed" ELSE "flag"
  BY <1>2 DEF ReadFlag, source
<1>4. Size' = Size /\ Near' = Near /\ (\A e : End(e)' = End(e) /\ Intact(e)' = Intact(e))
  BY <1>3, SameSource
<1>5. BlocksTypeOK'
  BY <1>3, <1>4 DEF FlagRight, BlocksTypeOK, Block, Bit, Unset
<1>6. KeepsIntact'
  BY <1>3, StillIntact DEF SameBlocks
<1>7. InOrder'
  BY <1>3, <1>4 DEF FlagRight, InOrder
<1>8. Taken' = Taken
  BY <1>3, StillTaken
<1>9. Copying'
  BY <1>2, <1>3, <1>4, <1>8 DEF FlagRight, Copying
<1>10. ASSUME ~short, Near PROVE all = data
  <2>1. AllThere(n)
    BY <1>1, <1>3, <1>10, BlocksAllThere
  <2>2. n # 0 /\ End(Offset(n)) = Size
    BY <1>1, <2>1, LastEnds
  <2>3. \A p \in 1..Size : all[p] = data[p]
    BY <1>3, <1>10, <2>2 DEF FlagRight, Copying, Offset
  <2>4. all \in [1..Size -> Bit \cup {Unset}]
    BY DEF FlagRight, BlocksTypeOK
  <2>5. data \in [1..Size -> Bit]
    BY <1>2, LenProperties DEF Size
  <2>6. all = [p \in 1..Size |-> all[p]] /\ data = [p \in 1..Size |-> data[p]]
    BY <2>4, <2>5
  <2>7. [p \in 1..Size |-> all[p]] = [p \in 1..Size |-> data[p]]
    BY <2>3
  <2> QED BY <2>6, <2>7
<1>11. PutTogether'
  BY <1>3, <1>4, <1>10 DEF PutTogether
<1>12. Answers'
  BY <1>3 DEF FlagRight, Answers
<1> QED BY <1>3, <1>5, <1>6, <1>7, <1>9, <1>11, <1>12 DEF FlagRight

LEMMA ReadOffsetStep ==
  ASSUME FlagRight, ReadOffset
  PROVE  FlagRight'
<1>1. /\ UNCHANGED <<data, cuts, unread, damaged, short, good, copied, all, currentOffset,
                     blocksMode>>
      /\ blocksMode = "flag"
  BY DEF ReadOffset, source
<1>2. PICK o \in 0..Size-2 : asked' = Append(asked, o) /\ out' = out \o <<all[o+1], all[o+2]>>
  BY DEF ReadOffset, BytesAt
<1>3. Size' = Size /\ Near' = Near /\ (\A e : End(e)' = End(e) /\ Intact(e)' = Intact(e))
  BY <1>1, SameSource
<1>4. SourceOK
  BY SourceTyped DEF FlagRight
<1>5. PICK z \in Nat : z = Size /\ z >= 2
  BY <1>4 DEF SourceOK
<1>6. /\ asked \in Seq(0..Size-2) /\ out \in Seq(Bit \cup {Unset})
      /\ all \in [1..Size -> Bit \cup {Unset}]
  BY DEF FlagRight, BlocksTypeOK
<1>7. PICK n \in Nat : n = Len(asked)
  BY <1>6, LenProperties
<1>8. Len(out) = 2 * n
  BY <1>7 DEF FlagRight, Answers
<1>9. o+1 \in 1..z /\ o+2 \in 1..z
  BY <1>2, <1>5
<1>10. PICK x \in Bit \cup {Unset} : x = all[o+1]
  BY <1>5, <1>6, <1>9
<1>11. PICK y \in Bit \cup {Unset} : y = all[o+2]
  BY <1>5, <1>6, <1>9
<1>12. /\ asked' \in Seq(0..Size-2) /\ Len(asked') = n + 1 /\ asked'[n+1] = o
       /\ \A k \in 1..n : asked'[k] = asked[k]
  BY <1>2, <1>6, <1>7, AppendProperties
<1>13. /\ <<x, y>> \in Seq(Bit \cup {Unset}) /\ Len(<<x, y>>) = 2
       /\ <<x, y>>[1] = x /\ <<x, y>>[2] = y
  OBVIOUS
<1>14. PICK two \in Seq(Bit \cup {Unset}) : two = <<x, y>> /\ Len(two) = 2 /\ two[1] = x /\ two[2] = y
  BY <1>13
<1>15. out' = out \o two
  BY <1>2, <1>10, <1>11, <1>14
<1>16. /\ out' \in Seq(Bit \cup {Unset}) /\ Len(out') = 2 * n + 2
       /\ \A k \in 1..2*n+2 : out'[k] = IF k <= 2*n THEN out[k] ELSE two[k - 2*n]
  <2>1. /\ out \o two \in Seq(Bit \cup {Unset}) /\ Len(out \o two) = Len(out) + Len(two)
        /\ \A k \in 1..Len(out) + Len(two) :
             (out \o two)[k] = IF k <= Len(out) THEN out[k] ELSE two[k - Len(out)]
    BY <1>6, <1>14, ConcatProperties
  <2> QED BY <1>8, <1>14, <1>15, <2>1
<1>17. out'[2*n+1] = x /\ out'[2*n+2] = y
  <2>1. /\ 2*n+1 \in 1..2*n+2 /\ 2*n+2 \in 1..2*n+2 /\ ~(2*n+1 <= 2*n) /\ ~(2*n+2 <= 2*n)
        /\ (2*n+1) - 2*n = 1 /\ (2*n+2) - 2*n = 2
    OBVIOUS
  <2> QED BY <1>14, <1>16, <2>1
<1>18. \A k \in 1..n : out'[2*k-1] = out[2*k-1] /\ out'[2*k] = out[2*k]
  <2> SUFFICES ASSUME NEW k \in 1..n PROVE out'[2*k-1] = out[2*k-1] /\ out'[2*k] = out[2*k]
    OBVIOUS
  <2>1. /\ 2*k-1 \in 1..2*n+2 /\ 2*k \in 1..2*n+2 /\ 2*k-1 <= 2*n /\ 2*k <= 2*n
    OBVIOUS
  <2> QED BY <1>16, <2>1
<1>19. ASSUME NEW k \in 1..n+1
       PROVE  out'[2*k-1] = all[asked'[k]+1] /\ out'[2*k] = all[asked'[k]+2]
  <2>1. CASE k \in 1..n
    <3>1. out[2*k-1] = all[asked[k]+1] /\ out[2*k] = all[asked[k]+2]
      BY <1>7, <2>1 DEF FlagRight, Answers
    <3> QED BY <1>12, <1>18, <2>1, <3>1
  <2>2. CASE k = n+1
    <3>1. 2*k-1 = 2*n+1 /\ 2*k = 2*n+2
      BY <2>2
    <3> QED BY <1>10, <1>11, <1>12, <1>17, <2>2, <3>1
  <2>3. k \in 1..n \/ k = n+1
    OBVIOUS
  <2> QED BY <2>1, <2>2, <2>3
<1>20. Answers'
  <2>1. Len(out') = 2 * (n + 1)
    BY <1>16
  <2> QED BY <1>1, <1>12, <1>19, <2>1 DEF Answers
<1>21. BlocksTypeOK'
  BY <1>1, <1>3, <1>12, <1>16 DEF FlagRight, BlocksTypeOK, Block, Bit, Unset
<1>22. KeepsIntact'
  BY <1>1, StillIntact DEF SameBlocks
<1>23. InOrder' /\ PutTogether'
  BY <1>1, <1>3 DEF FlagRight, InOrder, PutTogether
<1>24. Taken' = Taken
  BY <1>1, StillTaken
<1>25. Copying'
  BY <1>1, <1>3, <1>24 DEF FlagRight, Copying
<1> QED BY <1>1, <1>20, <1>21, <1>22, <1>23, <1>25 DEF FlagRight

LEMMA ReportStep ==
  ASSUME FlagRight, Report
  PROVE  FlagRight'
<1>1. /\ UNCHANGED <<data, cuts, unread, damaged, short, good, copied, all, currentOffset,
                     asked, out>>
      /\ blocksMode = "flag" /\ blocksMode' = "done"
  BY DEF Report, source
<1>2. Size' = Size /\ Near' = Near /\ (\A e : End(e)' = End(e) /\ Intact(e)' = Intact(e))
  BY <1>1, SameSource
<1>3. BlocksTypeOK'
  BY <1>1, <1>2 DEF FlagRight, BlocksTypeOK, Block, Bit, Unset
<1>4. KeepsIntact'
  BY <1>1, StillIntact DEF SameBlocks
<1>5. InOrder' /\ PutTogether'
  BY <1>1, <1>2 DEF FlagRight, InOrder, PutTogether
<1>6. Taken' = Taken
  BY <1>1, StillTaken
<1>7. Copying'
  BY <1>1, <1>2, <1>6 DEF FlagRight, Copying
<1>8. Answers'
  BY <1>1 DEF FlagRight, Answers
<1>9. Near => all = data
  BY <1>1 DEF FlagRight, PutTogether
<1>10. \A k \in 1..Len(asked) : out[2*k-1] = all[asked[k]+1] /\ out[2*k] = all[asked[k]+2]
  BY DEF FlagRight, Answers
<1>11. Near' => \A k \in 1..Len(asked') :
                  out'[2*k-1] = data'[asked'[k]+1] /\ out'[2*k] = data'[asked'[k]+2]
  BY <1>1, <1>2, <1>9, <1>10
<1> QED BY <1>3, <1>4, <1>5, <1>7, <1>8, <1>11 DEF FlagRight

LEMMA BlocksStep ==
  ASSUME FlagRight, BlocksNext
  PROVE  FlagRight'
BY ReadingStep, PayloadShortStep, SortStep, CopyBlockStep, ReadFlagStep, ReadOffsetStep,
   ReportStep DEF BlocksNext

LEMMA BlocksStay ==
  ASSUME FlagRight, UNCHANGED blocksVars
  PROVE  FlagRight'
<1>1. UNCHANGED <<data, cuts, unread, damaged, short, good, copied, all, currentOffset,
                  asked, out, blocksMode>>
  BY DEF blocksVars, source
<1>2. Size' = Size /\ Near' = Near /\ (\A e : End(e)' = End(e) /\ Intact(e)' = Intact(e))
  BY <1>1, SameSource
<1>3. BlocksTypeOK'
  BY <1>1, <1>2 DEF FlagRight, BlocksTypeOK, Block, Bit, Unset
<1>4. KeepsIntact'
  BY <1>1, StillIntact DEF SameBlocks
<1>5. InOrder' /\ PutTogether'
  BY <1>1, <1>2 DEF FlagRight, InOrder, PutTogether
<1>6. Taken' = Taken
  BY <1>1, StillTaken
<1>7. Copying'
  BY <1>1, <1>2, <1>6 DEF FlagRight, Copying
<1>8. Answers'
  BY <1>1 DEF FlagRight, Answers
<1> QED BY <1>1, <1>2, <1>3, <1>4, <1>5, <1>7, <1>8 DEF FlagRight

LEMMA BlocksStart == BlocksInit => FlagRight
<1> SUFFICES ASSUME BlocksInit PROVE FlagRight
  OBVIOUS
<1>1. /\ unread = cuts /\ damaged \in 0..Damages /\ short = FALSE
      /\ good = <<>> /\ copied = 0 /\ currentOffset = 0
      /\ asked = <<>> /\ out = <<>> /\ blocksMode = "blocks"
  BY DEF BlocksInit
<1>2. PICK n \in Shortest..MaxSize : data \in [1..n -> Bit]
  BY DEF BlocksInit
<1>3. n \in Nat /\ n >= 2 /\ n >= Shortest
  BY <1>2, BoundAssumption
<1>4. data \in Seq(Bit) /\ Len(data) = n
  BY <1>2, <1>3
<1>5. Size = n
  BY <1>4 DEF Size
<1>6. cuts \subseteq 0..n-1 /\ 0 \in cuts
  BY <1>5 DEF BlocksInit
<1>7. all = [k \in 1..n |-> Unset]
  BY <1>5 DEF BlocksInit
<1>8. all \in [1..n -> Bit \cup {Unset}]
  BY <1>7
<1>9. BlocksTypeOK
  <2>1. good \in Seq(Block) /\ Len(good) = 0 /\ asked \in Seq(0..n-2) /\ out \in Seq(Bit \cup {Unset})
    BY <1>1
  <2>2. copied \in 0..Len(good) /\ currentOffset \in 0..n
    BY <1>1, <1>3, <2>1
  <2> QED BY <1>1, <1>3, <1>4, <1>5, <1>6, <1>8, <2>1, <2>2 DEF BlocksTypeOK
<1>10. KeepsIntact
  <2>1. 1..Len(good) = {}
    BY <1>1
  <2> QED BY <1>1, <2>1 DEF KeepsIntact
<1>11. Copying
  <2>1. Cardinality(Taken) = 0
    BY <1>1, NoneTaken
  <2> QED BY <1>1, <2>1 DEF Copying
<1>12. InOrder /\ PutTogether
  BY <1>1 DEF InOrder, PutTogether
<1>13. Answers
  <2>1. Len(asked) = 0 /\ Len(out) = 0
    BY <1>1
  <2> QED BY <1>1, <2>1 DEF Answers
<1> QED BY <1>1, <1>9, <1>10, <1>11, <1>12, <1>13 DEF FlagRight

\* The flag has the bytes of the data, in whatever order the blocks come and with
\* whatever damaged ones between them, while no two are 2^31 or more apart.
THEOREM FlagTakenRight == BlocksSpec => []FlagRight
<1>1. FlagRight /\ [BlocksNext]_blocksVars => FlagRight'
  BY BlocksStep, BlocksStay
<1> QED BY <1>1, BlocksStart, PTL DEF BlocksSpec

\* The same beside the other programs.
THEOREM LabsFlagRight == LabsSpec => []FlagRight
<1>1. LabsInit => FlagRight
  BY BlocksStart DEF LabsInit
<1>2. FlagRight /\ [LabsNext]_labsVars => FlagRight'
  <2> SUFFICES ASSUME FlagRight, [LabsNext]_labsVars PROVE FlagRight'
    OBVIOUS
  <2>1. CASE BlocksRun
    BY <2>1, BlocksStep DEF BlocksRun
  <2>2. CASE ~BlocksRun /\ [LabsNext]_labsVars
    <3>1. UNCHANGED blocksVars
      BY <2>2 DEF LabsNext, ExploreRuns, CodecRuns, MazeRuns, RoomRuns, OtpRuns,
                  CaptureRuns, VerifyRuns, MeterRuns, labsVars
    <3> QED BY <3>1, BlocksStay
  <2> QED BY <2>1, <2>2
<1> QED BY <1>1, <1>2, PTL DEF LabsSpec
=============================================================================
