------------------------------ MODULE MCQueens ------------------------------
EXTENDS Queens

\* Outermost columns first, as in the source.
OutsideIn == [j \in 1..N |-> IF j % 2 = 1 THEN j \div 2 ELSE N - j \div 2]
=============================================================================
