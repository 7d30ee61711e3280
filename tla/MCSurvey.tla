------------------------------ MODULE MCSurvey ------------------------------
(***************************************************************************)
(* Mazes that the ports divide and mazes that they do not, one with row    *)
(* labels of two digits.  A port of ten rows or columns by fewer than ten  *)
(* has a size of six characters; the last two have five and seven.         *)
(***************************************************************************)
EXTENDS Survey

SomeMazes == {<<2, 21>>, <<3, 10>>, <<12, 5>>, <<11, 11>>}
SomePorts == {<<1, 10>>, <<2, 11>>, <<10, 2>>, <<11, 1>>, <<2, 3>>, <<10, 10>>}
=============================================================================
