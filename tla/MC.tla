---------------------------------- MODULE MC ----------------------------------
(***************************************************************************)
(* Model-checking instance of TransRecall: three files, two of them on the *)
(* same tape in reverse start-block order, one on a second tape; one empty *)
(* file so that the zero-byte path of recall() is taken.                   *)
(***************************************************************************)
EXTENDS TransRecall

CONSTANTS f1, f2, f3, t1, t2

MCFileTape == [f \in Files |-> IF f = f3 THEN t2 ELSE t1]
MCStartBlock == [f \in Files |-> IF f = f1 THEN 2 ELSE 1]
MCFileSize == [f \in Files |-> IF f = f2 THEN 0 ELSE 1]
=============================================================================
