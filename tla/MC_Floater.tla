----------------------------- MODULE MC_Floater ------------------------------
EXTENDS Floater, Sequences

CONSTANTS f1

(* The water contours a segment image may show, in findContours order:     *)
(* none, one river, one of 51 .. 100 points, and a river before a smaller  *)
(* pool.  Each may hold the one floater or not, and the foreground may     *)
(* show a blob in the picked water or not.                                 *)
MCWaters == {<<>>, <<300>>, <<80>>, <<300, 120>>}
MCScenes == UNION {[waters : {w}, holds : [1 .. Len(w) -> {{}, {f1}}], mod : {0, 1}]
                   : w \in MCWaters}

\* The private constructor's 5, and what the public one may leave behind.
MCFrameNumbers == {5, 0, 1, 2, 3, 7, -3}
=============================================================================
