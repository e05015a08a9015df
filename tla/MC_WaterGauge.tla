---------------------------- MODULE MC_WaterGauge ----------------------------
EXTENDS WaterGauge

\* A straightened image 12 columns wide and a cut 12 rows high.
Cols(S) == [i \in 1 .. 12 |-> IF i - 1 \in S THEN JUMP_COUNT ELSE 0]
Rows(S) == [i \in 1 .. 12 |-> i - 1 \in S]
Mark(w, h) == [w |-> w, h |-> h]

\* The gauge's columns 2 .. 9 (found, 9 wide); a gauge touching the left
\* border (left edge 0, taken as none); a strip 3 columns wide (-3).
MCJumps == {Cols(2 .. 9), Cols(0 .. 8), Cols(3 .. 5)}
\* No bright row; bright rows 2 and 8 (both cuts); bright row 1 only.
MCRows == {Rows({}), Rows({2, 8}), Rows({1})}
\* No mark; two marks of 6 x 2 (counted); two of 2 x 2 (noise).
MCMarks == {<<>>, <<Mark(6, 2), Mark(6, 2)>>, <<Mark(2, 2), Mark(2, 2)>>}

MCScenes == [gauge : BOOLEAN, tilt : BOOLEAN, sat : BOOLEAN,
             jumps : MCJumps, rows : MCRows, marks : MCMarks]
=============================================================================
