--------------------------- MODULE MC_Detectors ----------------------------
EXTENDS Detectors, Naturals, TLC

\* Channel values at and around getColor's V thresholds (30, 80, 180).
MCValues == {0, 30, 80, 180, 200, 255}
\* Pixels <<B, G, R>> whose hue is exactly 25, 85, 165, 205, 275 or 330,
\* and one whose saturation is exactly 0.4.
MCBoundary == {<<0, 50, 120>>, <<0, 120, 70>>, <<90, 120, 0>>, <<120, 70, 0>>,
               <<120, 0, 70>>, <<60, 0, 120>>, <<150, 150, 250>>}
\* A mask of n pixels of one colour.
Uniform(p, n) == p :> n
MCCorners == {0, 255} \X {0, 255} \X {0, 255}
\* Uniform masks just above getWaterColor's 100-pixel test, a few just at
\* it, and two-colour masks whose integer mean truncates.
MCScenes ==
  {Uniform(p, 101) : p \in (MCValues \X MCValues \X MCValues) \cup MCBoundary}
  \cup {Uniform(p, 100) : p \in MCBoundary}
  \cup
  {Uniform(pq[1], 1) @@ Uniform(pq[2], 100) :
     pq \in {pq \in MCCorners \X MCCorners : pq[1] # pq[2]}}

Box(x, y, w, h) == [x |-> x, y |-> y, w |-> w, h |-> h]
\* Two regions of interest, [0, 2) x [0, 2) and [1, 3) x [1, 3), that
\* overlap, so a person can cross both.
MCRois == <<Box(0, 0, 2, 2), Box(1, 1, 2, 2)>>
\* Person boxes against them: inside both, of size 0, containing both,
\* starting on the far edge of the first or of the second, in the first
\* only, touching the second at a corner or a side only, clear of both.
MCBoxes == {Box(1, 1, 1, 1), Box(1, 1, 0, 0), Box(0, 0, 3, 3),
            Box(2, 2, 1, 1), Box(3, 1, 1, 1), Box(0, 2, 1, 1),
            Box(3, 3, 1, 1), Box(3, 0, 1, 1), Box(0, 3, 1, 1),
            Box(3, 3, 0, 0), Box(5, 0, 1, 1)}
\* Every single person, and every pair of three (order and duplicates).
MCPairBoxes == {Box(1, 1, 1, 1), Box(0, 2, 1, 1), Box(5, 0, 1, 1)}
MCPeople == {<<>>} \cup {<<b>> : b \in MCBoxes}
            \cup {<<b, c>> : b, c \in MCPairBoxes}
=============================================================================
