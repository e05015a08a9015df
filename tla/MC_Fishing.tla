---------------------------- MODULE MC_Fishing -----------------------------
EXTENDS Fishing

\* A target of the segment image: a bounding box and its centre.
Target(x, y, w, h) == [box |-> Rect(x, y, w, h), center |-> <<x + w \div 2, y + h \div 2>>,
                       bg |-> {}, bin |-> {}]
\* 720p and 1080p cameras.
MCSizes == {<<1280, 720>>, <<1920, 1080>>}
\* One stretch of water, centred at (256, 300).
MCRiver == Target(100, 200, 312, 200)
\* People left of it, right of it far and near (the rod region then starts
\* at the river), wide and narrow, and one on the image border.
MCPersons == {Target(50, 100, 40, 80), Target(400, 100, 40, 80),
              Target(200, 100, 120, 80), Target(150, 100, 300, 80),
              Target(0, 100, 40, 80), Target(480, 400, 30, 100)}
(* White pixels of the two regions (x right, y down): a line rising to the *)
(* right at 45 degrees, one falling at 45, a steep falling one (-88.2      *)
(* degrees), and a vertical one.                                           *)
Rising == {<<10, 13>>, <<11, 12>>, <<12, 11>>, <<13, 10>>}
Falling == {<<10, 10>>, <<11, 11>>, <<12, 12>>, <<13, 13>>}
Steep == {<<10, 10>>, <<10, 30>>, <<11, 45>>, <<11, 60>>}
Upright == {<<10, 10>>, <<10, 11>>, <<10, 12>>}
\* The foreground line and the rod-region line of a person.
MCLines == {<<Steep, Falling>>, <<Steep, Rising>>, <<Rising, Falling>>, <<Upright, Steep>>}
MCScenes ==
  {[src |-> z, people |-> <<[p EXCEPT !.bg = l[1], !.bin = l[2]]>>, rivers |-> <<MCRiver>>]
     : z \in MCSizes, p \in MCPersons, l \in MCLines}
  \cup {[src |-> z, people |-> <<>>, rivers |-> <<MCRiver>>] : z \in MCSizes}
=============================================================================
