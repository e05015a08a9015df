------------------------------ MODULE MC_Litter ------------------------------
EXTENDS Litter

\* A contour found in the segment image: bounding box and centre (odd sizes,
\* so that the minAreaRect centre is a pixel).
Target(x, y, w, h) ==
  [box |-> [x |-> x, y |-> y, w |-> w, h |-> h], center |-> <<x + w \div 2, y + h \div 2>>]

\* A person of 11 x 31 and floaters of 11 x 11 (outlines of fewer than 100
\* points), a floater of 41 x 21 and a car of 41 x 21 (more than 100).
Person      == Target(101, 101, 11, 31)
NearFloater == Target(251, 101, 11, 11)   \* 150 from the person
FarFloater  == Target(451, 101, 11, 11)   \* 350 from the person
BigFloater  == Target(181, 101, 41, 21)   \* 95 from the person
Car         == Target(281, 101, 41, 21)   \* 195 from the person

Scene(p, f, c) == [people |-> p, floaters |-> f, cars |-> c]

MCScenes ==
  { Scene(<<>>, <<>>, <<>>),
    Scene(<<Person>>, <<NearFloater>>, <<>>),
    Scene(<<Person>>, <<FarFloater>>, <<Car>>),
    Scene(<<Person>>, <<BigFloater>>, <<>>) }

\* The private constructor's 3, and what the public one may leave behind.
MCFrameNumbers == {3, 0, 1, 7}
=============================================================================
