------------------------------ MODULE MC_RcFile ------------------------------
EXTENDS RcFile, FiniteSets

CONSTANTS a, b, c, build, test, w1, w2

(* The lines a file may hold: a comment, a malformed import, an import of  *)
(* b or of the root a, and option lines of one and of two words.           *)
MCLines == {Blank, BadImport, Import(b), Import(a),
            Option(build, <<w1>>), Option(test, <<w1, w2>>)}
\* Files of at most two lines.
MCFile == {<<>>} \cup {<<l>> : l \in MCLines} \cup {<<l, m>> : l, m \in MCLines}
(* The root a and b with up to two lines each, and c, which is imported    *)
(* only by name: it is unreadable or empty.                                *)
MCConfigs ==
  {(a :> fa) @@ (b :> fb) : fa, fb \in MCFile}
  \cup {(a :> fa) @@ (b :> fb) @@ (c :> <<>>) : fa \in MCFile, fb \in {<<Import(c)>>, <<Import(c), Import(c)>>}}
  \cup {(a :> fa) : fa \in {<<Import(b)>>, <<Option(build, <<w1>>), Import(b)>>}}
=============================================================================
