------------------------------- MODULE MCPatch -------------------------------
(* Instances of Patch for TLC; the .cfg files choose the constants.          *)
EXTENDS Patch

CONSTANTS f1, f2, a, b, c, d, w1, w2

MCFile == {f1, f2}
MCContent == {a, b, c, d}
MCWorker == {w1, w2}

Two(x, y) == [f \in MCFile |-> IF f = f1 THEN x ELSE y]

\* The first chunk of f1 and the only one of f2 change, to the same content.
MCVersions == <<Two(<<a, b>>, <<c>>), Two(<<d, b>>, <<d>>)>>

\* A first install, the first version, and one with a chunk in another place.
MCFirstDisks == {Two(<<>>, <<>>), Two(<<a, b>>, <<c>>), Two(<<b>>, <<c>>)}
=============================================================================
