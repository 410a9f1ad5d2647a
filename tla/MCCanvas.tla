-------------------------------- MODULE MCCanvas ----------------------------------
(* Canvas on a task with a dependent.                                         *)
EXTENDS Canvas, TLC

CONSTANTS f1, u1, u2

MCNames == {"a", "b"}
MCEdges == {<<"a", "b">>}
CanvasSymmetry == Permutations(Submits) \cup Permutations(Fetches)
=============================================================================
