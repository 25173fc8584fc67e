------------------------------ MODULE MCLane ------------------------------
(* Instances of Lane for TLC: a is a put and x the forget of it.           *)
EXTENDS LaneInvariant, TLC

CONSTANTS h1, h2, a, x

TwoHandles == {h1, h2}
PutsAndForget == {a, x}
MCKills == {<<x, a>>}

HandleSymmetry == Permutations(Handle)
=============================================================================
