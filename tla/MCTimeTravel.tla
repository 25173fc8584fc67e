--------------------------- MODULE MCTimeTravel ---------------------------
(* Instances of TimeTravel for TLC: two agents, of which the first reads. *)
EXTENDS TimeTravel, TLC

CONSTANTS f, g, t1

OneAgent == {1}
TwoAgents == {1, 2}
OneFragment == {f}
TwoFragments == {f, g}
FragmentSymmetry == Permutations(Fragment)
OneName == {t1}
=============================================================================
