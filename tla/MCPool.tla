------------------------------- MODULE MCPool -------------------------------
\* Instances of module Pool for TLC.
EXTENDS Pool, TLC

CONSTANTS a1, a2, t1, t2, x1

TwoAgents == {a1, a2}
OneAgent == {a1}
NoAgent == {}
TwoThreads == {t1, t2}
OneThread == {t1}
OneText == {x1}
TwoForOne == a1 :> 2 @@ a2 :> 1
One == a1 :> 1
=============================================================================
