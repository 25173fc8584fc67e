----------------------------- MODULE MCCatchup -----------------------------
(* Instances of Catchup for TLC: one handle of the lane, one reader, two   *)
(* puts.                                                                   *)
EXTENDS Catchup

CONSTANTS h1, r1, a, b

OneHandle == {h1}
OneReader == {r1}
TwoPuts == {a, b}
NoKills == {}
=============================================================================
