---------------------------- MODULE MCOwnership ----------------------------
(* Instances of Ownership for TLC.                                         *)
EXTENDS Ownership, TLC

CONSTANTS h1, h2, h3, s1, s2

MCHandle == {h1, h2}
MCSession == {s1, s2}
\* Lanes: a session per handle.
LaneSessionOf == h1 :> s1 @@ h2 :> s2

\* Task leases: h1 and h2 were opened by one agent, h3 by another.
MCHandle3 == {h1, h2, h3}
TwoAgentSessionOf == h1 :> s1 @@ h2 :> s1 @@ h3 :> s2
=============================================================================
