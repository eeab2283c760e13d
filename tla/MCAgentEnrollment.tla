------------------------- MODULE MCAgentEnrollment -------------------------
(* Instances of the enrollment of an agent for TLC.                        *)
EXTENDS AgentEnrollment

CONSTANTS p1, p2, p3, r1, r2
=============================================================================
