--------------------------- MODULE MCGrafanaMirror ---------------------------
(* An instance of the Grafana mirrors  for TLC.                               *)
EXTENDS GrafanaMirror, TLC

CONSTANTS acme, beta, u1, u2, alice

\* Two users of two tenants who have the same name, one after the other.
EachItsTenant == (u1 :> acme) @@ (u2 :> beta)
SameName == (u1 :> alice) @@ (u2 :> alice)
=============================================================================
