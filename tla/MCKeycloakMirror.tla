-------------------------- MODULE MCKeycloakMirror --------------------------
(* Instances of the Keycloak mirrors for TLC.                              *)
EXTENDS KeycloakMirror, TLC

CONSTANTS acme, u1, u2

\* Users of one tenant.
OneTenant == [u \in Users |-> acme]

\* Two users with one name, who can only be there one after the other.
SameName == (acme :> "acme") @@ (u1 :> "alice") @@ (u2 :> "alice")
=============================================================================
