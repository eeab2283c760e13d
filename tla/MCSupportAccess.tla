-------------------------- MODULE MCSupportAccess --------------------------
(* An instance of support access for TLC.                                  *)
EXTENDS SupportAccess, TLC

CONSTANTS r1, r2, s1, s2, g1, g2, g3, g4, ann, bob, acme, beta

\* Both admins may look into both tenants.
Crossed == (g1 :> ann) @@ (g2 :> bob) @@ (g3 :> bob) @@ (g4 :> ann)
TwoTenants == (g1 :> acme) @@ (g2 :> acme) @@ (g3 :> beta) @@ (g4 :> beta)

\* One request makes or revokes grants, the other one deletes a tenant.
GrantsAndADelete ==
  {<<r1, "grant", g1>>, <<r1, "revoke", g3>>, <<r2, "deleteTenant", acme>>}

\* All but the grant that can still be made.
AllButOne == {Grants \ {g1}}

\* Two requests and a sweep, or one of the requests and two sweeps.
Three == {{r1, r2, s1}, {r1, s1, s2}}
=============================================================================
