------------------------------ MODULE MCOutbox ------------------------------
(* Instances of the outbox for TLC.                                        *)
EXTENDS Outbox, TLC

CONSTANTS w1, w2, tenant, user, kcTenant, grafanaTenant, kcUser

Symmetry == Permutations(Workers)

\* A tenant is shown by Keycloak and by Grafana: two keys, one aggregate.
OneTenant == [k \in {kcTenant, grafanaTenant} |-> tenant]

\* Two aggregates with one key each.
TenantAndUser == [k \in {kcTenant, kcUser} |-> IF k = kcTenant THEN tenant ELSE user]

OneKey == [k \in {kcTenant} |-> tenant]
=============================================================================
