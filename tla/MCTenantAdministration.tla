----------------------- MODULE MCTenantAdministration -----------------------
\* Two requests at a time, two ids for custom roles, two members.
EXTENDS TenantAdministration, TLC

SmallPermission ==
    {"role:create", "role:update", "role:delete", "member:update", "member:delete",
     "member:invite", "member:read", "tenant:update", "tenant:read", "role:read"}

SmallGrants == {{}, {"role:update"}}

\* No action reads the answer and no invariant is about it.
WithoutAnswer == <<database, pc, req, seen, current, copy, history>>

\* No liveness property is checked with them.
Symmetry == Permutations(Member) \cup Permutations(RoleId) \cup Permutations(Proc)
=============================================================================
