--------------------------- MODULE MCTenantDestroy --------------------------
EXTENDS TenantDestroy
CONSTANTS r1, r2
TwoRuns == {r1, r2}
TwoFences == {2, 3}
=============================================================================
