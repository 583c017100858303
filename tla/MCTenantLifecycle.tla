-------------------------- MODULE MCTenantLifecycle -------------------------
(***************************************************************************)
(* Two generations of one tenant and one of another, all after the same    *)
(* names; two concurrent runs of the lifecycle program.  The first         *)
(* generation has a stale provision fence and two competing cleanups.      *)
(***************************************************************************)
EXTENDS TenantLifecycle

CONSTANTS a, b, t1, t2

Gen(tenant, g) == [tenant |-> tenant, gen |-> g]
ProvisionFence(s, e) == [slot |-> s, epoch |-> e]
CleanupFence(s, e, pred) == [slot |-> s, epoch |-> e, pred |-> pred]

ThreeSlots == {Gen(a, 1), Gen(a, 2), Gen(b, 1)}
TwoTasks == {t1, t2}
SomeProvisions ==
  {ProvisionFence(Gen(a, 1), 1), ProvisionFence(Gen(a, 1), 2),
   ProvisionFence(Gen(a, 2), 4), ProvisionFence(Gen(b, 1), 1)}
SomeCleanups ==
  {CleanupFence(Gen(a, 1), 2, 1), CleanupFence(Gen(a, 1), 3, 1),
   CleanupFence(Gen(a, 2), 5, 4)}
=============================================================================
