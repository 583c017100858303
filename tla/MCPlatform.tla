------------------------------ MODULE MCPlatform -----------------------------
(***************************************************************************)
(* What the platform asks of an installation: to provision an instance,    *)
(* to prepare and destroy tenant databases, to destroy them in production. *)
(* The three share no state, so a behaviour is about one of them.          *)
(***************************************************************************)
EXTENDS MCSaasControl, MCTenantLifecycle, MCTenantDestroy

VARIABLE focus

platformVars == <<saasVars, lifecycleVars, destroyVars, focus>>

PlatformInit ==
  /\ focus \in {"provisioning", "databases", "destroy"}
  /\ SaasInit /\ (focus # "provisioning" => instance.identity = NULL)
  /\ LifecycleInit
  /\ DestroyInit /\ (focus # "destroy" => ~connected)

PlatformNext ==
  /\ UNCHANGED focus
  /\ \/ focus = "provisioning" /\ SaasNext /\ UNCHANGED <<lifecycleVars, destroyVars>>
     \/ focus = "databases" /\ LifecycleNext /\ UNCHANGED <<saasVars, destroyVars>>
     \/ focus = "destroy" /\ DestroyNext /\ UNCHANGED <<saasVars, lifecycleVars>>

\* The rows of the control plane, the journals and catalogs of the tenants and
\* the registry of the destroy keep their types.
PlatformTypeOK == SaasTypeOK /\ LifecycleTypeOK /\ DestroyTypeOK

PlatformSpec == PlatformInit /\ [][PlatformNext]_platformVars /\ DestroyFairness
=============================================================================
