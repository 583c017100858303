----------------------------- MODULE MCInstance ------------------------------
(***************************************************************************)
(* One instance in service: what its merchants do within its quotas and    *)
(* licences, the seats of its buyers, and what its server processes        *)
(* remember of the rows.  A behaviour is about one of them.                *)
(***************************************************************************)
EXTENDS MCSaasControl, BuyerAccess, RequestCaches

CONSTANTS d1, d2, p1, p2, q1, q2

VARIABLE aspect

TwoDevices == {d1, d2}
SmallLimits == {1}
UsualPolicy == [lease |-> 4, heartbeat |-> 2]
SomePolicies ==
  {UsualPolicy, [lease |-> 3, heartbeat |-> 2], [lease |-> 2, heartbeat |-> 1]}
TwoServers == {p1, p2}
TwoReaders == {q1, q2}
Ttl == [c \in Caches |-> 2]

instanceRunVars == <<saasVars, accessVars, cacheVars, aspect>>

InstanceInit ==
  /\ aspect \in {"merchants", "seats", "caches"}
  /\ SaasInit /\ (aspect # "merchants" => instance.identity = NULL)
  /\ AccessInit /\ (aspect # "seats" => seatLimit = Unlimited /\ policy = UsualPolicy)
  /\ CachesInit /\ (aspect # "caches" => which = "stores")
InstanceNext ==
  /\ UNCHANGED aspect
  /\ \/ aspect = "merchants" /\ SaasNext /\ UNCHANGED <<accessVars, cacheVars>>
     \/ aspect = "seats" /\ AccessNext /\ UNCHANGED <<saasVars, cacheVars>>
     \/ aspect = "caches" /\ CachesNext /\ UNCHANGED <<saasVars, accessVars>>

InstanceSpec == InstanceInit /\ [][InstanceNext]_instanceRunVars
=============================================================================
