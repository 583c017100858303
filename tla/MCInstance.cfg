SPECIFICATION InstanceSpec
CONSTANTS
  k1 = k1
  k2 = k2
  a1 = a1
  a2 = a2
  s0 = s0
  s1 = s1
  i1 = i1
  i2 = i2
  l1 = l1
  l2 = l2
  NULL = NULL
  Keep = Keep
  Main = s0
  Keys <- OneKey
  Requests <- QuietRequest
  Tokens <- TwoLicences
  Accounts <- TwoAccounts
  Stores <- TwoStores
  Identities <- TwoIdentities
  Claims <- ScopedTokens
  Limits <- OneLimit
  MaxNow = 1
  d1 = d1
  d2 = d2
  p1 = p1
  p2 = p2
  q1 = q1
  q2 = q2
  Devices <- TwoDevices
  SeatLimits <- SmallLimits
  Unlimited = Unlimited
  Never = Never
  Policies <- SomePolicies
  MaxWait = 1
  MaxClock = 6
  Servers <- TwoServers
  Readers <- TwoReaders
  CacheTtl <- Ttl
  ReadTime = 1
  MaxInstant = 3
  Nothing = Nothing
INVARIANTS
  OneCurrentLicence
  SeatsAreWithinLimit
  WithdrawalsAreObeyedInTime
PROPERTIES
  GrowthIsWithinPlan
  AnOwnerStaysActive
  SeatsAreLostForCause
