SPECIFICATION SaasSpec
CONSTANTS
  k1 = k1
  k2 = k2
  a1 = a1
  a2 = a2
  s0 = s0
  s1 = s1
  i1 = i1
  i2 = i2
  l1 = l1
  l2 = l2
  NULL = NULL
  Keep = Keep
  Main = s0
  Keys <- OneKey
  Requests <- QuietRequest
  Tokens <- NoLicence
  Accounts <- OneAccount
  Stores <- TwoStores
  Identities <- OneIdentity
  Claims <- ScopedTokens
  Limits <- OneLimit
  MaxNow = 2
PROPERTY
  StoresAreWithinQuota
