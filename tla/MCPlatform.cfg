SPECIFICATION PlatformSpec
CONSTANTS
  k1 = k1
  k2 = k2
  a1 = a1
  a2 = a2
  s0 = s0
  s1 = s1
  i1 = i1
  i2 = i2
  l1 = l1
  l2 = l2
  NULL = NULL
  Keep = Keep
  Main = s0
  Keys <- TwoKeys
  Requests <- CompetingRequests
  Tokens <- NoLicence
  Accounts <- TwoAccounts
  Stores <- OneStore
  Identities <- TwoIdentities
  Claims <- AnyTokens
  Limits <- OneLimit
  MaxNow = 0
  a = a
  b = b
  t1 = t1
  t2 = t2
  Absent = Absent
  Outsider = Outsider
  Slots <- ThreeSlots
  Tasks <- TwoTasks
  Provisions <- SomeProvisions
  Cleanups <- SomeCleanups
  r1 = r1
  r2 = r2
  NONE = NONE
  MaxFailures = 3
  Runs <- TwoRuns
  Fences <- TwoFences
INVARIANTS
  PlatformTypeOK
  EpochsAreAnsweredOnce
  JournalsTellTruth
  RecordsProveDestruction
PROPERTIES
  ProvisioningIsFenced
  SlotsSpec
  OthersResourcesSurvive
  DropsOnlyItsIdleDatabase
  InterruptedDestroyFinishes
