SPECIFICATION DevicesSpec
CONSTANTS
  o1 = o1
  o2 = o2
  Orders <- TwoOrders
  MAX_PRINT_ATTEMPTS = 2
  n1 = n1
  n2 = n2
  d1 = d1
  d2 = d2
  buyer = buyer
  clerk = clerk
  MerchantAll = MerchantAll
  Nobody = Nobody
  Notices <- OneNotice
  Devices <- TwoDevices
  Buyers <- OneBuyer
  Staff <- OneClerk
  To <- ForStaff
  Users <- Shared
  Notes <- TwoNotes
  People <- TwoPeople
  Addressed <- ForBothOrOne
INVARIANTS
  ClaimsAreHonoured
  PushesAreAccountedFor
  PushesReachTheEntitled
  SignedInDevicesStayReachable
PROPERTIES
  JobsAreSettled
  RecordedIsSettled
  ListsAreTheirReaders
