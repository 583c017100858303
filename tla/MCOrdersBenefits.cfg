SPECIFICATION OrdersSpec
CONSTANTS
  o1 = o1
  o2 = o2
  v1 = v1
  NoOrder = NoOrder
  NoVoucher = NoVoucher
  Orders <- TwoOrders
  Vouchers <- OneVoucher
  Cost <- VoucherCost
  PointValues <- SomePoints
  Details <- BenefitDetails
  AutoStartModes <- AlwaysOff
  MaxPayments = 1
  MaxRefunds = 1
  MaxTotal = 1
INVARIANTS
  ClosedOrdersHoldNoBenefits
PROPERTIES
  LedgerSpec
CONSTRAINT OneOnlineOrder
SYMMETRY OrdersAlike
CHECK_DEADLOCK FALSE
