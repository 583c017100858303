SPECIFICATION FairOrdersSpec
CONSTANTS
  o1 = o1
  o2 = o2
  v1 = v1
  NoOrder = NoOrder
  NoVoucher = NoVoucher
  Orders <- OneOrder
  Vouchers <- NoVouchers
  Cost <- NoCost
  PointValues <- OnePoint
  Details <- LiveDetails
  AutoStartModes <- OffOrPrint
  MaxPayments = 2
  MaxRefunds = 1
  MaxTotal = 1
INVARIANTS
  ServedOrdersWereChargedAndAnnounced
  RefundedOrdersGotMoneyBack
PROPERTIES
  CapturedPaymentIsNoticed
  FullRefundTakesBenefitsBack
  OrdersOnlyMoveForward
CHECK_DEADLOCK FALSE
