SPECIFICATION OrdersSpec
CONSTANTS
  o1 = o1
  o2 = o2
  v1 = v1
  NoOrder = NoOrder
  NoVoucher = NoVoucher
  Orders <- OneOrder
  Vouchers <- NoVouchers
  Cost <- NoCost
  PointValues <- OnePoint
  Details <- RefundDetails
  AutoStartModes <- AllModes
  MaxPayments = 1
  MaxRefunds = 2
  MaxTotal = 2
INVARIANTS
  InStoreBooksAgree
  RefundRowsAreReal
  BuyerIsTold
CHECK_DEADLOCK FALSE
