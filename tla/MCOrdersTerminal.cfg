SPECIFICATION OrdersSpec
CONSTANTS
  o1 = o1
  o2 = o2
  v1 = v1
  NoOrder = NoOrder
  NoVoucher = NoVoucher
  Orders <- OneOrder
  Vouchers <- NoVouchers
  Cost <- NoCost
  PointValues <- OnePoint
  Details <- CheckoutDetails
  AutoStartModes <- AlwaysOff
  MaxPayments = 1
  MaxRefunds = 1
  MaxTotal = 1
PROPERTIES
  TerminalStatesAreFinal
CHECK_DEADLOCK FALSE
