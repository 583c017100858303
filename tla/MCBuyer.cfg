SPECIFICATION BuyerSpec
CONSTANTS
  o1 = o1
  o2 = o2
  o3 = o3
  v1 = v1
  v2 = v2
  v3 = v3
  NoOrder = NoOrder
  NoVoucher = NoVoucher
  Orders <- MCOrders
  Vouchers <- MCVouchers
  Cost <- MCCost
  PointValues <- MCPointValues
  m1 = m1
  m2 = m2
  m3 = m3
  c1 = c1
  c2 = c2
  Free = Free
  Methods <- ThreeMethods
  Requests <- TwoCalls
  Unset = Unset
  Addresses <- ThreeMethods
  Calls <- TwoCalls
  u1 = u1
  u2 = u2
  p1 = p1
  p2 = p2
  s1 = s1
  s2 = s2
  Blank = Blank
  Accounts <- TwoBuyers
  Phones <- TwoPhones
  Secrets <- TwoSecrets
  AccountLimit = 2
  Changes <- TwoCalls
  dish = dish
  side = side
  sauce = sauce
  g1 = g1
  g2 = g2
  Products <- SmallMenu
  Groups <- TwoGroups
  Parents <- WithGroups
  Rules <- AnyRules
  Price <- MCPrice
  MaxEdits = 2
INVARIANTS
  BuyerTypeOK
  LedgerIsSound
  WalletKeepsItsDefault
  AddressesKeepADefault
  AcceptedOrdersFollowTheMenu
  ChargedAsShown
PROPERTIES
  EarnsAtMostOnce
  PasswordsStayTheirOwners
