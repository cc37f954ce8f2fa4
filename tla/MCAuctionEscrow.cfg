SPECIFICATION Spec
CONSTANTS
  Players = {p1, p2, p3}
  Sellers = {p1}
  Items = {i1}
  None = None
  Amounts <- SomeAmounts
  Prices <- SomePrices
  Purses = {3}
  Increment = 1
  Limits <- Quiet
SYMMETRY Ordinary
PROPERTIES
  EscrowSpec
  NoLateBids
\* Everybody may leave for good once Limits are used up.
CHECK_DEADLOCK FALSE
