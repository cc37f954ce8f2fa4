SPECIFICATION FairSpec
CONSTANTS
  Players = {p1, p2}
  Sellers = {p1}
  Items = {i1}
  None = None
  Amounts <- FewAmounts
  Prices <- SomePrices
  Purses = {3}
  Increment = 1
  Limits <- AllAtOnce
PROPERTIES
  PaysTheRaise
  EndedCloses
\* Everybody may leave for good once Limits are used up.
CHECK_DEADLOCK FALSE
