SPECIFICATION Spec
CONSTANTS
  Players = {p1, p2, p3}
  Sellers = {p1}
  Items = {i1}
  None = None
  Amounts = {1, 2}
  Prices = {0, 2}
  Purses = {3}
  Increment = 1
  Limits <- Quiet
INVARIANTS
  WinnerRetrieves
\* Everybody may leave for good once Limits are used up.
CHECK_DEADLOCK FALSE
