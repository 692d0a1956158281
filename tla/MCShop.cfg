\* Two pieces at two costs, at most two of each, a list read at most twice.
SPECIFICATION ShopSpec
CONSTANTS
  Names = {"sofa", "desk"}
  Costs = {3, 7}
  Limit = 2
  MaxFetches = 2
INVARIANTS TotalAtOwnCost 
PROPERTIES BasketSpec
