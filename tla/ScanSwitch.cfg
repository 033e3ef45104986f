SPECIFICATION ScanSpec
CONSTANTS
  Choice = {x, y}
  MaxLength = 4
  Birthday = 2
  MaxSwitches = 2
  MaxExits = 1
  Nothing = Nothing
INVARIANTS
  SelectsFromOneChainAlways
CHECK_DEADLOCK FALSE
