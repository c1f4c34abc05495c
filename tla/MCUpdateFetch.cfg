SPECIFICATION RetrySpec
CONSTANTS
  Trouble = {}
  MaxKills = 1
PROPERTIES
  InterruptedUpdateArrives
CHECK_DEADLOCK FALSE
