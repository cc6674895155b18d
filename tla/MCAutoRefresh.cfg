SPECIFICATION Spec
CONSTANTS
  Tabs = {t1}
  MaxRequests = 2
  MaxMishaps = 0
CHECK_DEADLOCK FALSE
PROPERTIES
  AutoRefresh
