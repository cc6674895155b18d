SPECIFICATION Spec
CONSTANTS
  Tabs = {t1, t2}
  MaxRequests = 2
  MaxMishaps = 1
INVARIANTS
  TypeOK
  AppliedOnce
  WaitersAreAwaited
  StoredTokenUsable
  NoTabExchangesAgain
CHECK_DEADLOCK FALSE
PROPERTIES
  RequestsSettle
