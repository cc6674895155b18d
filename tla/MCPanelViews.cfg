SPECIFICATION Spec
CONSTANTS
  QueryKeys <- AllKeys
  MaxEvents = 2
INVARIANTS
  TypeOK
  ReadsOwnWrites
  AppliedAgainOnlyOnceSettled
PROPERTIES
  PolledKeyCatchesUp
  OwnWriteIsShown
