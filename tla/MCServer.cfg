SPECIFICATION FairSpec
CONSTANTS
  Request = {1, 2, 3}
  a = a
  b = b
  Call <- MCCall
  Nothing = Nothing
  Nobody = Nobody
  Null = Null
INVARIANTS MutexHeld FormulaIsOwn
PROPERTIES ImplementsSerial Answered
CHECK_DEADLOCK FALSE
