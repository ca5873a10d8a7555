SPECIFICATION Spec
CONSTANTS
  SA = SA
  SB = SB
  ST = ST
  ca = ca
  cb = cb
  D = D
  Q = Q

  NoSort = NoSort
  Open = Open
  Sort = {SA, SB, ST}
  Const = {ca, cb}
  Pred = {D, Q}
  Direct = {D}
  Signature <- MCSignature
  Formulas = {Join, Both, Fixed}
  NumVars <- MCNumVars
  Order <- MCOrder
  Models <- MCModels
  Pos <- MCPos
  Neg <- MCNeg
  Negative = {Join}
  Join = Join
  Both = Both
  Fixed = Fixed
  MaxVars = 2
  MaxRules = 1
  MaxDecls = 2
  LazyModes = {TRUE, FALSE}
  QueryFormulas = {Both}
  MaxFormulas = 2
  NoQuery = NoQuery
  Ended = Ended
INVARIANTS TypeOK MembersExact NeededOnce AtomsComplete AnswersAsked
CHECK_DEADLOCK FALSE
SYMMETRY MCSymmetry
