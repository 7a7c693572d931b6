\* A bounded and a started request, a cancel, and every way to end.
CONSTANTS
  c1 = c1  c2 = c2  k1 = k1  NoCall = NoCall
  Call = {c1, c2}  Started = {c2}  Attempt = {k1}  InvokeIds = 3  MayDrop = TRUE
SPECIFICATION MCFairSpec
INVARIANTS AnswerIsOwn
PROPERTIES Implements CallReturns
CHECK_DEADLOCK FALSE
