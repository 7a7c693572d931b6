\* Two clients at an object selected with value, by reading SBO, or not at all,
\* or at direct objects, with terminations that may be deferred.
CONSTANTS
  c1 = c1  c2 = c2  o1 = o1  o2 = o2  Conn = {c1, c2}
  Obj = {o1, o2}  Declared <- MCDeclared  CtlNum = {1, 2}  SboTimeout = 1  OperTimeout = 1
  MaxTime = 1  MaxSelects = 2  MaxOps = 2
SPECIFICATION MCFairSpec
INVARIANTS OneOperatePerSelect NoOrphanSelection TerminatedOnce
PROPERTIES NotTaken EventuallyTerminated
\* The bounds end every behaviour.
CHECK_DEADLOCK FALSE
