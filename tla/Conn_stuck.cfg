\* A deferred request beside a request and a report.
CONSTANTS
  r1 = r1  r2 = r2  d1 = d1  p1 = p1  p2 = p2  NoRequest = NoRequest
  Plans = {"deferred"}
  Request = {r1, r2}  Deferred = {d1}  Pdu = {p1, p2}  QueueDepth = 1  MayClose = FALSE
SPECIFICATION MCFairSpec
PROPERTIES RequestsAnswered
\* An association that ended stays ended.
CHECK_DEADLOCK FALSE
