\* Two requests and two PDUs over a queue of one, or a deferred request beside
\* a request and a PDU; the association may close at any time.
CONSTANTS
  r1 = r1  r2 = r2  d1 = d1  p1 = p1  p2 = p2  NoRequest = NoRequest
  Plans = {"reports", "deferred"}
  Request = {r1, r2}  Deferred = {d1}  Pdu = {p1, p2}  QueueDepth = 1  MayClose = TRUE
SPECIFICATION MCFairSpec
INVARIANTS AnsweredOnce
PROPERTIES AnsweredOrBehindDeferred AcceptedIsWritten
\* An association that ended stays ended.
CHECK_DEADLOCK FALSE
