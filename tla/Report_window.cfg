\* A block of either kind with a buffer time over a data set of two members,
\* and a block that clients take and leave.
CONSTANTS
  c1 = c1  c2 = c2  c3 = c3  a = a  b = b  x = x  y = y  ds1 = ds1
  Plans = {"window", "reserve"}
  Conn = {c1, c3}  NoConn = NoConn
  Addr = {a, b}  NoAddr = NoAddr  Ip <- MCIp1
  Item = {x, y}  DataSet = {ds1}  NoDataSet = NoDataSet  Members <- MCMembersXY
  Kinds = {TRUE, FALSE}  MaxBuffer = 1  SqNum16 = 3  SqNum8 = 2  ResvCfg = NoAddr
  BufTms = {1}  IntgPds = {0}  ResvTmss = {0, 1}  TrgOpss = {{"dchg", "gi"}}
  MaxUpdates = 2  MaxReports = 2  MaxConfRev = 0
SPECIFICATION MCFairSpec
INVARIANTS WindowHolds
PROPERTIES EventsAreEmitted ReservationEnds
CHECK_DEADLOCK FALSE
