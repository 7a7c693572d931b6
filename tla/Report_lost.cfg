\* A BRCB with a buffer time whose client disconnects.
CONSTANTS
  c1 = c1  c2 = c2  c3 = c3  a = a  b = b  x = x  y = y  ds1 = ds1
  Plans = {"free"}
  Conn = {c1, c3}  NoConn = NoConn
  Addr = {a, b}  NoAddr = NoAddr  Ip <- MCIp1
  Item = {x}  DataSet = {ds1}  NoDataSet = NoDataSet  Members <- MCMembers1
  Kinds = {TRUE}  MaxBuffer = 1  SqNum16 = 3  SqNum8 = 2  ResvCfg = NoAddr
  BufTms = {1}  IntgPds = {0}  ResvTmss = {0}  TrgOpss = {{"dchg"}}
  MaxUpdates = 1  MaxReports = 1  MaxConfRev = 0
SPECIFICATION MCSpec
INVARIANTS NothingSkipped
\* The bounds end every behaviour.
CHECK_DEADLOCK FALSE
