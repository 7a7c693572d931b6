\* Two clients that share a BRCB holding two reports, and three that compete for
\* a BRCB or a URCB.
CONSTANTS
  c1 = c1  c2 = c2  c3 = c3  a = a  b = b  x = x  y = y  ds1 = ds1
  Plans = {"delivery", "hold"}
  Conn = {c1, c2, c3}  NoConn = NoConn
  Addr = {a, b}  NoAddr = NoAddr  Ip <- MCIp
  Item = {x}  DataSet = {ds1}  NoDataSet = NoDataSet  Members <- MCMembers1
  Kinds = {TRUE, FALSE}  MaxBuffer = 2  SqNum16 = 3  SqNum8 = 2  ResvCfg = NoAddr
  BufTms = {0}  IntgPds = {0, 1}  ResvTmss = {0, 1}  TrgOpss = {{}, {"integrity"}, {"dchg"}}
  MaxUpdates = 3  MaxReports = 4  MaxConfRev = 1
SPECIFICATION MCSpec
INVARIANTS HolderIsServed LossAnnounced BufferHolds
CHECK_DEADLOCK FALSE
