SPECIFICATION Spec
CONSTANTS
  Setting <- MCSetting
  Editable <- MCEditable
  SVal = {"u", "v"}
  NumOfSG = 2
  SgConfig <- MCSgConfig
  DsName = {"d1", "d2", "d3"}
  Member <- MCMember
  DsMembers <- MCDsMembers
  Configured = {"d1", "d2"}
  CbNamed = {"d1"}
  Lcb <- MCLcb
  Writing = {"l1", "l2"}
  Capacity = 2
  PageCap = 1
  MaxEntries = 4
  MaxNow = 2
  Conn = {"c1", "c2"}
  SvBlk = {"ms", "us"}
  Unicast = {"us"}
  Scenarios <- MCScenarios
  MaxReq = 3
  FUser = {"u1", "u2"}
  FName = {1, 2, 3}
  Stored = {1, 2}
  FileLen = 2
  MaxFileReq = 3
INVARIANTS GroupsServed LogIsFaithful FilesAreFaithful NamedSetExists NothingLeftBehind
PROPERTIES ConfirmStoresTheEdit SlotReturned
CHECK_DEADLOCK FALSE
