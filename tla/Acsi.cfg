SPECIFICATION Spec
CONSTANTS
    Config <- MCConfig
    MaxChanges = 2
    MaxRefused = 1
    CtlPlan <- MCCtlPlan
    Caller = {c1, c2}
    MaxCalls = 2
    CtlNums = 256
    DsDef <- MCDsDef
    Changes <- MCChanges
    OptSets <- MCOptSets
    MaxReports = 1
    XML_MAX_DEPTH = 12
    MAX_AUDIT_DEPTH = 6
    MAX_ARRAY_COUNT = 4
    MAX_RCB_INSTANCES = 2
    DocId <- MCDocId
    Document <- MCDocument
INVARIANTS CallsAreTold ReportsAreOwn DirectoryIsTrue LoadedAsDeclared
CHECK_DEADLOCK FALSE
