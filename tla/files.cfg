SPECIFICATION FairSpec
CONSTANTS
    c1 = c1
    c2 = c2
    Client = {c1, c2}
    p1 = p1
    p2 = p2
    Path = {p1, p2}
    Line = {1, 2, 3, 4}
    None = None
    Absent = Absent
    Binary = Binary
    Scenarios <- CommonScenarios
INVARIANTS TypeOK CheckedIsReplaced RecordsHaveBlobs BackupAtHand
PROPERTIES BothEditsSurvive Returns
CHECK_DEADLOCK FALSE
