SPECIFICATION Spec
CONSTANTS
    Session = {s1, s2}
    p1 = p1
    Batch = {b1, b2}
    Path = {p1, p2}
    UserText = {u}
    Absent = Absent
    Empty = Empty
    None = None
    MaxItems = 2
    Initially <- WithOrWithout
    MaxCommands = 5
    MaxUpsets = 0
INVARIANT PendingRecoverable
CHECK_DEADLOCK FALSE
SYMMETRY Alike
