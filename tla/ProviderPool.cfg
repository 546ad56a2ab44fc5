CONSTANTS
    InstanceCount = 2
    Datasets = {{1, 2}, {2}}
    Targets = {t1, t2, t3}
    Allowed = {t1, t2}
    Callers = {c1, c2}
    None = None
    MaxDials = 4
    MaxChanges = 2
    MaxPicks = 4
SPECIFICATION Spec
INVARIANTS OpenIsKept CallsPickedEndpoint CutOnlyIfMoved
CHECK_DEADLOCK FALSE
