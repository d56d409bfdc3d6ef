CONSTANTS
    Nobody = Nobody
    Divider = Divider
    Procs = {p1, p2}
    Turns = {t1, t2}
    FlushTurns = {t1}
    Msgs = {m1}
    Appends = {a1}
    Resets = {r1}
    MaxFaults = 2
    MaxSlow = 0
SPECIFICATION ScenarioSpec
INVARIANTS ClearedStaysCleared AppendExcludesInvoke RememberedIsInThread
SYMMETRY Interchangeable
CHECK_DEADLOCK FALSE
