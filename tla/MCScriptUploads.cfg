SPECIFICATION ScriptUploadsSpec
CONSTANTS
    w0 = w0
    w1 = w1
    w2 = w2
    e1 = e1
    e2 = e2
    e3 = e3
    Entries = {e1, e2, e3}
    None = None
    Settings <- AllCaches
INVARIANTS
    ScriptsOwnParams
CHECK_DEADLOCK FALSE
