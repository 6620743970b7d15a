SPECIFICATION Spec
CONSTANTS
    feishu = feishu  wechat = wechat
    r1 = r1  r2 = r2  r3 = r3  r4 = r4
    Order <- MCOrder
    Refreshes = {r1, r2, r3}
    Boot = Boot
    None = None
SYMMETRY Symmetry
INVARIANT OneAdapterRuns
CHECK_DEADLOCK FALSE
