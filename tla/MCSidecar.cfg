SPECIFICATION MCSpec
CONSTANTS
    p1 = p1
    p2 = p2
    n1 = n1
    n2 = n2
    c1 = c1
    c2 = c2
    t1 = t1
    t2 = t2
    Proc = {p1, p2}
    Node = {n1, n2}
    NoRow = NoRow
    Families = {"bert", "modernbert"}
    TractFamilies = {"bert"}
    Providers <- MCProviders
    Hosts <- MCHosts
    Caller = {c1, c2}
    Text = {t1, t2}
    Engine <- MCEngines
    Ttl = 2
    MaxAge = 3
    NoMemo = NoMemo
SYMMETRY Symmetric
CONSTRAINT Bounds
INVARIANTS
    MCTypeOK
    BestEngine
    ForeignRowsWarned
    MemoContract
