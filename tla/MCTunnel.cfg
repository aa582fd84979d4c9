SPECIFICATION Spec
CONSTANTS
    Addr = {a1, a2, a3}
    Zero = Zero
    Client = {c1, c2, c3}
INVARIANTS
    TypeOK
    RemotesDistinct
    RefCountsUsers
    TunnelServesPeer
    ModifyNeverAborts
