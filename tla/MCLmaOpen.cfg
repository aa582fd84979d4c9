SPECIFICATION FairSpec
CONSTANTS
    m1 = m1
    m2 = m2
    n1 = n1
    n2 = n2
    n3 = n3
    l1 = l1
    l2 = l2
    h0 = h0
    h1 = h1
    h2 = h2
    Zero = Zero
    NoMn = NoMn
    NoLink = NoLink
    ZeroPrefix = ZeroPrefix
    None = None
    Addr = {m1, m2}
    Mn = {n1, n2, n3}
    Link = {l1, l2}
    Prefix = {h0, h1, h2}
    Profiled = {n1, n2}
    ProfileHnp <- MCAssigned
    PoolSize = 2
    PoolPrefix <- MCPool
    Pbu <- MCOpen
    MaxBce = 2
    MaxTime = 1
    MaxRef = 2
INVARIANTS
    BindingsRouted
    DelayedPending
PROPERTIES
    RegistrationEnds
CHECK_DEADLOCK FALSE
