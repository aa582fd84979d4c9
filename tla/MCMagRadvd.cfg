SPECIFICATION Spec
CONSTANTS
    n1 = n1
    n2 = n2
    h1 = h1
    h2 = h2
    lma = lma
    Zero = Zero
    None = None
    ZeroPrefix = ZeroPrefix
    Addr = {lma}
    Mn = {n1, n2}
    LmaAddress <- MCLmaAddress
    Prefix = {h1, h2}
    ProfileHnp <- MCProfileHnp
    LmaHnp <- MCLmaHnp
    AccessIf = {3}
    Lifetime = {1}
    MaxRetry = 1
    MaxSeq = 3
    MaxTime = 1
INVARIANTS
    TimeoutEndsAdvertisement
