------------------------------ MODULE LmaProofs -----------------------------
(***************************************************************************)
(* The invariants of Lma, for any mobile nodes, updates, pools and bounds. *)
(***************************************************************************)
EXTENDS Lma, ForwardingProofs, FiniteSetTheorems, TLAPS

(***************************************************************************)
(* One entry of the binding cache and what a step may do to it.            *)
(***************************************************************************)

\* Types of what the entries are made from; those of the routes are added below.
TypeInv ==
    /\ bces \in Seq(BceType)
    /\ profileHnp \in [Profiled -> SUBSET Prefix]
    /\ poolIndex \in Nat
    /\ tunnelList \in Seq(Device)

\* DelayedPending for one entry.
Pending(b) ==
    /\ b.registerTimer <=> b.tentative # None
    /\ b.state = "REGISTERING" => b.registerTimer

\* Entry b may become c: the node and its prefixes stay.
Keeps(b, c) ==
    /\ c \in BceType
    /\ c.mn = b.mn /\ c.hnps = b.hnps
    /\ Pending(b) => Pending(c)

\* Every entry stays in its place and is kept.
KeepsAll ==
    /\ bces' \in Seq(BceType) /\ DOMAIN bces' = DOMAIN bces
    /\ \A i \in DOMAIN bces : Keeps(bces[i], bces'[i])

\* What HandlePbu and DoDelayedRegistration write to an entry keeps it.
LEMMA UpdateKeeps ==
    ASSUME NEW b \in BceType, NEW p, p.src \in Addr, p.hi \in HandoffIndicator,
           p.att \in AccessTechnology, p.life \in Nat, p.time \in Nat, p.seq \in Nat
    PROVE  /\ Keeps(b, LateUpdated(b, p))
           /\ LateUpdated(b, p).coa = p.src
           /\ LateUpdated(b, p).state = "REACHABLE"
           /\ p.link \in Link \cup {NoLink} =>
                /\ Keeps(b, Updated(b, p)) /\ Updated(b, p).coa = p.src
                /\ Updated(b, p).tunnelIf = b.tunnelIf
                /\ Updated(b, p).state = "REACHABLE"
<1> DEFINE c == LateUpdated(b, p)
           u == Updated(b, p)
<1>1. /\ c \in BceType /\ c.mn = b.mn /\ c.hnps = b.hnps /\ c.coa = p.src
      /\ c.registerTimer = b.registerTimer /\ c.tentative = b.tentative
      /\ c.state = "REACHABLE" /\ c.tunnelIf = b.tunnelIf
  BY DEF LateUpdated, BceType
<1>2. p.link \in Link \cup {NoLink} =>
      /\ u \in BceType /\ u.mn = b.mn /\ u.hnps = b.hnps /\ u.coa = p.src
      /\ u.registerTimer = b.registerTimer /\ u.tentative = b.tentative
      /\ u.state = "REACHABLE" /\ u.tunnelIf = b.tunnelIf
  BY <1>1 DEF Updated, BceType
<1> HIDE DEF c, u
<1>3. Keeps(b, c) /\ (p.link \in Link \cup {NoLink} => Keeps(b, u))
  BY <1>1, <1>2 DEF Keeps, Pending
<1>. QED BY <1>1, <1>2, <1>3 DEF c, u

\* Writing one entry such that it is kept keeps them all.
LEMMA RewriteKeepsAll ==
    ASSUME TypeInv, NEW i \in DOMAIN bces, NEW b, Keeps(bces[i], b),
           bces' = [bces EXCEPT ![i] = b]
    PROVE  KeepsAll
<1>1. b \in BceType /\ i \in 1 .. Len(bces) /\ bces \in Seq(BceType)
  BY DEF Keeps, TypeInv
<1>2. /\ bces' \in Seq(BceType) /\ DOMAIN bces' = DOMAIN bces /\ bces'[i] = b
      /\ \A j \in DOMAIN bces : j # i => bces'[j] = bces[j]
  BY <1>1, ExceptSeq
<1>3. \A j \in DOMAIN bces : Keeps(bces[j], bces[j])
  BY <1>1 DEF Keeps
<1>. QED BY <1>2, <1>3 DEF KeepsAll

\* A step that leaves the cache alone keeps it.
LEMMA UnchangedKeepsAll ==
    ASSUME TypeInv, bces' = bces
    PROVE  KeepsAll
BY DEF KeepsAll, Keeps, TypeInv

\* ModifyTunnelAndRouting keeps the cache and the types, aborting or not.
LEMMA ModifyKeeps ==
    ASSUME TypeInv, NEW i \in DOMAIN bces, NEW b, Keeps(bces[i], b),
           ModifyTunnelAndRouting(i, b)
    PROVE  KeepsAll /\ tunnelList' \in Seq(Device)
<1> DEFINE r == bces[i].coa
           n == ModifyTunnelIf(tunnelList, r, b.coa)
<1>1. CASE ModifyTunnelAsserts(tunnelList, r)
  <2>1. /\ tunnelList' = ModifyTunnelList(tunnelList, r, b.coa)
        /\ bces' = [bces EXCEPT ![i] = [b EXCEPT !.tunnelIf = n]]
    BY <1>1, Zenon DEF ModifyTunnelAndRouting
  <2>2. b \in BceType /\ b.coa \in Addr
    BY DEF Keeps, BceType
  <2>3. n \in Nat /\ tunnelList' \in Seq(Device)
    BY <1>1, <2>1, <2>2, ModifyTunnelTyped DEF TypeInv
  <2> HIDE DEF n
  <2> DEFINE c == [b EXCEPT !.tunnelIf = n]
  <2>4. /\ c \in BceType /\ c.mn = b.mn /\ c.hnps = b.hnps /\ c.state = b.state
        /\ c.registerTimer = b.registerTimer /\ c.tentative = b.tentative
    BY <2>2, <2>3 DEF BceType
  <2>5. bces' = [bces EXCEPT ![i] = c]
    BY <2>1
  <2> HIDE DEF c
  <2>6. Keeps(bces[i], c)
    BY <2>4 DEF Keeps, Pending
  <2>. QED BY <2>3, <2>5, <2>6, RewriteKeepsAll
<1>2. CASE ~ModifyTunnelAsserts(tunnelList, r)
  <2>1. bces' = bces /\ tunnelList' = tunnelList
    BY <1>2, Zenon DEF ModifyTunnelAndRouting
  <2>. QED BY <2>1, UnchangedKeepsAll DEF TypeInv
<1>. QED BY <1>1, <1>2

\* The fields of an update an action may rely on.
LEMMA PbuFields ==
    ASSUME NEW p \in Pbu
    PROVE  /\ p.src \in Addr /\ p.hi \in HandoffIndicator
           /\ p.att \in AccessTechnology /\ p.link \in Link \cup {NoLink}
           /\ p.life \in Nat /\ p.time \in Nat /\ p.seq \in Nat
BY PbuAssumption DEF PbuType

\* A refresh writes only what UpdateKeeps allows.
LEMMA RefreshKeeps ==
    ASSUME TypeInv, NEW p \in Pbu, NEW i \in DOMAIN bces, Refresh(p, i)
    PROVE  KeepsAll
<1>1. bces[i] \in BceType
  BY DEF TypeInv
<1>2. Keeps(bces[i], Updated(bces[i], p))
  BY <1>1, PbuFields, UpdateKeeps, Zenon
<1>3. bces' = [bces EXCEPT ![i] = Updated(bces[i], p)]
  BY DEF Refresh
<1>. QED BY <1>2, <1>3, RewriteKeepsAll

\* A delayed registration sets the timer with the tentative entry.
LEMMA DelayKeeps ==
    ASSUME TypeInv, NEW p \in Pbu, NEW i \in DOMAIN bces, DelayRegistration(p, i)
    PROVE  KeepsAll
<1>1. CASE bces[i].state = "REGISTERING"
  <2>1. bces' = bces
    BY <1>1, Zenon DEF DelayRegistration
  <2>. QED BY <2>1, UnchangedKeepsAll
<1>2. CASE bces[i].state # "REGISTERING"
  <2> DEFINE t == Tentative(p)
             c == [bces[i] EXCEPT !.state = "REGISTERING", !.tentative = t,
                                  !.registerTimer = TRUE]
  <2>1. bces[i] \in BceType
    BY DEF TypeInv
  <2>2. t \in TentativeType
    BY PbuFields DEF Tentative, TentativeType
  <2>3. t # None
    BY <2>2, NoneAssumption
  <2>4. bces' = [bces EXCEPT ![i] = c]
    BY <1>2, <2>1 DEF DelayRegistration, TypeInv
  <2> HIDE DEF t
  <2>5. /\ c \in BceType /\ c.mn = bces[i].mn /\ c.hnps = bces[i].hnps
        /\ c.registerTimer = TRUE /\ c.tentative = t
    BY <2>1, <2>2 DEF BceType
  <2> HIDE DEF c
  <2>6. Keeps(bces[i], c)
    BY <2>3, <2>5, Zenon DEF Keeps, Pending
  <2>. QED BY <2>4, <2>6, RewriteKeepsAll
<1>. QED BY <1>1, <1>2

\* A handoff moves the tunnel and keeps the node and its prefixes.
LEMMA HandoffKeeps ==
    ASSUME TypeInv, NEW p \in Pbu, NEW i \in DOMAIN bces, Handoff(p, i)
    PROVE  KeepsAll /\ tunnelList' \in Seq(Device)
<1>1. bces[i] \in BceType
  BY DEF TypeInv
<1>2. Keeps(bces[i], Updated(bces[i], p))
  BY <1>1, PbuFields, UpdateKeeps, Zenon
<1>3. ModifyTunnelAndRouting(i, Updated(bces[i], p))
  BY DEF Handoff
<1>. QED BY <1>2, <1>3, ModifyKeeps, Zenon

\* A deregistration marks the entry; a pending registration stays pending.
LEMMA DeregisterKeeps ==
    ASSUME TypeInv, NEW p \in Pbu, NEW i \in DOMAIN bces, Deregister(p, i)
    PROVE  KeepsAll
<1>1. CASE bces[i].coa # p.src
  BY <1>1, UnchangedKeepsAll DEF Deregister
<1>2. CASE bces[i].coa = p.src
  <2> DEFINE c == [bces[i] EXCEPT !.state = "DEREGISTERING", !.deregisterTimer = TRUE]
  <2>1. bces[i] \in BceType
    BY DEF TypeInv
  <2>2. bces' = [bces EXCEPT ![i] = c]
    BY <1>2, <2>1 DEF Deregister, TypeInv
  <2>3. /\ c \in BceType /\ c.mn = bces[i].mn /\ c.hnps = bces[i].hnps
        /\ c.registerTimer = bces[i].registerTimer
        /\ c.tentative = bces[i].tentative /\ c.state = "DEREGISTERING"
    BY <2>1 DEF BceType
  <2> HIDE DEF c
  <2>4. Keeps(bces[i], c)
    BY <2>3 DEF Keeps, Pending
  <2>. QED BY <2>2, <2>4, RewriteKeepsAll
<1>. QED BY <1>1, <1>2

\* The timeout of a delayed registration clears timer and tentative entry
\* together.
LEMMA RegisterTimeoutKeeps ==
    ASSUME TypeInv, NEW i \in DOMAIN bces, RegisterTimeout(i)
    PROVE  KeepsAll /\ tunnelList' \in Seq(Device)
<1> DEFINE t == bces[i].tentative
           u == LateUpdated(bces[i], t)
<1>1. CASE t = None
  <2>1. bces' = bces /\ tunnelList' = tunnelList
    BY <1>1, Zenon DEF RegisterTimeout
  <2>. QED BY <2>1, UnchangedKeepsAll DEF TypeInv
<1>2. CASE t # None
  <2>1. bces[i] \in BceType
    BY DEF TypeInv
  <2>2. t \in TentativeType
    BY <1>2, <2>1 DEF BceType
  <2>3. Keeps(bces[i], u) /\ u.state = "REACHABLE"
    <3>1. /\ t.src \in Addr /\ t.hi \in HandoffIndicator
          /\ t.att \in AccessTechnology
          /\ t.life \in Nat /\ t.time \in Nat /\ t.seq \in Nat
      BY <2>2 DEF TentativeType
    <3>. QED BY <2>1, <3>1, UpdateKeeps, Zenon
  <2> HIDE DEF u, t
  <2> DEFINE c == [u EXCEPT !.tentative = None, !.registerTimer = FALSE]
  <2>4. ModifyTunnelAndRouting(i, c)
    BY <1>2, Zenon DEF RegisterTimeout, u, t
  <2>5. /\ c \in BceType /\ c.mn = u.mn /\ c.hnps = u.hnps /\ c.state = u.state
        /\ c.registerTimer = FALSE /\ c.tentative = None
    BY <2>3 DEF BceType, Keeps
  <2> HIDE DEF c
  <2>6. Keeps(bces[i], c)
    BY <2>3, <2>5 DEF Keeps, Pending
  <2>. QED BY <2>4, <2>6, ModifyKeeps, Zenon
<1>. QED BY <1>1, <1>2

\* The deregistration timeout clears its own timer only.
LEMMA DeregisterTimeoutKeeps ==
    ASSUME TypeInv, NEW i \in DOMAIN bces, DeregisterTimeout(i)
    PROVE  KeepsAll
<1> DEFINE c == [bces[i] EXCEPT !.deregisterTimer = FALSE]
<1>1. bces[i] \in BceType
  BY DEF TypeInv
<1>2. bces' = [bces EXCEPT ![i] = c]
  BY <1>1 DEF DeregisterTimeout, TypeInv
<1>3. /\ c \in BceType /\ c.mn = bces[i].mn /\ c.hnps = bces[i].hnps
      /\ c.registerTimer = bces[i].registerTimer
      /\ c.tentative = bces[i].tentative /\ c.state = bces[i].state
  BY <1>1 DEF BceType
<1> HIDE DEF c
<1>4. Keeps(bces[i], c)
  BY <1>3 DEF Keeps, Pending
<1>. QED BY <1>2, <1>4, RewriteKeepsAll

-----------------------------------------------------------------------------
(***************************************************************************)
(* A new entry.                                                            *)
(***************************************************************************)

\* Entry b of a known node is added, with the prefixes its profile now has;
\* no profile that had prefixes is changed.
Extends(b) ==
    /\ bces' = Append(bces, b)
    /\ b \in BceType /\ Pending(b)
    /\ b.mn \in Profiled
    /\ b.hnps # {} /\ b.hnps = profileHnp'[b.mn]
    /\ \A m \in Profiled : profileHnp[m] # {} => profileHnp'[m] = profileHnp[m]
    /\ profileHnp' \in [Profiled -> SUBSET Prefix] /\ poolIndex' \in Nat
    /\ tunnelList' \in Seq(Device)

\* The pool assigns a prefix however often it has wrapped.
LEMMA AssignPrefix ==
    ASSUME NEW n \in Nat
    PROVE  Assign(n) \in Prefix
<1>1. n % PoolSize \in 0 .. PoolSize - 1
  BY PoolAssumption
<1>. QED BY <1>1, PoolAssumption DEF Assign

\* Create adds such an entry, from the profile or from the pool.
LEMMA CreateExtends ==
    ASSUME TypeInv, NEW p \in Pbu, Create(p)
    PROVE  Extends(NewBce(p))
<1> DEFINE hnps == NewPrefixes(p)
           tif  == AddTunnelIf(tunnelList, p.src)
<1>1. p.mn \in Profiled /\ p.mn \in Mn
  BY ProfileAssumption DEF Create, Status
<1>2. hnps \in SUBSET Prefix /\ hnps # {}
  <2>1. Assign(poolIndex + 1) \in Prefix
    BY AssignPrefix DEF TypeInv
  <2>2. profileHnp[p.mn] \in SUBSET Prefix
    BY <1>1 DEF TypeInv
  <2>. QED BY <2>1, <2>2 DEF NewPrefixes
<1>3. tif \in Nat /\ AddTunnelList(tunnelList, p.src) \in Seq(Device)
  BY PbuFields, AddTunnelTyped DEF TypeInv
<1>4. /\ profileHnp' \in [Profiled -> SUBSET Prefix] /\ poolIndex' \in Nat
      /\ profileHnp'[p.mn] = hnps
      /\ \A m \in Profiled : profileHnp[m] # {} => profileHnp'[m] = profileHnp[m]
  <2>1. CASE profileHnp[p.mn] # {}
    BY <1>1, <1>2, <2>1 DEF Create, TypeInv, NewPrefixes
  <2>2. CASE profileHnp[p.mn] = {}
    <3>1. profileHnp' = [profileHnp EXCEPT ![p.mn] = hnps] /\ poolIndex' = poolIndex + 1
      BY <2>2, Zenon DEF Create
    <3> HIDE DEF hnps
    <3>. QED BY <1>1, <1>2, <2>2, <3>1 DEF TypeInv
  <2>. QED BY <2>1, <2>2
<1> HIDE DEF hnps, tif
<1>5. /\ NewBce(p) \in BceType /\ NewBce(p).mn = p.mn /\ NewBce(p).hnps = hnps
      /\ NewBce(p).registerTimer = FALSE /\ NewBce(p).tentative = None
      /\ NewBce(p).state = "REACHABLE" /\ NewBce(p).coa = p.src
  <2>1. NewBce(p) =
          [mn |-> p.mn, link |-> p.link, att |-> p.att, hi |-> p.hi,
           hnps |-> hnps, coa |-> p.src, tunnelIf |-> tif, time |-> p.time,
           life |-> p.life, seq |-> p.seq, state |-> "REACHABLE",
           tentative |-> None, registerTimer |-> FALSE, deregisterTimer |-> FALSE]
    BY Zenon DEF NewBce, hnps, tif
  <2>. QED BY <1>1, <1>2, <1>3, <2>1, PbuFields DEF BceType
<1>6. Pending(NewBce(p))
  BY <1>5 DEF Pending
<1>7. bces' = Append(bces, NewBce(p))
  BY DEF Create
<1>8. tunnelList' \in Seq(Device)
  BY <1>3, <1>5 DEF Create, SetupTunnelAndRouting
<1>. QED BY <1>1, <1>2, <1>4, <1>5, <1>6, <1>7, <1>8, Zenon DEF Extends

-----------------------------------------------------------------------------
(***************************************************************************)
(* DelayedPending and PrefixContinuity.  The second needs the first part   *)
(* of itself to be inductive: because no binding is without prefixes, the  *)
(* profile of a bound node has some, and Create leaves it alone.           *)
(***************************************************************************)

CacheInv ==
    /\ TypeInv
    /\ DelayedPending
    /\ PrefixContinuity
    /\ \A i \in DOMAIN bces : bces[i].mn \in Profiled

\* A step that keeps every entry, and the profiles, keeps the invariant.
LEMMA KeepsAllPreserves ==
    ASSUME CacheInv, KeepsAll, tunnelList' \in Seq(Device),
           UNCHANGED <<profileHnp, poolIndex>>
    PROVE  CacheInv'
<1>1. TypeInv'
  BY DEF CacheInv, KeepsAll, TypeInv
<1>2. DelayedPending'
  <2>1. SUFFICES ASSUME NEW i \in DOMAIN bces' PROVE Pending(bces'[i])
    BY Zenon DEF DelayedPending, Pending
  <2>a. i \in DOMAIN bces
    BY DEF KeepsAll
  <2>2. Pending(bces[i])
    BY <2>a, Zenon DEF CacheInv, DelayedPending, Pending
  <2>. QED BY <2>a, <2>2 DEF KeepsAll, Keeps
<1>3. PrefixContinuity' /\ \A i \in DOMAIN bces' : bces'[i].mn \in Profiled
  BY DEF CacheInv, PrefixContinuity, KeepsAll, Keeps
<1>. QED BY <1>1, <1>2, <1>3 DEF CacheInv

\* So does a step that adds an entry.
LEMMA ExtendsPreserves ==
    ASSUME CacheInv, NEW b, Extends(b)
    PROVE  CacheInv'
<1>0. bces \in Seq(BceType) /\ b \in BceType /\ bces' = Append(bces, b)
  BY DEF CacheInv, TypeInv, Extends
<1>1. /\ bces' \in Seq(BceType) /\ DOMAIN bces' = DOMAIN bces \cup {Len(bces) + 1}
      /\ bces'[Len(bces) + 1] = b /\ \A i \in DOMAIN bces : bces'[i] = bces[i]
  BY <1>0
<1>2. TypeInv'
  BY <1>1 DEF TypeInv, Extends
<1>3. DelayedPending'
  <2>1. SUFFICES ASSUME NEW i \in DOMAIN bces' PROVE Pending(bces'[i])
    BY Zenon DEF DelayedPending, Pending
  <2>2. CASE i \in DOMAIN bces
    <3>1. Pending(bces[i])
      BY <2>2, Zenon DEF CacheInv, DelayedPending, Pending
    <3>. QED BY <1>1, <2>2, <3>1
  <2>3. CASE i = Len(bces) + 1
    BY <1>1, <2>3 DEF Extends
  <2>. QED BY <1>1, <2>2, <2>3
<1>4. PrefixContinuity' /\ \A i \in DOMAIN bces' : bces'[i].mn \in Profiled
  <2>1. SUFFICES ASSUME NEW i \in DOMAIN bces'
                 PROVE  /\ bces'[i].mn \in Profiled /\ bces'[i].hnps # {}
                        /\ bces'[i].hnps = profileHnp'[bces'[i].mn]
    BY DEF PrefixContinuity
  <2>2. CASE i \in DOMAIN bces
    BY <1>1, <2>2 DEF CacheInv, PrefixContinuity, Extends
  <2>3. CASE i = Len(bces) + 1
    BY <1>1, <2>3 DEF Extends
  <2>. QED BY <1>1, <2>2, <2>3
<1>. QED BY <1>2, <1>3, <1>4 DEF CacheInv

\* The empty cache satisfies the invariant.
LEMMA CacheInvInit == Init => CacheInv
<1> SUFFICES ASSUME Init PROVE CacheInv
  OBVIOUS
<1>1. bces = <<>> /\ tunnelList = <<>> /\ DOMAIN bces = {}
  BY DEF Init
<1>2. TypeInv
  BY <1>1, ProfileAssumption DEF Init, TypeInv
<1>. QED BY <1>1, <1>2 DEF CacheInv, DelayedPending, PrefixContinuity

\* One step of Lma, action by action.
LEMMA CacheInvNext == CacheInv /\ [Next]_vars => CacheInv'
<1> SUFFICES ASSUME CacheInv, [Next]_vars PROVE CacheInv'
  OBVIOUS
<1>0. TypeInv /\ tunnelList \in Seq(Device)
  BY DEF CacheInv, TypeInv
<1> DEFINE Same == tunnelList' = tunnelList /\ UNCHANGED <<profileHnp, poolIndex>>
<1>1. ASSUME NEW p \in Pbu, Reject(p) PROVE CacheInv'
  <2>1. bces' = bces /\ Same
    BY <1>1 DEF Reject
  <2>. QED BY <1>0, <2>1, UnchangedKeepsAll, KeepsAllPreserves
<1>2. ASSUME NEW p \in Pbu, NEW i \in DOMAIN bces, Refresh(p, i) PROVE CacheInv'
  <2>1. Same
    BY <1>2 DEF Refresh, Finds
  <2>. QED BY <1>0, <1>2, <2>1, RefreshKeeps, KeepsAllPreserves
<1>3. ASSUME NEW p \in Pbu, NEW i \in DOMAIN bces, DelayRegistration(p, i)
      PROVE  CacheInv'
  <2>1. Same
    BY <1>3 DEF DelayRegistration, Finds
  <2>. QED BY <1>0, <1>3, <2>1, DelayKeeps, KeepsAllPreserves
<1>4. ASSUME NEW p \in Pbu, NEW i \in DOMAIN bces, Handoff(p, i) PROVE CacheInv'
  <2>1. UNCHANGED <<profileHnp, poolIndex>>
    BY <1>4 DEF Handoff, Finds
  <2>. QED BY <1>0, <1>4, <2>1, HandoffKeeps, KeepsAllPreserves
<1>5. ASSUME NEW p \in Pbu, NEW i \in DOMAIN bces, Deregister(p, i) PROVE CacheInv'
  <2>1. Same
    BY <1>5 DEF Deregister, Finds
  <2>. QED BY <1>0, <1>5, <2>1, DeregisterKeeps, KeepsAllPreserves
<1>6. ASSUME NEW p \in Pbu, Create(p) PROVE CacheInv'
  BY <1>0, <1>6, CreateExtends, ExtendsPreserves, Zenon
<1>7. ASSUME NEW p \in Pbu, UnknownDeregister(p) PROVE CacheInv'
  <2>1. bces' = bces /\ Same
    BY <1>7 DEF UnknownDeregister, Finds
  <2>. QED BY <1>0, <2>1, UnchangedKeepsAll, KeepsAllPreserves
<1>8. ASSUME NEW i \in DOMAIN bces, RegisterTimeout(i) PROVE CacheInv'
  <2>1. UNCHANGED <<profileHnp, poolIndex>>
    BY <1>8 DEF RegisterTimeout
  <2>. QED BY <1>0, <1>8, <2>1, RegisterTimeoutKeeps, KeepsAllPreserves
<1>9. ASSUME NEW i \in DOMAIN bces, DeregisterTimeout(i) PROVE CacheInv'
  <2>1. Same
    BY <1>9 DEF DeregisterTimeout
  <2>. QED BY <1>0, <1>9, <2>1, DeregisterTimeoutKeeps, KeepsAllPreserves
<1>10. ASSUME Tick \/ UNCHANGED vars PROVE CacheInv'
  <2>1. bces' = bces /\ Same
    BY <1>10 DEF Tick, vars
  <2>. QED BY <1>0, <2>1, UnchangedKeepsAll, KeepsAllPreserves
<1>. QED
  BY <1>1, <1>2, <1>3, <1>4, <1>5, <1>6, <1>7, <1>8, <1>9, <1>10, Zenon
     DEF Next, HandlePbu

\* The invariant of the cache holds in every state.
THEOREM CacheCorrect == Spec => []CacheInv
BY CacheInvInit, CacheInvNext, PTL DEF Spec

\* Whatever updates, handoffs, deregistrations and timeouts come in whatever
\* order, a tentative entry waits exactly while its register timer runs, so
\* DoDelayedRegistration never finds the tentative entry missing.
THEOREM DelayedPendingCorrect == Spec => []DelayedPending
<1>1. CacheInv => DelayedPending
  BY DEF CacheInv
<1>. QED BY <1>1, CacheCorrect, PTL

\* Every binding of a mobile node carries the prefixes of its profile, the one
\* the pool assigned at its first registration included.
THEOREM PrefixContinuityCorrect == Spec => []PrefixContinuity
<1>1. CacheInv => PrefixContinuity
  BY DEF CacheInv
<1>. QED BY <1>1, CacheCorrect, PTL

-----------------------------------------------------------------------------
(***************************************************************************)
(* The tunnels of the bindings.  A registration and a handoff of entry i   *)
(* both end with an AddTunnel for it; what the device list is then         *)
(* measured against is the cache without entry i.                          *)
(***************************************************************************)

\* The bindings of cache s with care-of address r, entry i left out.
BoundBut(s, i, r) == {j \in DOMAIN s : j # i /\ s[j].coa = r}

\* Each device counts those bindings, and the reference of its construction.
Counted(list, s, i) ==
    \A e \in DOMAIN list :
        list[e].ref = 1 + Cardinality(BoundBut(s, i, list[e].remote))

\* Each of those bindings has a device that leads to its care-of address.
Served(list, s, i) ==
    \A j \in DOMAIN s : j # i =>
        s[j].tunnelIf \in DOMAIN list /\ list[s[j].tunnelIf].remote = s[j].coa

\* Cache t is cache s with entry i written or added.
Joins(s, t, i) ==
    /\ DOMAIN t = DOMAIN s \cup {i}
    /\ \A j \in DOMAIN s : j # i => t[j].coa = s[j].coa /\ t[j].tunnelIf = s[j].tunnelIf

\* The bindings are finitely many and can be counted.
LEMMA BoundFinite ==
    ASSUME NEW s \in Seq(BceType), NEW i, NEW r
    PROVE  IsFiniteSet(BoundBut(s, i, r)) /\ Cardinality(BoundBut(s, i, r)) \in Nat
<1>1. IsFiniteSet(DOMAIN s)
  <2>1. DOMAIN s = 1 .. Len(s) /\ Len(s) \in Nat
    OBVIOUS
  <2>. QED BY <2>1, FS_Interval
<1>2. BoundBut(s, i, r) \subseteq DOMAIN s
  BY DEF BoundBut
<1>. QED BY <1>1, <1>2, FS_Subset, FS_CardinalityType

\* The device of binding i counts more than 1, and once that reference is
\* dropped the list fits the other bindings.
LEMMA DropFits ==
    ASSUME NEW list, ListOK(list), NEW s \in Seq(BceType), NEW i \in DOMAIN s,
           Counted(list, s, 0), Served(list, s, 0)
    PROVE  /\ s[i].tunnelIf \in DOMAIN list
           /\ list[s[i].tunnelIf].remote = s[i].coa
           /\ list[s[i].tunnelIf].ref > 1
           /\ \A mid : Drops(list, s[i].tunnelIf, mid) =>
                          Counted(mid, s, i) /\ Served(mid, s, i)
<1> DEFINE o == s[i].tunnelIf
<1>0. i # 0 /\ i \in Nat /\ 0 \notin DOMAIN s
  OBVIOUS
<1>1. o \in DOMAIN list /\ list[o].remote = s[i].coa
  BY <1>0 DEF Served
<1>2. /\ i \in BoundBut(s, 0, s[i].coa)
      /\ BoundBut(s, i, s[i].coa) = BoundBut(s, 0, s[i].coa) \ {i}
      /\ \A r : r # s[i].coa => BoundBut(s, i, r) = BoundBut(s, 0, r)
  BY <1>0 DEF BoundBut
<1>3. Cardinality(BoundBut(s, i, s[i].coa)) = Cardinality(BoundBut(s, 0, s[i].coa)) - 1
  <2> DEFINE B == BoundBut(s, 0, s[i].coa)
  <2>1. IsFiniteSet(B) /\ i \in B /\ BoundBut(s, i, s[i].coa) = B \ {i}
    BY <1>2, BoundFinite
  <2> HIDE DEF B
  <2>2. Cardinality(B \ {i}) = Cardinality(B) - 1
    BY <2>1, FS_RemoveElement
  <2>. QED BY <2>1, <2>2 DEF B
<1>4. list[o].ref = 1 + Cardinality(BoundBut(s, 0, s[i].coa))
  BY <1>1 DEF Counted
<1>5. list[o].ref > 1
  BY <1>3, <1>4, BoundFinite
<1>6. ASSUME NEW mid, Drops(list, o, mid)
      PROVE  Counted(mid, s, i) /\ Served(mid, s, i)
  <2> HIDE DEF o
  <2>1. Served(mid, s, i)
    BY <1>0, <1>6 DEF Served, Drops
  <2>2. SUFFICES ASSUME NEW e \in DOMAIN list
                 PROVE  mid[e].ref = 1 + Cardinality(BoundBut(s, i, mid[e].remote))
    BY <1>6, <2>1 DEF Drops, Counted
  <2>3. CASE e = o
    <3>1. mid[o].ref = list[o].ref - 1 /\ mid[o].remote = s[i].coa
      BY <1>1, <1>6 DEF Drops
    <3>. QED BY <1>3, <1>4, <2>3, <3>1, BoundFinite
  <2>4. CASE e # o
    <3>1. mid[e] = list[e] /\ list[e].remote # s[i].coa
      BY <1>1, <1>6, <2>4 DEF Drops, ListOK
    <3>. QED BY <1>2, <3>1 DEF Counted
  <2>. QED BY <2>3, <2>4
<1>. QED BY <1>1, <1>5, <1>6

\* AddTunnel for entry i makes a list that fits the others fit them all.
LEMMA AddFits ==
    ASSUME NEW mid, ListOK(mid), NEW s \in Seq(BceType), NEW t \in Seq(BceType),
           NEW i \in DOMAIN t, Joins(s, t, i),
           Counted(mid, s, i), Served(mid, s, i),
           NEW new, Adds(mid, t[i].coa, t[i].tunnelIf, new)
    PROVE  Counted(new, t, 0) /\ Served(new, t, 0)
<1> DEFINE d == t[i].tunnelIf
           r == t[i].coa
<1>0. i # 0 /\ 0 \notin DOMAIN t /\ DOMAIN mid \subseteq DOMAIN new
  BY DEF Adds
<1>1. /\ BoundBut(t, 0, r) = BoundBut(s, i, r) \cup {i}
      /\ i \notin BoundBut(s, i, r)
      /\ \A q : q # r => BoundBut(t, 0, q) = BoundBut(s, i, q)
  BY <1>0 DEF BoundBut, Joins
<1>2. Cardinality(BoundBut(t, 0, r)) = Cardinality(BoundBut(s, i, r)) + 1
  BY <1>1, BoundFinite, FS_AddElement
<1>3. d \notin DOMAIN mid => Cardinality(BoundBut(s, i, r)) = 0
  <2>1. SUFFICES ASSUME d \notin DOMAIN mid PROVE BoundBut(s, i, r) = {}
    BY FS_EmptySet
  <2>. QED BY <2>1 DEF BoundBut, Served, Adds
<1>a. d = t[i].tunnelIf /\ r = t[i].coa
  OBVIOUS
<1> HIDE DEF d, r
<1>b. Adds(mid, r, d, new)
  BY <1>a
<1>4. Counted(new, t, 0)
  <2>1. SUFFICES ASSUME NEW e \in DOMAIN new
                 PROVE  new[e].ref = 1 + Cardinality(BoundBut(t, 0, new[e].remote))
    BY DEF Counted
  <2>2. CASE e = d
    <3>1. new[d].remote = r
      BY <1>b DEF Adds
    <3>2. CASE d \in DOMAIN mid
      <4>1. new[d].ref = mid[d].ref + 1 /\ mid[d].remote = r
        BY <1>b, <3>2 DEF Adds
      <4>2. mid[d].ref = 1 + Cardinality(BoundBut(s, i, r))
        BY <3>2, <4>1 DEF Counted
      <4>. QED BY <1>2, <2>2, <3>1, <4>1, <4>2, BoundFinite
    <3>3. CASE d \notin DOMAIN mid
      <4>1. new[d].ref = 2
        BY <1>b, <3>3 DEF Adds
      <4>. QED BY <1>2, <1>3, <2>2, <3>1, <3>3, <4>1
    <3>. QED BY <3>2, <3>3
  <2>3. CASE e # d
    <3>1. e \in DOMAIN mid /\ new[e] = mid[e]
      BY <1>b, <2>3 DEF Adds
    <3>2. new[e].remote # r
      BY <1>b, <2>3 DEF Adds, ListOK
    <3>. QED BY <1>1, <3>1, <3>2 DEF Counted
  <2>. QED BY <2>2, <2>3
<1>5. Served(new, t, 0)
  <2>1. SUFFICES ASSUME NEW j \in DOMAIN t
                 PROVE  t[j].tunnelIf \in DOMAIN new /\ new[t[j].tunnelIf].remote = t[j].coa
    BY DEF Served
  <2>2. CASE j = i
    BY <1>a, <1>b, <2>2 DEF Adds
  <2>3. CASE j # i
    <3>1. /\ t[j].coa = s[j].coa /\ t[j].tunnelIf = s[j].tunnelIf
          /\ s[j].tunnelIf \in DOMAIN mid /\ mid[s[j].tunnelIf].remote = s[j].coa
      BY <2>3 DEF Joins, Served
    <3>. QED BY <1>0, <1>b, <3>1 DEF Adds
  <2>. QED BY <2>2, <2>3
<1>. QED BY <1>4, <1>5

-----------------------------------------------------------------------------
(***************************************************************************)
(* Tunnels and references, when no MAG deregisters.  With deregistrations  *)
(* the statements are false: an update that Refresh takes from another MAG *)
(* moves the entry and leaves its tunnel (see run lma_abort).              *)
(***************************************************************************)

NoDeregistration == \A p \in Pbu : p.life > 0

Fits ==
    /\ ListOK(tunnelList)
    /\ Counted(tunnelList, bces, 0)
    /\ Served(tunnelList, bces, 0)

Calm == ~aborted /\ \A i \in DOMAIN bces : bces[i].state # "DEREGISTERING"

TunnelInv == CacheInv /\ Fits /\ Calm

\* What a step may do to the devices: each keeps its place and its remote.
RemotesStay ==
    \A d \in DOMAIN tunnelList : /\ d \in DOMAIN tunnelList'
                                /\ tunnelList'[d].remote = tunnelList[d].remote

\* The tunnels after a step.
StillFits == Fits' /\ Calm' /\ RemotesStay

\* An entry that is written without its address and tunnel being changed.
LEMMA RewriteFits ==
    ASSUME TunnelInv, NEW i \in DOMAIN bces, NEW b \in BceType,
           b.coa = bces[i].coa, b.tunnelIf = bces[i].tunnelIf,
           b.state # "DEREGISTERING",
           bces' = [bces EXCEPT ![i] = b], UNCHANGED <<tunnelList, aborted>>
    PROVE  StillFits
<1>1. bces \in Seq(BceType) /\ i \in 1 .. Len(bces)
  BY DEF TunnelInv, CacheInv, TypeInv
<1>2. /\ DOMAIN bces' = DOMAIN bces /\ bces'[i] = b
      /\ \A j \in DOMAIN bces : j # i => bces'[j] = bces[j]
  BY <1>1, ExceptSeq
<1>3. \A j \in DOMAIN bces : /\ bces'[j].coa = bces[j].coa
                             /\ bces'[j].tunnelIf = bces[j].tunnelIf
                             /\ bces'[j].state # "DEREGISTERING"
  BY <1>2 DEF TunnelInv, Calm
<1>4. \A r : BoundBut(bces', 0, r) = BoundBut(bces, 0, r)
  BY <1>2, <1>3 DEF BoundBut
<1>5. Calm'
  BY <1>2, <1>3 DEF TunnelInv, Calm
<1>6. Counted(tunnelList', bces', 0)
  BY <1>4 DEF TunnelInv, Fits, Counted
<1>7. Served(tunnelList', bces', 0)
  BY <1>2, <1>3 DEF TunnelInv, Fits, Served
<1>8. ListOK(tunnelList')
  BY DEF TunnelInv, Fits
<1>. QED BY <1>5, <1>6, <1>7, <1>8 DEF Fits, StillFits, RemotesStay

\* A step that touches neither cache nor devices keeps the tunnels right.
LEMMA UnchangedFits ==
    ASSUME TunnelInv, UNCHANGED <<bces, tunnelList, aborted>>
    PROVE  StillFits
BY DEF TunnelInv, Fits, Calm, ListOK, Counted, Served, StillFits, RemotesStay

\* ModifyTunnel is past its assertions for every binding, and is a
\* RemoveTunnel followed by an AddTunnel.
LEMMA ModifyFits ==
    ASSUME TunnelInv, NEW i \in DOMAIN bces, NEW b \in BceType,
           b.state = "REACHABLE", ModifyTunnelAndRouting(i, b)
    PROVE  StillFits
<1> DEFINE o   == bces[i].tunnelIf
           r   == bces[i].coa
           mid == RemoveTunnelList(tunnelList, r)
           n   == AddTunnelIf(mid, b.coa)
           new == AddTunnelList(mid, b.coa)
           c   == [b EXCEPT !.tunnelIf = n]
<1>0. /\ bces \in Seq(BceType) /\ i \in 1 .. Len(bces) /\ tunnelList \in Seq(Device)
      /\ ListOK(tunnelList) /\ b.coa \in Addr
      /\ Counted(tunnelList, bces, 0) /\ Served(tunnelList, bces, 0)
  <2>1. bces \in Seq(BceType) /\ tunnelList \in Seq(Device) /\ Fits
    BY DEF TunnelInv, CacheInv, TypeInv
  <2>2. b.coa \in Addr
    BY DEF BceType
  <2>. QED BY <2>1, <2>2 DEF Fits
<1>1. /\ o \in DOMAIN tunnelList /\ tunnelList[o].remote = r /\ tunnelList[o].ref > 1
      /\ \A m : Drops(tunnelList, o, m) => Counted(m, bces, i) /\ Served(m, bces, i)
  BY <1>0, DropFits, Zenon
<1>2. GetTunnelDevice(tunnelList, r) = o
  BY <1>0, <1>1, GetTunnelDeviceOf
<1>3. Drops(tunnelList, o, mid)
  BY <1>0, <1>1, RemoveTunnelCorrect
<1>4. Counted(mid, bces, i) /\ Served(mid, bces, i) /\ ListOK(mid)
  BY <1>1, <1>3, Zenon DEF Drops
<1>5. Adds(mid, b.coa, n, new)
  BY <1>0, <1>4, AddTunnelCorrect, Zenon
<1>6. /\ tunnelList' = new /\ bces' = [bces EXCEPT ![i] = c] /\ aborted' = aborted
  <2>1. o # 0 /\ tunnelList[o].ref > 0
    <3>1. tunnelList[o] \in Device /\ o # 0
      BY <1>0, <1>1
    <3>. QED BY <1>1, <3>1 DEF Device
  <2>2. ModifyTunnelAsserts(tunnelList, r)
    BY <1>2, <2>1, Zenon DEF ModifyTunnelAsserts
  <2>3. /\ ModifyTunnelIf(tunnelList, r, b.coa) = n
        /\ ModifyTunnelList(tunnelList, r, b.coa) = new
    BY <1>1, <1>2, Zenon DEF ModifyTunnelIf, ModifyTunnelList
  <2>. QED BY <2>2, <2>3, Zenon DEF ModifyTunnelAndRouting
<1>a. n \in Nat
  BY <1>5 DEF Adds, ListOK
<1> HIDE DEF mid, n, new
<1>7. c \in BceType /\ c.tunnelIf = n /\ c.coa = b.coa /\ c.state = "REACHABLE"
  BY <1>a DEF BceType
<1> HIDE DEF c, o, r
<1>8. /\ bces' \in Seq(BceType) /\ DOMAIN bces' = DOMAIN bces /\ bces'[i] = c
      /\ \A j \in DOMAIN bces : j # i => bces'[j] = bces[j]
  BY <1>0, <1>6, <1>7, ExceptSeq
<1>9. Joins(bces, bces', i)
  BY <1>8 DEF Joins
<1>10. Counted(new, bces', 0) /\ Served(new, bces', 0)
  <2>1. Adds(mid, bces'[i].coa, bces'[i].tunnelIf, new) /\ i \in DOMAIN bces'
    BY <1>5, <1>7, <1>8
  <2>. QED BY <1>0, <1>4, <1>8, <1>9, <2>1, AddFits, Zenon
<1>11. ListOK(new)
  BY <1>5 DEF Adds
<1>12. Fits'
  BY <1>6, <1>10, <1>11 DEF Fits
<1>13. Calm'
  BY <1>6, <1>7, <1>8 DEF TunnelInv, Calm
<1>14. RemotesStay
  BY <1>3, <1>5, <1>6 DEF Drops, Adds, RemotesStay
<1>. QED BY <1>12, <1>13, <1>14 DEF StillFits

\* A new entry takes a reference on the device of its MAG.
LEMMA CreateFits ==
    ASSUME TunnelInv, NEW p \in Pbu, Create(p)
    PROVE  StillFits
<1> DEFINE b   == NewBce(p)
           i   == Len(bces) + 1
           new == AddTunnelList(tunnelList, p.src)
<1>0. /\ bces \in Seq(BceType) /\ ListOK(tunnelList) /\ p.src \in Addr /\ TypeInv
      /\ Counted(tunnelList, bces, 0) /\ Served(tunnelList, bces, 0)
  BY PbuFields DEF TunnelInv, CacheInv, TypeInv, Fits
<1>1. /\ b \in BceType /\ b.coa = p.src /\ b.state = "REACHABLE"
      /\ b.tunnelIf = AddTunnelIf(tunnelList, p.src)
  <2>1. b \in BceType
    BY <1>0, CreateExtends, Zenon DEF Extends
  <2>. QED BY <2>1 DEF NewBce
<1>2. bces' = Append(bces, b) /\ tunnelList' = new /\ aborted' = aborted
  BY <1>1 DEF Create, SetupTunnelAndRouting
<1>3. Adds(tunnelList, b.coa, b.tunnelIf, new)
  <2>1. Adds(tunnelList, p.src, AddTunnelIf(tunnelList, p.src), new)
    BY <1>0, AddTunnelCorrect, Zenon
  <2>. QED BY <1>1, <2>1, Zenon
<1> HIDE DEF b, new
<1>4. /\ bces' \in Seq(BceType) /\ DOMAIN bces' = DOMAIN bces \cup {i}
      /\ bces'[i] = b /\ \A j \in DOMAIN bces : bces'[j] = bces[j]
      /\ i \notin DOMAIN bces /\ 0 \notin DOMAIN bces
  BY <1>0, <1>1, <1>2
<1>a. i = Len(bces) + 1
  OBVIOUS
<1> HIDE DEF i
<1>5. Joins(bces, bces', i)
  BY <1>4 DEF Joins
<1>6. Counted(tunnelList, bces, i) /\ Served(tunnelList, bces, i)
  <2>1. \A r : BoundBut(bces, i, r) = BoundBut(bces, 0, r)
    BY <1>4 DEF BoundBut
  <2>. QED BY <1>0, <1>4, <2>1 DEF Counted, Served
<1>7. Counted(new, bces', 0) /\ Served(new, bces', 0)
  <2>1. Adds(tunnelList, bces'[i].coa, bces'[i].tunnelIf, new) /\ i \in DOMAIN bces'
    BY <1>3, <1>4
  <2>. QED BY <1>0, <1>4, <1>5, <1>6, <2>1, AddFits, Zenon
<1>8. Fits'
  <2>1. ListOK(new)
    BY <1>3 DEF Adds
  <2>. QED BY <1>2, <1>7, <2>1 DEF Fits
<1>9. Calm'
  BY <1>1, <1>2, <1>4 DEF TunnelInv, Calm
<1>10. RemotesStay
  BY <1>2, <1>3 DEF Adds, RemotesStay
<1>. QED BY <1>8, <1>9, <1>10 DEF StillFits

\* There are no bindings and no devices at first.
LEMMA TunnelInvInit == Init => TunnelInv
<1> SUFFICES ASSUME Init PROVE TunnelInv
  OBVIOUS
<1>1. DOMAIN bces = {} /\ tunnelList = <<>> /\ DOMAIN tunnelList = {} /\ ~aborted
  BY DEF Init
<1>2. ListOK(tunnelList)
  BY <1>1 DEF ListOK
<1>. QED BY <1>1, <1>2, CacheInvInit DEF TunnelInv, Fits, Calm, Counted, Served

\* One step of Lma without deregistrations, action by action.
LEMMA TunnelStep ==
    ASSUME NoDeregistration, TunnelInv, [Next]_vars
    PROVE  StillFits
<1>0. TypeInv /\ \A i \in DOMAIN bces : bces[i] \in BceType
  BY DEF TunnelInv, CacheInv, TypeInv
<1>1. ASSUME NEW p \in Pbu, Reject(p) PROVE StillFits
  BY <1>1, UnchangedFits DEF Reject
<1>2. ASSUME NEW p \in Pbu, NEW i \in DOMAIN bces, Refresh(p, i) PROVE StillFits
  <2> DEFINE b == Updated(bces[i], p)
  <2>1. bces[i].coa = p.src
    BY <1>2 DEF Refresh, TunnelInv, Calm
  <2>2. Keeps(bces[i], b) /\ b.coa = p.src /\ b.state = "REACHABLE"
        /\ b.tunnelIf = bces[i].tunnelIf
    BY <1>0, PbuFields, UpdateKeeps, Zenon
  <2>3. bces' = [bces EXCEPT ![i] = b] /\ UNCHANGED <<tunnelList, aborted>>
    BY <1>2 DEF Refresh
  <2> HIDE DEF b
  <2>. QED BY <2>1, <2>2, <2>3, RewriteFits DEF Keeps
<1>3. ASSUME NEW p \in Pbu, NEW i \in DOMAIN bces, DelayRegistration(p, i)
      PROVE  StillFits
  <2>1. UNCHANGED <<tunnelList, aborted>>
    BY <1>3 DEF DelayRegistration
  <2>2. CASE bces[i].state = "REGISTERING"
    <3>1. bces' = bces
      BY <1>3, <2>2, Zenon DEF DelayRegistration
    <3>. QED BY <2>1, <3>1, UnchangedFits
  <2>3. CASE bces[i].state # "REGISTERING"
    <3> DEFINE t == Tentative(p)
               b == [bces[i] EXCEPT !.state = "REGISTERING", !.tentative = t,
                                    !.registerTimer = TRUE]
    <3>1. t \in TentativeType
      BY PbuFields DEF Tentative, TentativeType
    <3>2. bces' = [bces EXCEPT ![i] = b]
      BY <1>0, <1>3, <2>3 DEF DelayRegistration, TypeInv
    <3> HIDE DEF t
    <3>3. /\ b \in BceType /\ b.coa = bces[i].coa
          /\ b.tunnelIf = bces[i].tunnelIf /\ b.state # "DEREGISTERING"
      BY <1>0, <3>1 DEF BceType
    <3> HIDE DEF b
    <3>. QED BY <2>1, <3>2, <3>3, RewriteFits
  <2>. QED BY <2>2, <2>3
<1>4. ASSUME NEW p \in Pbu, NEW i \in DOMAIN bces, Handoff(p, i) PROVE StillFits
  <2>1. Updated(bces[i], p) \in BceType /\ Updated(bces[i], p).state = "REACHABLE"
    BY <1>0, PbuFields, UpdateKeeps, Zenon DEF Keeps
  <2>. QED BY <1>4, <2>1, ModifyFits, Zenon DEF Handoff
<1>5. ASSUME NEW p \in Pbu, NEW i \in DOMAIN bces, Deregister(p, i) PROVE FALSE
  BY <1>5 DEF Deregister, NoDeregistration
<1>6. ASSUME NEW p \in Pbu, Create(p) PROVE StillFits
  BY <1>6, CreateFits
<1>7. ASSUME NEW p \in Pbu, UnknownDeregister(p) PROVE FALSE
  BY <1>7 DEF UnknownDeregister, NoDeregistration
<1>8. ASSUME NEW i \in DOMAIN bces, RegisterTimeout(i) PROVE StillFits
  <2> DEFINE t == bces[i].tentative
             u == LateUpdated(bces[i], t)
             b == [u EXCEPT !.tentative = None, !.registerTimer = FALSE]
  <2>1. t # None
    BY <1>8, Zenon DEF RegisterTimeout, TunnelInv, CacheInv, DelayedPending
  <2>2. /\ t.src \in Addr /\ t.hi \in HandoffIndicator /\ t.att \in AccessTechnology
        /\ t.life \in Nat /\ t.time \in Nat /\ t.seq \in Nat
    <3>1. t \in TentativeType
      BY <1>0, <2>1 DEF BceType
    <3>. QED BY <3>1 DEF TentativeType
  <2>3. u \in BceType /\ u.state = "REACHABLE"
    BY <1>0, <2>2, UpdateKeeps, Zenon DEF Keeps
  <2>4. ModifyTunnelAndRouting(i, b)
    BY <1>8, <2>1, Zenon DEF RegisterTimeout
  <2> HIDE DEF t, u
  <2>5. b \in BceType /\ b.state = "REACHABLE"
    BY <2>3 DEF BceType
  <2> HIDE DEF b
  <2>. QED BY <2>4, <2>5, ModifyFits
<1>9. ASSUME NEW i \in DOMAIN bces, DeregisterTimeout(i) PROVE StillFits
  <2> DEFINE b == [bces[i] EXCEPT !.deregisterTimer = FALSE]
  <2>1. bces' = [bces EXCEPT ![i] = b] /\ UNCHANGED <<tunnelList, aborted>>
    BY <1>0, <1>9 DEF DeregisterTimeout, TypeInv
  <2>2. /\ b \in BceType /\ b.coa = bces[i].coa
        /\ b.tunnelIf = bces[i].tunnelIf /\ b.state = bces[i].state
    BY <1>0 DEF BceType
  <2> HIDE DEF b
  <2>3. b.state # "DEREGISTERING"
    BY <2>2 DEF TunnelInv, Calm
  <2>. QED BY <2>1, <2>2, <2>3, RewriteFits
<1>10. ASSUME Tick \/ UNCHANGED vars PROVE StillFits
  BY <1>10, UnchangedFits DEF Tick, vars
<1>. QED
  BY <1>1, <1>2, <1>3, <1>4, <1>5, <1>6, <1>7, <1>8, <1>9, <1>10, Zenon
     DEF Next, HandlePbu

LEMMA TunnelInvNext ==
    ASSUME NoDeregistration
    PROVE  TunnelInv /\ [Next]_vars => TunnelInv'
<1>1. TunnelInv /\ [Next]_vars => CacheInv'
  BY CacheInvNext DEF TunnelInv
<1>. QED BY <1>1, TunnelStep DEF TunnelInv, StillFits

\* The invariant of the tunnels holds in every state.
THEOREM TunnelInvCorrect ==
    ASSUME NoDeregistration
    PROVE  Spec => []TunnelInv
<1>1. Init => TunnelInv
  BY TunnelInvInit
<1>2. TunnelInv /\ [Next]_vars => TunnelInv'
  BY TunnelInvNext
<1>. QED BY <1>1, <1>2, PTL DEF Spec

\* If no MAG deregisters, no ModifyTunnel of a handoff or of a delayed
\* registration runs into its assertions, however many bindings share a
\* tunnel and in whatever order updates and timeouts come.
THEOREM NeverAbortsCorrect ==
    ASSUME NoDeregistration
    PROVE  Spec => []NeverAborts
<1>1. TunnelInv => NeverAborts
  BY DEF TunnelInv, Calm, NeverAborts
<1>. QED BY <1>1, TunnelInvCorrect, PTL

\* Then, too, the tunnel of every binding leads to its care-of address.
THEOREM TunnelServesCoaCorrect ==
    ASSUME NoDeregistration
    PROVE  Spec => []TunnelServesCoa
<1>1. TunnelInv => TunnelServesCoa
  <2>1. TunnelInv => 0 \notin DOMAIN bces
    BY DEF TunnelInv, CacheInv, TypeInv
  <2>. QED BY <2>1 DEF TunnelInv, Fits, Served, TunnelServesCoa
<1>. QED BY <1>1, TunnelInvCorrect, PTL

\* Then, too, a device counts its bindings and the reference of its
\* construction: handoffs neither leak nor lose references.
THEOREM RefCountsBindingsCorrect ==
    ASSUME NoDeregistration
    PROVE  Spec => []RefCountsBindings
<1>1. TunnelInv => RefCountsBindings
  <2> SUFFICES ASSUME TunnelInv, NEW d \in DOMAIN tunnelList
               PROVE  tunnelList[d].ref =
                        1 + Cardinality({i \in DOMAIN bces :
                                            bces[i].coa = tunnelList[d].remote})
    BY DEF RefCountsBindings, Bindings
  <2>1. 0 \notin DOMAIN bces
    BY DEF TunnelInv, CacheInv, TypeInv
  <2>2. BoundBut(bces, 0, tunnelList[d].remote) =
          {i \in DOMAIN bces : bces[i].coa = tunnelList[d].remote}
    BY <2>1 DEF BoundBut
  <2>. QED BY <2>2 DEF TunnelInv, Fits, Counted
<1>. QED BY <1>1, TunnelInvCorrect, PTL

(***************************************************************************)
(* What a MAG is told.                                                     *)
(***************************************************************************)

\* The answer that is built from the entry it is about.
LEMMA AnswerBound ==
    ASSUME TypeInv, NEW i \in DOMAIN bces, NEW b \in BceType, NEW c \in BceType,
           bces' = [bces EXCEPT ![i] = c],
           c.mn = b.mn, c.hnps = b.hnps, out' = PbaOfBce(b, c.coa)
    PROVE  AcceptedMeansBound'
<1>1. i \in DOMAIN bces' /\ bces'[i] = c
  BY ExceptSeq DEF TypeInv
<1>2. out'.mn = b.mn /\ out'.hnps = b.hnps /\ out'.dst = c.coa
  BY DEF PbaOfBce
<1>. QED BY <1>1, <1>2 DEF AcceptedMeansBound

\* Handoff and delayed registration answer the MAG the entry moves to.
LEMMA ModifyAnswers ==
    ASSUME TypeInv, AcceptedMeansBound, NEW i \in DOMAIN bces, NEW b \in BceType,
           ModifyTunnelAndRouting(i, b)
    PROVE  AcceptedMeansBound'
<1> DEFINE r == bces[i].coa
           n == ModifyTunnelIf(tunnelList, r, b.coa)
           c == [b EXCEPT !.tunnelIf = n]
<1>1. CASE ModifyTunnelAsserts(tunnelList, r)
  <2>1. bces' = [bces EXCEPT ![i] = c] /\ out' = PbaOfBce(b, b.coa)
    BY <1>1, Zenon DEF ModifyTunnelAndRouting
  <2>2. b.coa \in Addr
    BY DEF BceType
  <2>3. n \in Nat
    BY <1>1, <2>2, ModifyTunnelTyped DEF TypeInv
  <2> HIDE DEF n
  <2>4. c \in BceType /\ c.mn = b.mn /\ c.hnps = b.hnps /\ c.coa = b.coa
    BY <2>3 DEF BceType
  <2> HIDE DEF c
  <2>5. out' = PbaOfBce(b, c.coa)
    BY <2>1, <2>4, Zenon
  <2>. QED BY <2>1, <2>4, <2>5, AnswerBound
<1>2. CASE ~ModifyTunnelAsserts(tunnelList, r)
  <2>1. bces' = bces /\ out' = out
    BY <1>2, Zenon DEF ModifyTunnelAndRouting
  <2>. QED BY <2>1 DEF AcceptedMeansBound
<1>. QED BY <1>1, <1>2

\* A new binding is answered with what it holds.
LEMMA CreateAnswers ==
    ASSUME TypeInv, NEW p \in Pbu, Create(p)
    PROVE  AcceptedMeansBound'
<1> DEFINE b == NewBce(p)
<1>1. bces' = Append(bces, b) /\ out' = PbaOfBce(b, p.src)
  BY DEF Create
<1>2. b.coa = p.src
  BY DEF NewBce
<1> HIDE DEF b
<1>3. Len(bces) + 1 \in DOMAIN bces' /\ bces'[Len(bces) + 1] = b
  BY <1>1 DEF TypeInv
<1>4. out'.mn = b.mn /\ out'.hnps = b.hnps /\ out'.dst = p.src
  BY <1>1 DEF PbaOfBce
<1>. QED BY <1>2, <1>3, <1>4 DEF AcceptedMeansBound

LEMMA AnswersNext ==
    ASSUME NoDeregistration, CacheInv, AcceptedMeansBound, [Next]_vars
    PROVE  AcceptedMeansBound'
<1>0. TypeInv /\ \A i \in DOMAIN bces : bces[i] \in BceType
  BY DEF CacheInv, TypeInv
<1>1. ASSUME NEW p \in Pbu, Reject(p) PROVE AcceptedMeansBound'
  <2>1. out'.status # "ACCEPTED"
    BY <1>1 DEF Reject, PbaOfPbu
  <2>. QED BY <2>1 DEF AcceptedMeansBound
<1>2. ASSUME NEW p \in Pbu, NEW i \in DOMAIN bces, Refresh(p, i)
      PROVE  AcceptedMeansBound'
  <2> DEFINE u == Updated(bces[i], p)
  <2>1. u \in BceType /\ u.coa = p.src
    BY <1>0, PbuFields, UpdateKeeps, Zenon DEF Keeps
  <2>2. bces' = [bces EXCEPT ![i] = u] /\ out' = PbaOfBce(u, p.src)
    BY <1>2 DEF Refresh
  <2> HIDE DEF u
  <2>3. out' = PbaOfBce(u, u.coa)
    BY <2>1, <2>2, Zenon
  <2>. QED BY <1>0, <2>1, <2>2, <2>3, AnswerBound
<1>3. ASSUME NEW p \in Pbu, NEW i \in DOMAIN bces, DelayRegistration(p, i)
      PROVE  AcceptedMeansBound'
  BY <1>3 DEF DelayRegistration, AcceptedMeansBound
<1>4. ASSUME NEW p \in Pbu, NEW i \in DOMAIN bces, Handoff(p, i)
      PROVE  AcceptedMeansBound'
  <2>1. Updated(bces[i], p) \in BceType
    BY <1>0, PbuFields, UpdateKeeps, Zenon DEF Keeps
  <2>. QED BY <1>0, <1>4, <2>1, ModifyAnswers, Zenon DEF Handoff
<1>5. ASSUME NEW p \in Pbu, NEW i \in DOMAIN bces, Deregister(p, i) PROVE FALSE
  BY <1>5 DEF Deregister, NoDeregistration
<1>6. ASSUME NEW p \in Pbu, Create(p) PROVE AcceptedMeansBound'
  BY <1>0, <1>6, CreateAnswers
<1>7. ASSUME NEW p \in Pbu, UnknownDeregister(p) PROVE FALSE
  BY <1>7 DEF UnknownDeregister, NoDeregistration
<1>8. ASSUME NEW i \in DOMAIN bces, RegisterTimeout(i) PROVE AcceptedMeansBound'
  <2> DEFINE t == bces[i].tentative
             u == LateUpdated(bces[i], t)
             b == [u EXCEPT !.tentative = None, !.registerTimer = FALSE]
  <2>1. t # None
    BY <1>8, Zenon DEF RegisterTimeout, CacheInv, DelayedPending
  <2>2. /\ t.src \in Addr /\ t.hi \in HandoffIndicator /\ t.att \in AccessTechnology
        /\ t.life \in Nat /\ t.time \in Nat /\ t.seq \in Nat
    <3>1. t \in TentativeType
      BY <1>0, <2>1 DEF BceType
    <3>. QED BY <3>1 DEF TentativeType
  <2>3. u \in BceType
    BY <1>0, <2>2, UpdateKeeps, Zenon DEF Keeps
  <2>4. ModifyTunnelAndRouting(i, b)
    BY <1>8, <2>1, Zenon DEF RegisterTimeout
  <2> HIDE DEF t, u
  <2>5. b \in BceType
    BY <2>3 DEF BceType
  <2> HIDE DEF b
  <2>. QED BY <1>0, <2>4, <2>5, ModifyAnswers
<1>9. ASSUME NEW i \in DOMAIN bces, DeregisterTimeout(i) PROVE AcceptedMeansBound'
  BY <1>9 DEF DeregisterTimeout, AcceptedMeansBound
<1>10. ASSUME Tick PROVE AcceptedMeansBound'
  BY <1>10 DEF Tick, AcceptedMeansBound
<1>11. ASSUME UNCHANGED vars PROVE AcceptedMeansBound'
  BY <1>11 DEF vars, AcceptedMeansBound
<1>. QED
  BY <1>1, <1>2, <1>3, <1>4, <1>5, <1>6, <1>7, <1>8, <1>9, <1>10, <1>11, Zenon
     DEF Next, HandlePbu

\* If no MAG deregisters, a MAG that is answered ACCEPTED holds a binding of the
\* node with just the prefixes it is told, in whatever order updates, delayed
\* registrations and timeouts come.
THEOREM AcceptedMeansBoundCorrect ==
    ASSUME NoDeregistration
    PROVE  Spec => []AcceptedMeansBound
<1>1. Init => AcceptedMeansBound
  BY DEF Init, AcceptedMeansBound
<1>2. CacheInv /\ AcceptedMeansBound /\ [Next]_vars => AcceptedMeansBound'
  BY AnswersNext
<1>. QED BY <1>1, <1>2, CacheCorrect, PTL DEF Spec

(***************************************************************************)
(* The routes of the bindings.  These hold with deregistrations as well.   *)
(***************************************************************************)

\* In table new the prefixes hnps have a route through i, which is the one that
\* lookups find; otherwise table old has lost no route.
Gains(old, hnps, i, new) ==
    /\ new \in [Prefix -> Seq(Nat)]
    /\ \A h \in Prefix : Range(old[h]) \subseteq Range(new[h])
    /\ \A h \in hnps : /\ new[h] # <<>> /\ LookupStatic(new[h]) = i
                       /\ i \in Range(new[h])
    /\ \A h \in Prefix \ hnps : new[h] = old[h]

\* Routes are only ever gained: RemoveRoute asks for a prefixToUse that no
\* route has, so the routes through the tunnel that was left stay.
LEMMA RoutesGain ==
    ASSUME routes \in [Prefix -> Seq(Nat)], NEW hnps \in SUBSET Prefix,
           NEW old, NEW i \in Nat
    PROVE  /\ Gains(routes, hnps, i, MovedRoutes(hnps, old, i))
           /\ Gains(routes, hnps, i,
                    [h \in Prefix |-> IF h \in hnps THEN AddNetworkRoute(routes[h], i)
                                      ELSE routes[h]])
<1> DEFINE new == [h \in Prefix |-> IF h \in hnps THEN AddNetworkRoute(routes[h], i)
                                    ELSE routes[h]]
<1>1. MovedRoutes(hnps, old, i) = new
  <2>1. \A h \in Prefix : RemoveRoute(routes[h], old, h) = routes[h]
    BY PrefixAssumption DEF RemoveRoute
  <2>. QED BY <2>1 DEF MovedRoutes
<1>2. \A h \in Prefix :
         /\ AddNetworkRoute(routes[h], i) \in Seq(Nat)
         /\ AddNetworkRoute(routes[h], i) # <<>>
         /\ LookupStatic(AddNetworkRoute(routes[h], i)) = i
         /\ Range(routes[h]) \cup {i} \subseteq Range(AddNetworkRoute(routes[h], i))
  BY AddNetworkRouteCorrect
<1>3. \A h \in Prefix : new[h] = IF h \in hnps THEN AddNetworkRoute(routes[h], i)
                                 ELSE routes[h]
  OBVIOUS
<1>4. new \in [Prefix -> Seq(Nat)]
  BY <1>2
<1> HIDE DEF new
<1>5. Gains(routes, hnps, i, new)
  BY <1>2, <1>3, <1>4 DEF Gains
<1>. QED BY <1>1, <1>5 DEF new

\* A step that leaves the routes, and the tunnel of every entry, alone.
Still ==
    /\ DOMAIN bces' = DOMAIN bces /\ routes' = routes
    /\ \A j \in DOMAIN bces : /\ bces'[j].hnps = bces[j].hnps
                              /\ bces'[j].tunnelIf = bces[j].tunnelIf

\* A step that adds entry i or moves it to another tunnel, with its routes.
Moves(i) ==
    /\ DOMAIN bces' = DOMAIN bces \cup {i}
    /\ i \in DOMAIN bces => bces'[i].hnps = bces[i].hnps
    /\ \A j \in DOMAIN bces : j # i => /\ bces'[j].hnps = bces[j].hnps
                                       /\ bces'[j].tunnelIf = bces[j].tunnelIf
    /\ Gains(routes, bces'[i].hnps, bces'[i].tunnelIf, routes')

\* The route that lookups find for a prefix leads through the tunnel of a
\* binding of that prefix.
LookupServes ==
    \A i \in DOMAIN bces : \A h \in bces[i].hnps :
        /\ routes[h] # <<>>
        /\ \E j \in DOMAIN bces : /\ h \in bces[j].hnps
                                  /\ LookupStatic(routes[h]) = bces[j].tunnelIf

RouteInv ==
    /\ routes \in [Prefix -> Seq(Nat)]
    /\ BindingsRouted
    /\ LookupServes

LEMMA StillRoutes ==
    ASSUME RouteInv, Still
    PROVE  RouteInv'
<1>1. BindingsRouted'
  BY DEF RouteInv, Still, BindingsRouted
<1>2. LookupServes'
  BY DEF RouteInv, Still, LookupServes
<1>. QED BY <1>1, <1>2 DEF RouteInv, Still

LEMMA MovesRoutes ==
    ASSUME RouteInv, NEW i, Moves(i),
           \A j \in DOMAIN bces' : bces'[j].hnps \subseteq Prefix
    PROVE  RouteInv'
<1>1. BindingsRouted'
  <2> SUFFICES ASSUME NEW j \in DOMAIN bces', NEW h \in bces'[j].hnps
               PROVE  bces'[j].tunnelIf \in Range(routes'[h])
    BY DEF BindingsRouted
  <2>1. CASE j = i
    BY <2>1 DEF Moves, Gains
  <2>2. CASE j # i
    <3>1. j \in DOMAIN bces /\ h \in bces[j].hnps /\ h \in Prefix
          /\ bces'[j].tunnelIf = bces[j].tunnelIf
      BY <2>2 DEF Moves
    <3>2. bces[j].tunnelIf \in Range(routes[h])
      BY <3>1 DEF RouteInv, BindingsRouted
    <3>. QED BY <3>1, <3>2 DEF Moves, Gains
  <2>. QED BY <2>1, <2>2
<1>2. LookupServes'
  <2> SUFFICES ASSUME NEW k \in DOMAIN bces', NEW h \in bces'[k].hnps
               PROVE  /\ routes'[h] # <<>>
                      /\ \E j \in DOMAIN bces' :
                            /\ h \in bces'[j].hnps
                            /\ LookupStatic(routes'[h]) = bces'[j].tunnelIf
    BY DEF LookupServes
  <2>1. CASE h \in bces'[i].hnps
    <3>1. i \in DOMAIN bces' /\ routes'[h] # <<>>
          /\ LookupStatic(routes'[h]) = bces'[i].tunnelIf
      BY <2>1 DEF Moves, Gains
    <3>. QED BY <2>1, <3>1
  <2>2. CASE h \notin bces'[i].hnps
    <3>1. k # i /\ k \in DOMAIN bces /\ h \in bces[k].hnps /\ h \in Prefix
      BY <2>2 DEF Moves
    <3>2. routes'[h] = routes[h]
      BY <2>2, <3>1 DEF Moves, Gains
    <3>3. routes[h] # <<>> /\ \E j \in DOMAIN bces :
             h \in bces[j].hnps /\ LookupStatic(routes[h]) = bces[j].tunnelIf
      BY <3>1 DEF RouteInv, LookupServes
    <3>4. PICK j \in DOMAIN bces :
             h \in bces[j].hnps /\ LookupStatic(routes[h]) = bces[j].tunnelIf
      BY <3>3
    <3>5. j # i
      BY <2>2, <3>4 DEF Moves
    <3>6. j \in DOMAIN bces' /\ h \in bces'[j].hnps
          /\ bces'[j].tunnelIf = bces[j].tunnelIf
      BY <3>4, <3>5 DEF Moves
    <3>. QED BY <3>2, <3>3, <3>4, <3>6
  <2>. QED BY <2>1, <2>2
<1>. QED BY <1>1, <1>2 DEF RouteInv, Moves, Gains

\* Writing an entry without changing its prefixes and its tunnel.
LEMMA RewriteStill ==
    ASSUME TypeInv, NEW i \in DOMAIN bces, NEW b \in BceType,
           b.hnps = bces[i].hnps, b.tunnelIf = bces[i].tunnelIf,
           bces' = [bces EXCEPT ![i] = b], routes' = routes
    PROVE  Still
<1>1. bces \in Seq(BceType) /\ i \in 1 .. Len(bces)
  BY DEF TypeInv
<1>2. /\ DOMAIN bces' = DOMAIN bces /\ bces'[i] = b
      /\ \A j \in DOMAIN bces : j # i => bces'[j] = bces[j]
  BY <1>1, ExceptSeq
<1>. QED BY <1>2 DEF Still

\* ModifyTunnelAndRouting moves the routes with the tunnel; if the tunnel stays
\* the one it was, so do the routes.
LEMMA ModifyMoves ==
    ASSUME TypeInv, routes \in [Prefix -> Seq(Nat)], NEW i \in DOMAIN bces,
           NEW b \in BceType, b.hnps = bces[i].hnps, ModifyTunnelAndRouting(i, b)
    PROVE  Still \/ Moves(i)
<1> DEFINE r == bces[i].coa
           o == bces[i].tunnelIf
           n == ModifyTunnelIf(tunnelList, r, b.coa)
           c == [b EXCEPT !.tunnelIf = n]
<1>1. CASE ~ModifyTunnelAsserts(tunnelList, r)
  BY <1>1, Zenon DEF ModifyTunnelAndRouting, Still
<1>2. CASE ModifyTunnelAsserts(tunnelList, r)
  <2>1. /\ bces' = [bces EXCEPT ![i] = c]
        /\ routes' = IF n = o THEN routes ELSE MovedRoutes(b.hnps, o, n)
    BY <1>2, Zenon DEF ModifyTunnelAndRouting
  <2>2. b.coa \in Addr /\ b.hnps \in SUBSET Prefix
    BY DEF BceType
  <2>3. n \in Nat
    BY <1>2, <2>2, ModifyTunnelTyped DEF TypeInv
  <2> HIDE DEF n
  <2>4. c \in BceType /\ c.hnps = b.hnps /\ c.tunnelIf = n
    BY <2>3 DEF BceType
  <2> HIDE DEF c
  <2>5. CASE n = o
    BY <2>1, <2>4, <2>5, RewriteStill
  <2>6. CASE n # o
    <3>1. bces \in Seq(BceType) /\ i \in 1 .. Len(bces)
      BY DEF TypeInv
    <3>2. /\ DOMAIN bces' = DOMAIN bces /\ bces'[i] = c
          /\ \A j \in DOMAIN bces : j # i => bces'[j] = bces[j]
      BY <2>1, <2>4, <3>1, ExceptSeq
    <3>3. Gains(routes, b.hnps, n, routes')
      BY <2>1, <2>2, <2>3, <2>6, RoutesGain
    <3>. QED BY <2>4, <3>2, <3>3 DEF Moves
  <2>. QED BY <2>5, <2>6
<1>. QED BY <1>1, <1>2

\* A new binding comes with its routes.
LEMMA CreateMoves ==
    ASSUME TypeInv, routes \in [Prefix -> Seq(Nat)], NEW p \in Pbu, Create(p)
    PROVE  Moves(Len(bces) + 1)
<1> DEFINE b == NewBce(p)
           i == Len(bces) + 1
<1>1. b \in BceType /\ bces' = Append(bces, b)
  BY CreateExtends, Zenon DEF Extends
<1>2. routes' = [h \in Prefix |-> IF h \in b.hnps
                                  THEN AddNetworkRoute(routes[h], b.tunnelIf)
                                  ELSE routes[h]]
  BY Zenon DEF Create, SetupTunnelAndRouting
<1> HIDE DEF b
<1>3. b.hnps \in SUBSET Prefix /\ b.tunnelIf \in Nat
  BY <1>1 DEF BceType
<1>4. Gains(routes, b.hnps, b.tunnelIf, routes')
  BY <1>2, <1>3, RoutesGain, Zenon
<1>5. /\ DOMAIN bces' = DOMAIN bces \cup {i} /\ bces'[i] = b /\ i \notin DOMAIN bces
      /\ \A j \in DOMAIN bces : bces'[j] = bces[j]
  BY <1>1 DEF TypeInv
<1>. QED BY <1>4, <1>5 DEF Moves

\* Every step leaves the routes and tunnels alone or moves those of one entry.
LEMMA StepMoves ==
    ASSUME CacheInv, routes \in [Prefix -> Seq(Nat)], [Next]_vars
    PROVE  \/ Still
           \/ \E i \in DOMAIN bces' :
                 Moves(i) /\ (i \in DOMAIN bces \/ Len(bces) < MaxBce)
<1>0. TypeInv /\ \A i \in DOMAIN bces : bces[i] \in BceType
  BY DEF CacheInv, TypeInv
<1>1. ASSUME UNCHANGED <<bces, routes>> PROVE Still
  BY <1>1 DEF Still
<1>2. ASSUME NEW p \in Pbu, NEW i \in DOMAIN bces, Refresh(p, i) PROVE Still
  <2>1. /\ Updated(bces[i], p) \in BceType
        /\ Updated(bces[i], p).hnps = bces[i].hnps
        /\ Updated(bces[i], p).tunnelIf = bces[i].tunnelIf
    BY <1>0, PbuFields, UpdateKeeps, Zenon DEF Keeps
  <2>2. bces' = [bces EXCEPT ![i] = Updated(bces[i], p)] /\ routes' = routes
    BY <1>2 DEF Refresh
  <2>. QED BY <1>0, <2>1, <2>2, RewriteStill
<1>3. ASSUME NEW p \in Pbu, NEW i \in DOMAIN bces, DelayRegistration(p, i)
      PROVE  Still
  <2>1. CASE bces[i].state = "REGISTERING"
    BY <1>1, <1>3, <2>1 DEF DelayRegistration
  <2>2. CASE bces[i].state # "REGISTERING"
    <3> DEFINE t == Tentative(p)
               b == [bces[i] EXCEPT !.state = "REGISTERING", !.tentative = t,
                                    !.registerTimer = TRUE]
    <3>1. t \in TentativeType
      BY PbuFields DEF Tentative, TentativeType
    <3>2. bces' = [bces EXCEPT ![i] = b] /\ routes' = routes
      BY <1>0, <1>3, <2>2 DEF DelayRegistration, TypeInv
    <3> HIDE DEF t
    <3>3. b \in BceType /\ b.hnps = bces[i].hnps /\ b.tunnelIf = bces[i].tunnelIf
      BY <1>0, <3>1 DEF BceType
    <3> HIDE DEF b
    <3>. QED BY <1>0, <3>2, <3>3, RewriteStill
  <2>. QED BY <2>1, <2>2
<1>4. ASSUME NEW p \in Pbu, NEW i \in DOMAIN bces, Handoff(p, i)
      PROVE  Still \/ Moves(i)
  <2>1. /\ Updated(bces[i], p) \in BceType
        /\ Updated(bces[i], p).hnps = bces[i].hnps
    BY <1>0, PbuFields, UpdateKeeps, Zenon DEF Keeps
  <2>. QED BY <1>0, <1>4, <2>1, ModifyMoves, Zenon DEF Handoff
<1>5. ASSUME NEW p \in Pbu, NEW i \in DOMAIN bces, Deregister(p, i) PROVE Still
  <2>1. CASE bces[i].coa # p.src
    BY <1>1, <1>5, <2>1 DEF Deregister
  <2>2. CASE bces[i].coa = p.src
    <3> DEFINE b == [bces[i] EXCEPT !.state = "DEREGISTERING",
                                    !.deregisterTimer = TRUE]
    <3>1. bces' = [bces EXCEPT ![i] = b] /\ routes' = routes
      BY <1>0, <1>5, <2>2 DEF Deregister, TypeInv
    <3>2. b \in BceType /\ b.hnps = bces[i].hnps /\ b.tunnelIf = bces[i].tunnelIf
      BY <1>0 DEF BceType
    <3> HIDE DEF b
    <3>. QED BY <1>0, <3>1, <3>2, RewriteStill
  <2>. QED BY <2>1, <2>2
<1>6. ASSUME NEW p \in Pbu, Create(p)
      PROVE  /\ Moves(Len(bces) + 1) /\ Len(bces) + 1 \in DOMAIN bces'
             /\ Len(bces) < MaxBce
  <2>1. Moves(Len(bces) + 1)
    BY <1>0, <1>6, CreateMoves
  <2>. QED BY <1>6, <2>1 DEF Moves, Create
<1>7. ASSUME NEW i \in DOMAIN bces, RegisterTimeout(i) PROVE Still \/ Moves(i)
  <2> DEFINE t == bces[i].tentative
             u == LateUpdated(bces[i], t)
             b == [u EXCEPT !.tentative = None, !.registerTimer = FALSE]
  <2>1. t # None
    BY <1>7, Zenon DEF RegisterTimeout, CacheInv, DelayedPending
  <2>2. /\ t.src \in Addr /\ t.hi \in HandoffIndicator /\ t.att \in AccessTechnology
        /\ t.life \in Nat /\ t.time \in Nat /\ t.seq \in Nat
    <3>1. t \in TentativeType
      BY <1>0, <2>1 DEF BceType
    <3>. QED BY <3>1 DEF TentativeType
  <2>3. u \in BceType /\ u.hnps = bces[i].hnps
    BY <1>0, <2>2, UpdateKeeps, Zenon DEF Keeps
  <2>4. ModifyTunnelAndRouting(i, b)
    BY <1>7, <2>1, Zenon DEF RegisterTimeout
  <2> HIDE DEF t, u
  <2>5. b \in BceType /\ b.hnps = u.hnps
    BY <2>3 DEF BceType
  <2> HIDE DEF b
  <2>. QED BY <1>0, <2>3, <2>4, <2>5, ModifyMoves
<1>8. ASSUME NEW i \in DOMAIN bces, DeregisterTimeout(i) PROVE Still
  <2> DEFINE b == [bces[i] EXCEPT !.deregisterTimer = FALSE]
  <2>1. bces' = [bces EXCEPT ![i] = b] /\ routes' = routes
    BY <1>0, <1>8 DEF DeregisterTimeout, TypeInv
  <2>2. b \in BceType /\ b.hnps = bces[i].hnps /\ b.tunnelIf = bces[i].tunnelIf
    BY <1>0 DEF BceType
  <2> HIDE DEF b
  <2>. QED BY <1>0, <2>1, <2>2, RewriteStill
<1>9. ASSUME Tick \/ UNCHANGED vars \/ \E p \in Pbu : Reject(p) \/ UnknownDeregister(p)
      PROVE  Still
  BY <1>1, <1>9 DEF Tick, vars, Reject, UnknownDeregister
<1>10. ASSUME NEW i \in DOMAIN bces, Moves(i) PROVE i \in DOMAIN bces'
  BY <1>10 DEF Moves
<1>. QED
  BY <1>2, <1>3, <1>4, <1>5, <1>6, <1>7, <1>8, <1>9, <1>10, Zenon
     DEF Next, HandlePbu

LEMMA RouteInvNext ==
    ASSUME CacheInv, RouteInv, [Next]_vars
    PROVE  RouteInv'
<1>1. CASE Still
  BY <1>1, StillRoutes
<1>2. CASE \E i \in DOMAIN bces' : Moves(i)
  <2>1. PICK i \in DOMAIN bces' : Moves(i)
    BY <1>2
  <2>2. \A j \in DOMAIN bces' : bces'[j].hnps \subseteq Prefix
    <3>1. CacheInv'
      BY CacheInvNext
    <3>2. \A j \in DOMAIN bces' : bces'[j] \in BceType
      BY <3>1 DEF CacheInv, TypeInv
    <3>. QED BY <3>2 DEF BceType
  <2>. QED BY <2>1, <2>2, MovesRoutes
<1>. QED BY <1>1, <1>2, StepMoves DEF RouteInv

LEMMA RouteInvInit == Init => RouteInv
<1> SUFFICES ASSUME Init PROVE RouteInv
  OBVIOUS
<1>1. DOMAIN bces = {} /\ routes \in [Prefix -> Seq(Nat)]
  BY DEF Init
<1>. QED BY <1>1 DEF RouteInv, BindingsRouted, LookupServes

\* The invariant of the routes holds in every state.
THEOREM RoutesCorrect == Spec => []RouteInv
BY CacheCorrect, RouteInvInit, RouteInvNext, PTL DEF Spec

\* There is a route to every prefix of a binding through the tunnel of that
\* binding, in whatever order updates, handoffs, deregistrations and timeouts
\* come and whoever shares the tunnel.
THEOREM BindingsRoutedCorrect == Spec => []BindingsRouted
<1>1. RouteInv => BindingsRouted
  BY DEF RouteInv
<1>. QED BY <1>1, RoutesCorrect, PTL

\* The cache stays within its bound, the clock too.
LEMMA BoundsNext ==
    ASSUME CacheInv, routes \in [Prefix -> Seq(Nat)], [Next]_vars,
           Len(bces) <= MaxBce, now \in 0 .. MaxTime, aborted \in BOOLEAN
    PROVE  Len(bces') <= MaxBce /\ now' \in 0 .. MaxTime /\ aborted' \in BOOLEAN
<1>0. {MaxBce, MaxTime} \subseteq Nat
  BY BoundAssumption
<1>1. bces \in Seq(BceType) /\ bces' \in Seq(BceType)
  BY CacheInvNext DEF CacheInv, TypeInv
<1>2. Len(bces') <= MaxBce
  <2>1. DOMAIN bces = 1 .. Len(bces) /\ DOMAIN bces' = 1 .. Len(bces')
        /\ Len(bces) \in Nat /\ Len(bces') \in Nat
    BY <1>1
  <2>2. CASE Still
    BY <1>0, <2>1, <2>2 DEF Still
  <2>3. ASSUME NEW i \in DOMAIN bces', Moves(i), i \in DOMAIN bces \/ Len(bces) < MaxBce
        PROVE  Len(bces') <= MaxBce
    <3>1. 1 .. Len(bces') = 1 .. Len(bces) \cup {i}
      BY <2>1, <2>3 DEF Moves
    <3>2. Len(bces') \in 1 .. Len(bces) \cup {i} \/ Len(bces') = 0
      BY <2>1, <3>1
    <3>3. CASE i \in DOMAIN bces
      BY <1>0, <2>1, <3>2, <3>3
    <3>4. CASE i \notin DOMAIN bces
      <4>1. Len(bces) + 1 \notin 1 .. Len(bces)
        BY <2>1
      <4>2. Len(bces') >= Len(bces) + 2 =>
               /\ Len(bces) + 1 \in 1 .. Len(bces')
               /\ Len(bces) + 2 \in 1 .. Len(bces')
               /\ Len(bces) + 2 \notin 1 .. Len(bces)
               /\ Len(bces) + 1 # Len(bces) + 2
        BY <2>1
      <4>3. ~(Len(bces') >= Len(bces) + 2)
        BY <3>1, <4>1, <4>2, Zenon
      <4>4. Len(bces) < MaxBce
        BY <2>3, <3>4
      <4>. QED BY <1>0, <2>1, <4>3, <4>4
    <3>. QED BY <3>3, <3>4
  <2>. QED BY <2>2, <2>3, StepMoves
<1>3. now' = now \/ (now < MaxTime /\ now' = now + 1)
  BY DEF Next, HandlePbu, Reject, Refresh, DelayRegistration, Handoff, Deregister,
         Create, UnknownDeregister, RegisterTimeout, DeregisterTimeout, Tick, Finds, vars
<1>4. aborted' = aborted \/ aborted' = TRUE
  <2>1. ASSUME NEW i, NEW b, ModifyTunnelAndRouting(i, b)
        PROVE  aborted' = aborted \/ aborted' = TRUE
    BY <2>1, Zenon DEF ModifyTunnelAndRouting
  <2>2. ASSUME NEW p \in Pbu, NEW i \in DOMAIN bces, Handoff(p, i)
        PROVE  aborted' = aborted \/ aborted' = TRUE
    BY <2>1, <2>2, Zenon DEF Handoff
  <2>3. ASSUME NEW i \in DOMAIN bces, RegisterTimeout(i)
        PROVE  aborted' = aborted \/ aborted' = TRUE
    BY <2>1, <2>3, Zenon DEF RegisterTimeout
  <2>. QED
    BY <2>2, <2>3, Zenon
       DEF Next, HandlePbu, Reject, Refresh, DelayRegistration, Deregister,
           Create, UnknownDeregister, DeregisterTimeout, Tick, vars
<1>5. now' \in 0 .. MaxTime
  BY <1>0, <1>3
<1>6. aborted' \in BOOLEAN
  BY <1>4, Zenon
<1>. QED BY <1>2, <1>5, <1>6

\* Bindings, profiles, devices and routes keep their types, and the cache its
\* bound.
THEOREM TypeCorrect == Spec => []TypeOK
<1> DEFINE Bounds == Len(bces) <= MaxBce /\ now \in 0 .. MaxTime /\ aborted \in BOOLEAN
<1>1. Init => Bounds
  <2>1. MaxBce \in Nat /\ MaxTime \in Nat
    BY BoundAssumption
  <2>2. Init => Len(bces) = 0 /\ now = 0 /\ aborted \in BOOLEAN
    BY DEF Init
  <2>. QED BY <2>1, <2>2
<1>2. CacheInv /\ RouteInv /\ Bounds /\ [Next]_vars => Bounds'
  BY BoundsNext DEF RouteInv
<1>3. CacheInv /\ RouteInv /\ Bounds => TypeOK
  BY DEF CacheInv, TypeInv, RouteInv, TypeOK
<1> HIDE DEF Bounds
<1>. QED BY <1>1, <1>2, <1>3, CacheCorrect, RoutesCorrect, PTL DEF Spec

(***************************************************************************)
(* Whom a prefix belongs to.  The pool wraps: a prefix is assigned twice   *)
(* once all have been, so there must be one for each node that needs one.  *)
(***************************************************************************)

\* The nodes whose profile names no prefix.
Unassigned == {m \in Profiled : ProfileHnp[m] = {}}

\* Profiles and pool name no prefix twice, and the pool is large enough.
PoolSuffices ==
    /\ \A m, n \in Profiled : m # n => ProfileHnp[m] \cap ProfileHnp[n] = {}
    /\ \A k \in 0 .. PoolSize - 1, m \in Profiled : PoolPrefix[k] \notin ProfileHnp[m]
    /\ \A k, l \in 0 .. PoolSize - 1 : PoolPrefix[k] = PoolPrefix[l] => k = l
    /\ IsFiniteSet(Unassigned) /\ Cardinality(Unassigned) <= PoolSize

\* The nodes that have their prefix from the pool.
FromPool == {m \in Unassigned : profileHnp[m] # {}}

\* No two profiles name the same prefix.
ProfilesApart ==
    \A m, n \in Profiled : m # n => profileHnp[m] \cap profileHnp[n] = {}

\* The counter of the pool is the number of nodes it has served, and what it
\* has assigned are the prefixes up to the counter.
PoolInv ==
    /\ poolIndex = Cardinality(FromPool)
    /\ \A m \in Profiled : ProfileHnp[m] # {} => profileHnp[m] = ProfileHnp[m]
    /\ \A m \in FromPool : \E k \in 1 .. poolIndex : profileHnp[m] = {Assign(k)}
    /\ ProfilesApart

\* The first PoolSize prefixes that are assigned are different ones.
LEMMA AssignApart ==
    ASSUME PoolSuffices, NEW k \in 1 .. PoolSize, NEW l \in 1 .. PoolSize,
           Assign(k) = Assign(l)
    PROVE  k = l
<1>0. PoolSize \in Nat /\ PoolSize > 0
  BY PoolAssumption
<1>1. \A n \in 1 .. PoolSize : n % PoolSize = IF n = PoolSize THEN 0 ELSE n
  BY <1>0
<1>2. k % PoolSize \in 0 .. PoolSize - 1 /\ l % PoolSize \in 0 .. PoolSize - 1
  BY <1>0, <1>1
<1>3. k % PoolSize = l % PoolSize
  BY <1>2 DEF PoolSuffices, Assign
<1>. QED BY <1>0, <1>1, <1>3

\* Only Create changes profiles and counter.
LEMMA OthersKeepPool ==
    ASSUME [Next]_vars
    PROVE  UNCHANGED <<profileHnp, poolIndex>> \/ \E p \in Pbu : Create(p)
BY DEF Next, HandlePbu, Reject, Refresh, DelayRegistration, Handoff, Deregister,
       UnknownDeregister, RegisterTimeout, DeregisterTimeout, Tick, Finds, vars

LEMMA PoolInvNext ==
    ASSUME PoolSuffices, CacheInv, PoolInv, [Next]_vars
    PROVE  PoolInv'
<1>0. profileHnp \in [Profiled -> SUBSET Prefix] /\ poolIndex \in Nat
  BY DEF CacheInv, TypeInv
<1>1. CASE UNCHANGED <<profileHnp, poolIndex>>
  <2>1. FromPool' = FromPool
    BY <1>1 DEF FromPool, Unassigned
  <2>. QED BY <1>1, <2>1 DEF PoolInv, ProfilesApart, Assign
<1>2. ASSUME NEW p \in Pbu, Create(p) PROVE PoolInv'
  <2> DEFINE m == p.mn
             new == Assign(poolIndex + 1)
  <2>1. CASE profileHnp[m] # {}
    BY <1>1, <1>2, <2>1 DEF Create
  <2>2. CASE profileHnp[m] = {}
    <3>1. m \in Profiled
      BY <1>2 DEF Create, Status
    <3>2. /\ poolIndex' = poolIndex + 1
          /\ profileHnp' = [profileHnp EXCEPT ![m] = {new}]
      BY <1>2, <2>2, Zenon DEF Create, NewPrefixes
    <3>3. m \in Unassigned /\ m \notin FromPool
      BY <2>2, <3>1 DEF PoolInv, Unassigned, FromPool
    <3> HIDE DEF m, new
    <3>4. profileHnp'[m] = {new} /\ \A n \in Profiled : n # m => profileHnp'[n] = profileHnp[n]
      BY <1>0, <3>1, <3>2
    <3>5. FromPool' = FromPool \cup {m}
      BY <3>3, <3>4 DEF FromPool, Unassigned
    <3>6. IsFiniteSet(FromPool) /\ IsFiniteSet(FromPool')
          /\ Cardinality(FromPool') = Cardinality(FromPool) + 1
          /\ Cardinality(FromPool') <= Cardinality(Unassigned)
      <4>1. FromPool \in SUBSET Unassigned /\ FromPool \cup {m} \in SUBSET Unassigned
            /\ IsFiniteSet(Unassigned)
        BY <3>3 DEF FromPool, PoolSuffices
      <4>2. IsFiniteSet(FromPool) /\ IsFiniteSet(FromPool \cup {m})
            /\ Cardinality(FromPool \cup {m}) <= Cardinality(Unassigned)
        BY <4>1, FS_Subset
      <4>. QED BY <3>3, <3>5, <4>2, FS_AddElement
    <3>7. poolIndex' = Cardinality(FromPool') /\ poolIndex + 1 \in 1 .. PoolSize
      <4>1. Cardinality(Unassigned) <= PoolSize /\ Cardinality(Unassigned) \in Nat
        BY FS_CardinalityType DEF PoolSuffices
      <4>2. PoolSize \in Nat
        BY PoolAssumption
      <4>. QED BY <1>0, <3>2, <3>6, <4>1, <4>2 DEF PoolInv
    <3>8. \A n \in Profiled : n # m => new \notin profileHnp[n]
      <4> SUFFICES ASSUME NEW n \in Profiled, n # m, new \in profileHnp[n] PROVE FALSE
        OBVIOUS
      <4>1. CASE ProfileHnp[n] # {}
        <5>1. profileHnp[n] = ProfileHnp[n]
          BY <4>1 DEF PoolInv
        <5>2. (poolIndex + 1) % PoolSize \in 0 .. PoolSize - 1
          BY <1>0, PoolAssumption
        <5>. QED BY <5>1, <5>2 DEF PoolSuffices, Assign, new
      <4>2. CASE ProfileHnp[n] = {}
        <5>1. n \in FromPool
          BY <4>2 DEF FromPool, Unassigned
        <5>2. PICK k \in 1 .. poolIndex : profileHnp[n] = {Assign(k)}
          BY <5>1 DEF PoolInv
        <5>3. Assign(k) = Assign(poolIndex + 1) /\ k \in 1 .. PoolSize
          BY <1>0, <3>7, <5>2, PoolAssumption DEF new
        <5>4. k = poolIndex + 1
          BY <3>7, <5>3, AssignApart
        <5>. QED BY <1>0, <5>4
      <4>. QED BY <4>1, <4>2
    <3>9. ProfilesApart'
      BY <3>4, <3>8 DEF PoolInv, ProfilesApart
    <3>10. \A n \in Profiled : ProfileHnp[n] # {} => profileHnp'[n] = ProfileHnp[n]
      BY <3>3, <3>4 DEF PoolInv, Unassigned
    <3>11. ASSUME NEW n \in FromPool'
           PROVE  \E k \in 1 .. poolIndex' : profileHnp'[n] = {Assign(k)'}
      <4>1. \A k : Assign(k)' = Assign(k)
        BY DEF Assign
      <4>2. CASE n = m
        <5>1. poolIndex + 1 \in 1 .. poolIndex'
          BY <1>0, <3>2
        <5>. QED BY <3>4, <4>1, <4>2, <5>1 DEF new
      <4>3. CASE n # m
        <5>1. n \in FromPool /\ n \in Profiled
          BY <3>5, <4>3 DEF FromPool, Unassigned
        <5>2. PICK k \in 1 .. poolIndex : profileHnp[n] = {Assign(k)}
          BY <5>1 DEF PoolInv
        <5>3. k \in 1 .. poolIndex'
          BY <1>0, <3>2
        <5>. QED BY <3>4, <4>1, <4>3, <5>1, <5>2, <5>3
      <4>. QED BY <4>2, <4>3
    <3>. QED BY <3>7, <3>9, <3>10, <3>11 DEF PoolInv
  <2>. QED BY <2>1, <2>2
<1>. QED BY <1>1, <1>2, OthersKeepPool

LEMMA PoolInvInit ==
    ASSUME PoolSuffices, Init
    PROVE  PoolInv
<1>1. profileHnp = ProfileHnp /\ poolIndex = 0
  BY DEF Init
<1>2. FromPool = {}
  BY <1>1 DEF FromPool, Unassigned
<1>. QED BY <1>1, <1>2, FS_EmptySet DEF PoolInv, ProfilesApart, PoolSuffices

\* Profiles that the pool fills stay apart as long as it has not wrapped.
THEOREM PoolCorrect ==
    ASSUME PoolSuffices
    PROVE  Spec => []PoolInv
<1>1. Init => PoolInv
  BY PoolInvInit
<1>2. CacheInv /\ PoolInv /\ [Next]_vars => PoolInv'
  BY PoolInvNext
<1>. QED BY <1>1, <1>2, CacheCorrect, PTL DEF Spec

\* Two mobile nodes never share a home network prefix, deregistrations included,
\* if the pool has a prefix for each node that needs one.
THEOREM NoSharedPrefixCorrect ==
    ASSUME PoolSuffices
    PROVE  Spec => []NoSharedPrefix
<1>1. CacheInv /\ PoolInv => NoSharedPrefix
  BY DEF CacheInv, PoolInv, ProfilesApart, PrefixContinuity, NoSharedPrefix
<1>. QED BY <1>1, CacheCorrect, PoolCorrect, PTL

\* If the pool suffices and no MAG deregisters, a packet for a bound prefix
\* leaves for a MAG that holds a binding of that prefix for that node, although
\* the routes through the tunnels that were left are never removed.
THEOREM PacketsReachMagCorrect ==
    ASSUME PoolSuffices, NoDeregistration
    PROVE  Spec => []PacketsReachMag
<1>1. TunnelInv /\ RouteInv /\ PoolInv => PacketsReachMag
  <2> SUFFICES ASSUME TunnelInv, RouteInv, PoolInv,
                      NEW i \in DOMAIN bces, NEW h \in bces[i].hnps
               PROVE  /\ routes[h] # <<>>
                      /\ \E j \in DOMAIN bces :
                            /\ h \in bces[j].hnps /\ bces[j].mn = bces[i].mn
                            /\ tunnelList[LookupStatic(routes[h])].remote = bces[j].coa
    BY DEF PacketsReachMag
  <2>1. routes[h] # <<>> /\ \E j \in DOMAIN bces :
           h \in bces[j].hnps /\ LookupStatic(routes[h]) = bces[j].tunnelIf
    BY DEF RouteInv, LookupServes
  <2>2. PICK j \in DOMAIN bces :
           h \in bces[j].hnps /\ LookupStatic(routes[h]) = bces[j].tunnelIf
    BY <2>1
  <2>3. bces[j].mn = bces[i].mn
    BY <2>2 DEF TunnelInv, CacheInv, PrefixContinuity, PoolInv, ProfilesApart
  <2>4. tunnelList[bces[j].tunnelIf].remote = bces[j].coa
    <3>1. 0 \notin DOMAIN bces
      BY DEF TunnelInv, CacheInv, TypeInv
    <3>. QED BY <3>1 DEF TunnelInv, Fits, Served
  <2>. QED BY <2>1, <2>2, <2>3, <2>4
<1>. QED BY <1>1, TunnelInvCorrect, RoutesCorrect, PoolCorrect, PTL

-----------------------------------------------------------------------------
(***************************************************************************)
(* What an LMA does to those it works with, step by step: which MAGs it    *)
(* holds for a node, what it answers and where it sends packets.           *)
(***************************************************************************)

\* Node m has been registered from MAG k, or is about to be.
From(m, k) ==
    \E i \in DOMAIN bces :
        /\ bces[i].mn = m
        /\ \/ bces[i].coa = k
           \/ bces[i].tentative # None /\ bces[i].tentative.src = k

\* No tentative entry would deregister.
Lasting ==
    \A i \in DOMAIN bces :
        bces[i].tentative # None => bces[i].tentative.life > 0

\* An answer that says ACCEPTED grants a lifetime.
Granted(a) == a # None /\ a.status = "ACCEPTED" => a.life > 0

\* The entry Existing answers is one of the node the update is about.
LEMMA NewestIn ==
    ASSUME NEW S, S \subseteq DOMAIN bces, TypeInv, Newest(S) # 0
    PROVE  Newest(S) \in S
<1>1. S # {} /\ Newest(S) = CHOOSE i \in S : \A j \in S : j <= i
  BY Zenon DEF Newest
<1>2. S \subseteq 1 .. Len(bces) /\ Len(bces) \in Nat
  BY DEF TypeInv
<1>3. \E i \in S : \A j \in S : j <= i
  <2> DEFINE n == Len(bces)
             T == {n - i : i \in S}
  <2>1. T \subseteq Nat /\ T # {}
    BY <1>1, <1>2
  <2>2. PICK x \in T : \A y \in T : x <= y
    BY <2>1, LeastIndex
  <2>3. PICK i \in S : x = n - i
    OBVIOUS
  <2>4. \A j \in S : n - i <= n - j
    BY <2>2, <2>3
  <2>5. \A j \in S : j <= i
    BY <1>2, <2>4
  <2>. QED BY <2>5
<1>. QED BY <1>1, <1>3, Zenon

LEMMA ExistingMn ==
    ASSUME TypeInv, NEW p, NEW i \in DOMAIN bces, Existing(p) = i
    PROVE  bces[i].mn = p.mn
<1>1. i # 0
  BY DEF TypeInv
<1>2. /\ LookupMn(p.mn) # 0 => bces[LookupMn(p.mn)].mn = p.mn
      /\ \A a, l : LookupLink(p.mn, a, l) # 0 => bces[LookupLink(p.mn, a, l)].mn = p.mn
      /\ \A hs : LookupHnp(p.mn, hs) # 0 => bces[LookupHnp(p.mn, hs)].mn = p.mn
  <2>1. ASSUME LookupMn(p.mn) # 0 PROVE bces[LookupMn(p.mn)].mn = p.mn
    <3> DEFINE S == {j \in DOMAIN bces : bces[j].mn = p.mn}
    <3>1. Newest(S) \in S
      BY <2>1, NewestIn DEF LookupMn
    <3>. QED BY <3>1 DEF LookupMn
  <2>2. ASSUME NEW a, NEW l, LookupLink(p.mn, a, l) # 0
        PROVE  bces[LookupLink(p.mn, a, l)].mn = p.mn
    <3> DEFINE S == {j \in DOMAIN bces :
                        bces[j].mn = p.mn /\ bces[j].att = a /\ bces[j].link = l}
    <3>1. Newest(S) \in S
      BY <2>2, NewestIn DEF LookupLink
    <3>. QED BY <3>1 DEF LookupLink
  <2>3. ASSUME NEW hs, LookupHnp(p.mn, hs) # 0
        PROVE  bces[LookupHnp(p.mn, hs)].mn = p.mn
    <3> DEFINE S == {j \in DOMAIN bces : bces[j].mn = p.mn /\ hs \subseteq bces[j].hnps}
    <3>1. Newest(S) \in S
      BY <2>3, NewestIn DEF LookupHnp
    <3>. QED BY <3>1 DEF LookupHnp
  <2>. QED BY <2>1, <2>2, <2>3, Zenon
<1>. QED BY <1>1, <1>2, Zenon DEF Existing

\* Entry c may follow entry b on update p.
Follows(b, c, p) ==
    /\ c.mn = b.mn
    /\ c.coa = b.coa \/ c.coa = p.src
    /\ \/ c.tentative = b.tentative
       \/ c.tentative.src = p.src /\ c.tentative.life = p.life
       \/ c.tentative = None

\* A step in which entry i follows an update of its node, or of its MAGs.
LEMMA FollowsKeeps ==
    ASSUME TypeInv, Lasting, NEW i \in DOMAIN bces, NEW c \in BceType, NEW p,
           bces' = [bces EXCEPT ![i] = c], Follows(bces[i], c, p), p.life > 0
    PROVE  /\ Lasting'
           /\ \A m, k : From(m, k)' => From(m, k) \/ (m = bces[i].mn /\ k = p.src)
<1>1. /\ DOMAIN bces' = DOMAIN bces /\ bces'[i] = c
      /\ \A j \in DOMAIN bces : j # i => bces'[j] = bces[j]
  BY ExceptSeq DEF TypeInv
<1>2. Lasting'
  BY <1>1 DEF Lasting, Follows
<1>3. ASSUME NEW m, NEW k, From(m, k)'
      PROVE  From(m, k) \/ (m = bces[i].mn /\ k = p.src)
  <2>1. PICK j \in DOMAIN bces' :
           /\ bces'[j].mn = m
           /\ \/ bces'[j].coa = k
              \/ bces'[j].tentative # None /\ bces'[j].tentative.src = k
    BY <1>3 DEF From
  <2>2. CASE j # i
    BY <1>1, <2>1, <2>2 DEF From
  <2>3. CASE j = i
    <3>1. c.mn = m /\ bces[i].mn = m
      BY <1>1, <2>1, <2>3 DEF Follows
    <3>2. \/ bces[i].coa = k \/ p.src = k
          \/ bces[i].tentative # None /\ bces[i].tentative.src = k
      BY <1>1, <2>1, <2>3 DEF Follows
    <3>. QED BY <3>1, <3>2 DEF From
  <2>. QED BY <2>2, <2>3
<1>. QED BY <1>2, <1>3

\* ModifyTunnelAndRouting that does not abort writes the entry and answers it.
LEMMA ModifyWrites ==
    ASSUME TypeInv, NEW i \in DOMAIN bces, NEW b \in BceType,
           ModifyTunnelAndRouting(i, b), ~aborted'
    PROVE  \E c \in BceType :
              /\ bces' = [bces EXCEPT ![i] = c]
              /\ c.mn = b.mn /\ c.coa = b.coa /\ c.tentative = b.tentative
              /\ out'.life = b.life
<1> DEFINE r == bces[i].coa
           n == ModifyTunnelIf(tunnelList, r, b.coa)
           c == [b EXCEPT !.tunnelIf = n]
<1>1. ModifyTunnelAsserts(tunnelList, r)
  BY Zenon DEF ModifyTunnelAndRouting
<1>2. bces' = [bces EXCEPT ![i] = c] /\ out' = PbaOfBce(b, b.coa)
  BY <1>1, Zenon DEF ModifyTunnelAndRouting
<1>3. b.coa \in Addr
  BY DEF BceType
<1>4. n \in Nat
  BY <1>1, <1>3, ModifyTunnelTyped DEF TypeInv
<1> HIDE DEF n
<1>5. c \in BceType /\ c.mn = b.mn /\ c.coa = b.coa /\ c.tentative = b.tentative
  BY <1>4 DEF BceType
<1>6. out'.life = b.life
  BY <1>2 DEF PbaOfBce
<1> HIDE DEF c
<1>. QED BY <1>2, <1>5, <1>6

\* Handling update p, an LMA learns of no MAG but the one that sent it, and what
\* it accepts it grants.
LEMMA PbuLearns ==
    ASSUME NoDeregistration, TunnelInv, Lasting, NEW p \in Pbu, HandlePbu(p)
    PROVE  /\ Lasting' /\ Granted(out')
           /\ \A m, k : From(m, k)' => From(m, k) \/ (m = p.mn /\ k = p.src)
<1> DEFINE Learns == /\ Lasting' /\ Granted(out')
                     /\ \A m, k : From(m, k)' => From(m, k) \/ (m = p.mn /\ k = p.src)
<1>0. TypeInv /\ (\A i \in DOMAIN bces : bces[i] \in BceType) /\ p.life > 0
  BY DEF TunnelInv, CacheInv, TypeInv, NoDeregistration
<1>a. ~aborted'
  <2>1. [Next]_vars
    BY DEF Next
  <2>. QED BY <2>1, TunnelStep DEF StillFits, Calm
<1>1. ASSUME UNCHANGED bces
      PROVE  Lasting' /\ \A m, k : From(m, k)' => From(m, k)
  BY <1>1 DEF Lasting, From
<1>2. CASE Reject(p)
  <2>1. out'.status # "ACCEPTED" /\ UNCHANGED bces
    BY <1>2 DEF Reject, PbaOfPbu
  <2>. QED BY <1>1, <2>1 DEF Granted
<1>3. ASSUME NEW i \in DOMAIN bces, Refresh(p, i) PROVE Learns
  <2> DEFINE u == Updated(bces[i], p)
  <2>1. bces' = [bces EXCEPT ![i] = u] /\ out' = PbaOfBce(u, p.src) /\ Existing(p) = i
    BY <1>3 DEF Refresh, Finds
  <2>2. bces[i].mn = p.mn
    BY <1>0, <2>1, ExistingMn
  <2>3. u \in BceType
    BY <1>0, PbuFields, UpdateKeeps, Zenon DEF Keeps
  <2>4. u.mn = bces[i].mn /\ u.coa = p.src /\ u.tentative = bces[i].tentative
        /\ u.life = p.life
    BY <1>0, PbuFields DEF Updated, LateUpdated, BceType
  <2> HIDE DEF u
  <2>5. out'.life = p.life
    BY <2>1, <2>4 DEF PbaOfBce
  <2>6. Follows(bces[i], u, p)
    BY <2>4 DEF Follows
  <2>. QED BY <1>0, <2>1, <2>2, <2>3, <2>5, <2>6, FollowsKeeps DEF Granted
<1>4. ASSUME NEW i \in DOMAIN bces, DelayRegistration(p, i) PROVE Learns
  <2>1. out' = None /\ Existing(p) = i
    BY <1>4 DEF DelayRegistration, Finds
  <2>2. CASE bces[i].state = "REGISTERING"
    BY <1>1, <1>4, <2>1, <2>2 DEF DelayRegistration, Granted
  <2>3. CASE bces[i].state # "REGISTERING"
    <3> DEFINE t == Tentative(p)
               b == [bces[i] EXCEPT !.state = "REGISTERING", !.tentative = t,
                                    !.registerTimer = TRUE]
    <3>1. t \in TentativeType /\ t.src = p.src /\ t.life = p.life
      BY PbuFields DEF Tentative, TentativeType
    <3>2. bces' = [bces EXCEPT ![i] = b]
      BY <1>0, <1>4, <2>3 DEF DelayRegistration, TypeInv
    <3> HIDE DEF t
    <3>3. b \in BceType /\ b.mn = bces[i].mn /\ b.coa = bces[i].coa /\ b.tentative = t
      BY <1>0, <3>1 DEF BceType
    <3>4. bces[i].mn = p.mn
      BY <1>0, <2>1, ExistingMn
    <3> HIDE DEF b
    <3>5. Follows(bces[i], b, p)
      BY <3>1, <3>3 DEF Follows
    <3>. QED BY <1>0, <2>1, <3>2, <3>3, <3>4, <3>5, FollowsKeeps DEF Granted
  <2>. QED BY <2>2, <2>3
<1>5. ASSUME NEW i \in DOMAIN bces, Handoff(p, i) PROVE Learns
  <2> DEFINE u == Updated(bces[i], p)
  <2>1. ModifyTunnelAndRouting(i, u) /\ Existing(p) = i
    BY <1>5 DEF Handoff, Finds
  <2>2. bces[i].mn = p.mn
    BY <1>0, <2>1, ExistingMn
  <2>3. u \in BceType
    BY <1>0, PbuFields, UpdateKeeps, Zenon DEF Keeps
  <2>4. u.mn = bces[i].mn /\ u.coa = p.src /\ u.tentative = bces[i].tentative
        /\ u.life = p.life
    BY <1>0, PbuFields DEF Updated, LateUpdated, BceType
  <2> HIDE DEF u
  <2>5. PICK c \in BceType : /\ bces' = [bces EXCEPT ![i] = c]
                             /\ c.mn = u.mn /\ c.coa = u.coa /\ c.tentative = u.tentative
                             /\ out'.life = u.life
    BY <1>0, <1>a, <2>1, <2>3, ModifyWrites
  <2>6. Follows(bces[i], c, p)
    BY <2>4, <2>5 DEF Follows
  <2>. QED BY <1>0, <2>2, <2>4, <2>5, <2>6, FollowsKeeps DEF Granted
<1>6. ASSUME NEW i \in DOMAIN bces, Deregister(p, i) PROVE FALSE
  BY <1>0, <1>6 DEF Deregister
<1>7. CASE Create(p)
  <2> DEFINE b == NewBce(p)
             n == Len(bces) + 1
  <2>1. bces' = Append(bces, b) /\ out' = PbaOfBce(b, p.src)
    BY <1>7 DEF Create
  <2>2. b.mn = p.mn /\ b.coa = p.src /\ b.tentative = None /\ b.life = p.life
    BY DEF NewBce
  <2> HIDE DEF b
  <2>3. /\ DOMAIN bces' = DOMAIN bces \cup {n} /\ bces'[n] = b
        /\ \A j \in DOMAIN bces : bces'[j] = bces[j]
    BY <1>0, <2>1 DEF TypeInv
  <2> HIDE DEF n
  <2>4. Lasting'
    BY <2>2, <2>3 DEF Lasting
  <2>5. ASSUME NEW m, NEW k, From(m, k)'
        PROVE  From(m, k) \/ (m = p.mn /\ k = p.src)
    <3>1. PICK j \in DOMAIN bces' :
             /\ bces'[j].mn = m
             /\ \/ bces'[j].coa = k
                \/ bces'[j].tentative # None /\ bces'[j].tentative.src = k
      BY <2>5 DEF From
    <3>. QED BY <2>2, <2>3, <3>1 DEF From
  <2>6. Granted(out')
    BY <1>0, <2>1, <2>2 DEF Granted, PbaOfBce
  <2>. QED BY <2>4, <2>5, <2>6
<1>8. ASSUME UnknownDeregister(p) PROVE FALSE
  BY <1>0, <1>8 DEF UnknownDeregister
<1> HIDE DEF Learns
<1>9. Learns
  BY <1>2, <1>3, <1>4, <1>5, <1>6, <1>7, <1>8, Zenon DEF HandlePbu, Learns
<1>. QED BY <1>9, Zenon DEF Learns

\* Nor does it learn of a MAG when a delayed registration is carried out.
LEMMA TimeoutLearns ==
    ASSUME NoDeregistration, TunnelInv, Lasting, NEW i \in DOMAIN bces,
           RegisterTimeout(i)
    PROVE  /\ Lasting' /\ Granted(out')
           /\ \A m, k : From(m, k)' => From(m, k)
<1> DEFINE t == bces[i].tentative
           u == LateUpdated(bces[i], t)
           b == [u EXCEPT !.tentative = None, !.registerTimer = FALSE]
<1>0. TypeInv /\ bces[i] \in BceType
  BY DEF TunnelInv, CacheInv, TypeInv
<1>a. ~aborted'
  <2>1. [Next]_vars
    BY DEF Next
  <2>. QED BY <2>1, TunnelStep DEF StillFits, Calm
<1>1. t # None
  BY Zenon DEF RegisterTimeout, TunnelInv, CacheInv, DelayedPending
<1>2. /\ t.src \in Addr /\ t.hi \in HandoffIndicator /\ t.att \in AccessTechnology
      /\ t.life \in Nat /\ t.time \in Nat /\ t.seq \in Nat /\ t.life > 0
  <2>1. t \in TentativeType
    BY <1>0, <1>1 DEF BceType
  <2>. QED BY <1>1, <2>1 DEF TentativeType, Lasting
<1>3. u \in BceType /\ u.coa = t.src
  BY <1>0, <1>2, UpdateKeeps, Zenon DEF Keeps
<1>4. u.mn = bces[i].mn /\ u.life = t.life
  BY <1>0, <1>2 DEF LateUpdated, BceType
<1>5. ModifyTunnelAndRouting(i, b)
  BY <1>1, Zenon DEF RegisterTimeout
<1>f. From(bces[i].mn, t.src)
  BY <1>1 DEF From
<1>g. bces[i].tentative = t
  OBVIOUS
<1> HIDE DEF t, u
<1>6. /\ b \in BceType /\ b.mn = u.mn /\ b.coa = u.coa /\ b.tentative = None
      /\ b.life = u.life
  BY <1>3 DEF BceType
<1> HIDE DEF b
<1>7. PICK c \in BceType : /\ bces' = [bces EXCEPT ![i] = c]
                           /\ c.mn = b.mn /\ c.coa = b.coa /\ c.tentative = b.tentative
                           /\ out'.life = b.life
  BY <1>0, <1>a, <1>5, <1>6, ModifyWrites
<1>8. Follows(bces[i], c, t)
  BY <1>3, <1>4, <1>6, <1>7 DEF Follows
<1>9. /\ Lasting'
      /\ \A m, k : From(m, k)' => From(m, k) \/ (m = bces[i].mn /\ k = t.src)
  BY <1>0, <1>2, <1>7, <1>8, FollowsKeeps
<1>10. Granted(out')
  BY <1>2, <1>4, <1>6, <1>7 DEF Granted
<1>. QED BY <1>f, <1>9, <1>10

\* Node m has a binding with the prefixes hs.
Holds(m, hs) == \E i \in DOMAIN bces : bces[i].mn = m /\ bces[i].hnps = hs

\* A binding once made stays, and so do the prefixes of a profile.
LEMMA StepHolds ==
    ASSUME CacheInv, [Next]_vars
    PROVE  /\ \A m, hs : Holds(m, hs) => Holds(m, hs)'
           /\ \A m \in Profiled : profileHnp[m] # {} => profileHnp'[m] = profileHnp[m]
<1>0. TypeInv
  BY DEF CacheInv
<1>1. ASSUME KeepsAll PROVE \A m, hs : Holds(m, hs) => Holds(m, hs)'
  BY <1>1 DEF KeepsAll, Keeps, Holds
<1>2. ASSUME NEW p \in Pbu, Create(p)
      PROVE  /\ \A m, hs : Holds(m, hs) => Holds(m, hs)'
             /\ \A m \in Profiled : profileHnp[m] # {} => profileHnp'[m] = profileHnp[m]
  <2>1. /\ bces' = Append(bces, NewBce(p))
        /\ \A m \in Profiled : profileHnp[m] # {} => profileHnp'[m] = profileHnp[m]
    BY <1>0, <1>2, CreateExtends, Zenon DEF Extends
  <2>2. DOMAIN bces \subseteq DOMAIN bces' /\ \A j \in DOMAIN bces : bces'[j] = bces[j]
    BY <1>0, <2>1 DEF TypeInv
  <2>. QED BY <2>1, <2>2 DEF Holds
<1>3. ASSUME \A p \in Pbu : ~Create(p) PROVE KeepsAll
  <2>1. ASSUME bces' = bces PROVE KeepsAll
    BY <1>0, <2>1, UnchangedKeepsAll
  <2>2. ASSUME Tick \/ UNCHANGED vars \/ \E p \in Pbu : Reject(p) \/ UnknownDeregister(p)
        PROVE  bces' = bces
    BY <2>2 DEF Tick, vars, Reject, UnknownDeregister
  <2>. QED BY <1>0, <1>3, <2>1, <2>2, RefreshKeeps, DelayKeeps, HandoffKeeps,
              DeregisterKeeps, RegisterTimeoutKeeps, DeregisterTimeoutKeeps, Zenon
              DEF Next, HandlePbu
<1>4. CASE \A p \in Pbu : ~Create(p)
  <2>1. profileHnp' = profileHnp
    BY <1>4, OthersKeepPool
  <2>. QED BY <1>1, <1>3, <1>4, <2>1
<1>. QED BY <1>2, <1>4

\* Where the LMA sends a packet for prefix h.
Exit(h) ==
    IF routes[h] = <<>> THEN None ELSE tunnelList[LookupStatic(routes[h])].remote

\* Only prefixes of bindings have routes.
RoutesOwned ==
    \A h \in Prefix : routes[h] # <<>> => \E i \in DOMAIN bces : h \in bces[i].hnps

LEMMA RoutesOwnedNext ==
    ASSUME CacheInv, RouteInv, RoutesOwned, [Next]_vars
    PROVE  RoutesOwned'
<1>1. CASE Still
  BY <1>1 DEF Still, RoutesOwned
<1>2. CASE \E i \in DOMAIN bces' : Moves(i)
  <2>1. PICK i \in DOMAIN bces' : Moves(i)
    BY <1>2
  <2>. QED BY <2>1 DEF Moves, Gains, RoutesOwned
<1>. QED BY <1>1, <1>2, StepMoves DEF RouteInv

\* The step registers entry i: its node has the prefixes it had, or one that is
\* nobody's, and they all move to its MAG.
Registers(i) ==
    LET n  == bces'[i].mn
        hs == bces'[i].hnps
    IN  /\ profileHnp' = [profileHnp EXCEPT ![n] = hs]
        /\ profileHnp[n] # {} => hs = profileHnp[n]
        /\ profileHnp[n] = {} =>
              \E x \in Prefix : hs = {x} /\ \A o \in Profiled : x \notin profileHnp[o]
        /\ \A h \in Prefix : Exit(h)' = IF h \in hs THEN bces'[i].coa ELSE Exit(h)

\* Packets are sent as before, or those of one entry leave for its MAG.
LEMMA StepExits ==
    ASSUME NoDeregistration, TunnelInv, RouteInv, RoutesOwned, [Next]_vars
    PROVE  /\ Still => \A h \in Prefix : Exit(h)' = Exit(h)
           /\ \A i \in DOMAIN bces' : Moves(i) =>
                 \A h \in Prefix : Exit(h)' = IF h \in bces'[i].hnps THEN bces'[i].coa
                                              ELSE Exit(h)
<1>1. StillFits
  BY TunnelStep
<1>2. \A h \in Prefix : routes[h] # <<>> => LookupStatic(routes[h]) \in DOMAIN tunnelList
  <2> SUFFICES ASSUME NEW h \in Prefix, routes[h] # <<>>
               PROVE  LookupStatic(routes[h]) \in DOMAIN tunnelList
    OBVIOUS
  <2>1. \E j \in DOMAIN bces : LookupStatic(routes[h]) = bces[j].tunnelIf
    BY DEF RoutesOwned, RouteInv, LookupServes
  <2>2. 0 \notin DOMAIN bces
    BY DEF TunnelInv, CacheInv, TypeInv
  <2>. QED BY <2>1, <2>2 DEF TunnelInv, Fits, Served
<1>3. ASSUME NEW h \in Prefix, routes'[h] = routes[h] PROVE Exit(h)' = Exit(h)
  <2>1. CASE routes[h] = <<>>
    BY <1>3, <2>1 DEF Exit
  <2>2. CASE routes[h] # <<>>
    <3> DEFINE d == LookupStatic(routes[h])
    <3>1. LookupStatic(routes'[h]) = d /\ d \in DOMAIN tunnelList
      BY <1>2, <1>3, <2>2
    <3>2. tunnelList'[d].remote = tunnelList[d].remote
      BY <1>1, <3>1 DEF StillFits, RemotesStay
    <3>3. Exit(h)' = tunnelList'[d].remote
      BY <1>3, <2>2, <3>1 DEF Exit
    <3>. QED BY <2>2, <3>2, <3>3 DEF Exit
  <2>. QED BY <2>1, <2>2
<1>4. ASSUME Still PROVE \A h \in Prefix : Exit(h)' = Exit(h)
  BY <1>3, <1>4 DEF Still
<1>5. ASSUME NEW i \in DOMAIN bces', Moves(i), NEW h \in Prefix
      PROVE  Exit(h)' = IF h \in bces'[i].hnps THEN bces'[i].coa ELSE Exit(h)
  <2>1. CASE h \notin bces'[i].hnps
    BY <1>3, <1>5, <2>1 DEF Moves, Gains
  <2>2. CASE h \in bces'[i].hnps
    <3>1. routes'[h] # <<>> /\ LookupStatic(routes'[h]) = bces'[i].tunnelIf
      BY <1>5, <2>2 DEF Moves, Gains
    <3>2. 0 \notin DOMAIN bces'
      <4>1. CacheInv'
        BY CacheInvNext DEF TunnelInv
      <4>. QED BY <4>1 DEF CacheInv, TypeInv
    <3>3. tunnelList'[bces'[i].tunnelIf].remote = bces'[i].coa
      BY <1>1, <3>2 DEF StillFits, Fits, Served
    <3>4. Exit(h)' = tunnelList'[bces'[i].tunnelIf].remote
      BY <3>1 DEF Exit
    <3>. QED BY <2>2, <3>3, <3>4
  <2>. QED BY <2>1, <2>2
<1>. QED BY <1>4, <1>5

\* A step of an LMA whose pool suffices registers one entry or leaves profiles
\* and exits alone.
LEMMA StepRegisters ==
    ASSUME NoDeregistration, PoolSuffices, TunnelInv, RouteInv, RoutesOwned, PoolInv,
           [Next]_vars
    PROVE  \/ profileHnp' = profileHnp /\ \A h \in Prefix : Exit(h)' = Exit(h)
           \/ \E i \in DOMAIN bces' : Registers(i)
<1>0. CacheInv /\ TypeInv /\ CacheInv' /\ profileHnp \in [Profiled -> SUBSET Prefix]
      /\ routes \in [Prefix -> Seq(Nat)]
  BY CacheInvNext DEF TunnelInv, CacheInv, TypeInv, RouteInv
<1>a. \A i \in DOMAIN bces' : /\ bces'[i].mn \in Profiled /\ bces'[i].hnps # {}
                              /\ bces'[i].hnps = profileHnp'[bces'[i].mn]
  BY <1>0 DEF CacheInv, PrefixContinuity
<1>1. CASE profileHnp' = profileHnp
  <2>1. CASE Still
    BY <1>1, <2>1, StepExits
  <2>2. ASSUME NEW i \in DOMAIN bces', Moves(i) PROVE Registers(i)
    <3>1. \A h \in Prefix : Exit(h)' = IF h \in bces'[i].hnps THEN bces'[i].coa
                                       ELSE Exit(h)
      BY <2>2, StepExits
    <3>2. profileHnp' = [profileHnp EXCEPT ![bces'[i].mn] = bces'[i].hnps]
      BY <1>0, <1>1, <1>a
    <3>3. bces'[i].hnps = profileHnp[bces'[i].mn] /\ profileHnp[bces'[i].mn] # {}
      BY <1>1, <1>a
    <3>. QED BY <3>1, <3>2, <3>3, Zenon DEF Registers
  <2>. QED BY <1>0, <2>1, <2>2, StepMoves
<1>2. CASE profileHnp' # profileHnp
  <2>1. PICK p \in Pbu : Create(p)
    BY <1>2, OthersKeepPool
  <2> DEFINE i == Len(bces) + 1
             n == p.mn
  <2>2. Moves(i) /\ i \in DOMAIN bces'
    BY <1>0, <2>1, CreateMoves DEF Moves
  <2>3. bces'[i] = NewBce(p) /\ NewBce(p).mn = n /\ NewBce(p).hnps = NewPrefixes(p)
    BY <1>0, <2>1 DEF Create, TypeInv, NewBce
  <2>4. profileHnp[n] = {} /\ profileHnp' = [profileHnp EXCEPT ![n] = NewPrefixes(p)]
    BY <1>2, <2>1, Zenon DEF Create
  <2>5. NewPrefixes(p) = {Assign(poolIndex + 1)}
    BY <2>4 DEF NewPrefixes
  <2>6. bces'[i].mn = n /\ bces'[i].hnps = {Assign(poolIndex + 1)} /\ n \in Profiled
    BY <1>a, <2>2, <2>3, <2>5
  <2>7. Assign(poolIndex + 1) \in Prefix
    BY <1>0, AssignPrefix DEF TypeInv
  <2> DEFINE x == Assign(poolIndex + 1)
  <2> HIDE DEF i, n, x
  <2>8. \A o \in Profiled : x \notin profileHnp[o]
    <3>1. PoolInv'
      BY <1>0, PoolInvNext
    <3>2. profileHnp'[n] = {x} /\ \A o \in Profiled : o # n => profileHnp'[o] = profileHnp[o]
      BY <1>0, <2>4, <2>5, <2>6 DEF x
    <3>. QED BY <2>4, <2>6, <3>1, <3>2 DEF PoolInv, ProfilesApart
  <2>9. \A h \in Prefix : Exit(h)' = IF h \in bces'[i].hnps THEN bces'[i].coa ELSE Exit(h)
    BY <2>2, StepExits
  <2>10. Registers(i)
    <3>1. profileHnp' = [profileHnp EXCEPT ![bces'[i].mn] = bces'[i].hnps]
      BY <2>4, <2>5, <2>6
    <3>2. profileHnp[bces'[i].mn] = {}
      BY <2>4, <2>6
    <3>3. x \in Prefix /\ bces'[i].hnps = {x}
      BY <2>6, <2>7 DEF x
    <3>. QED BY <2>8, <2>9, <3>1, <3>2, <3>3, Zenon DEF Registers
  <2>. QED BY <2>2, <2>10
<1>. QED BY <1>1, <1>2

-----------------------------------------------------------------------------
(***************************************************************************)
(* The LMA as its MAGs meet it: everything above in one invariant, and     *)
(* what a step may do, for a pool that suffices and no deregistrations.    *)
(***************************************************************************)

AnchorInv ==
    /\ TunnelInv /\ RouteInv /\ RoutesOwned /\ PoolInv /\ Lasting
    /\ AcceptedMeansBound

\* In cache s node m has a binding with the prefixes hs.
Assigned(s, m, hs) == \E i \in DOMAIN s : s[i].mn = m /\ s[i].hnps = hs

\* Cache s is about pairs of a node and a MAG in N.
Grounded(s, N) ==
    \A i \in DOMAIN s :
        /\ <<s[i].mn, s[i].coa>> \in N
        /\ s[i].tentative # None => <<s[i].mn, s[i].tentative.src>> \in N

\* An answer that is taken for a registration grants a lifetime, for the
\* prefixes of a binding in cache s.
Honest(a, s) ==
    a # None /\ a.status = "ACCEPTED" => a.life > 0 /\ Assigned(s, a.mn, a.hnps)

LEMMA AnchorInit ==
    ASSUME PoolSuffices, Init
    PROVE  AnchorInv /\ bces = <<>> /\ profileHnp = ProfileHnp
           /\ \A h \in Prefix : routes[h] = <<>>
<1>1. TunnelInv /\ RouteInv /\ PoolInv
  BY TunnelInvInit, RouteInvInit, PoolInvInit
<1>2. bces = <<>> /\ out = None /\ profileHnp = ProfileHnp
      /\ \A h \in Prefix : routes[h] = <<>>
  BY DEF Init
<1>3. RoutesOwned /\ Lasting /\ AcceptedMeansBound
  BY <1>2 DEF RoutesOwned, Lasting, AcceptedMeansBound
<1>. QED BY <1>1, <1>2, <1>3 DEF AnchorInv

\* What any step of the LMA keeps, and what it may change.
LEMMA AnchorStep ==
    ASSUME NoDeregistration, PoolSuffices, AnchorInv, [Next]_vars, Lasting'
    PROVE  /\ AnchorInv'
           /\ \A m, hs : Assigned(bces, m, hs) => Assigned(bces', m, hs)
           /\ \A m \in Profiled : profileHnp[m] # {} => profileHnp'[m] = profileHnp[m]
           /\ \/ profileHnp' = profileHnp /\ \A h \in Prefix : Exit(h)' = Exit(h)
              \/ \E i \in DOMAIN bces' : Registers(i)
<1>1. /\ TunnelInv /\ RouteInv /\ RoutesOwned /\ PoolInv /\ AcceptedMeansBound
      /\ CacheInv
  BY DEF AnchorInv, TunnelInv
<1>2. TunnelInv' /\ RouteInv' /\ RoutesOwned' /\ PoolInv' /\ AcceptedMeansBound'
  BY <1>1, TunnelInvNext, RouteInvNext, RoutesOwnedNext, PoolInvNext, AnswersNext
<1>3. AnchorInv'
  BY <1>2 DEF AnchorInv
<1>4. /\ \A m, hs : Holds(m, hs) => Holds(m, hs)'
      /\ \A m \in Profiled : profileHnp[m] # {} => profileHnp'[m] = profileHnp[m]
  BY <1>1, StepHolds
<1>5. \A m, hs : Assigned(bces, m, hs) => Assigned(bces', m, hs)
  BY <1>4 DEF Holds, Assigned
<1>6. \/ profileHnp' = profileHnp /\ \A h \in Prefix : Exit(h)' = Exit(h)
      \/ \E i \in DOMAIN bces' : Registers(i)
  BY <1>1, StepRegisters
<1>. QED BY <1>3, <1>4, <1>5, <1>6

\* The LMA handles update p.
LEMMA AnchorHandles ==
    ASSUME NoDeregistration, PoolSuffices, AnchorInv, NEW p \in Pbu, HandlePbu(p)
    PROVE  /\ [Next]_vars /\ Lasting' /\ Honest(out', bces')
           /\ \A N : Grounded(bces, N) /\ <<p.mn, p.src>> \in N => Grounded(bces', N)
<1>1. [Next]_vars
  BY DEF Next
<1>2. TunnelInv /\ Lasting /\ AcceptedMeansBound /\ CacheInv
  BY DEF AnchorInv, TunnelInv
<1>3. /\ Lasting' /\ Granted(out')
      /\ \A m, k : From(m, k)' => From(m, k) \/ (m = p.mn /\ k = p.src)
  BY <1>2, PbuLearns
<1>4. AcceptedMeansBound'
  BY <1>1, <1>2, AnswersNext
<1>5. Honest(out', bces')
  BY <1>3, <1>4 DEF AcceptedMeansBound, Honest, Granted, Assigned
<1>6. ASSUME NEW N, Grounded(bces, N), <<p.mn, p.src>> \in N PROVE Grounded(bces', N)
  <2>1. \A m, k : From(m, k) => <<m, k>> \in N
    BY <1>6 DEF From, Grounded
  <2>2. \A m, k : From(m, k)' => <<m, k>> \in N
    BY <1>3, <1>6, <2>1
  <2>. QED BY <2>2 DEF From, Grounded
<1>. QED BY <1>1, <1>3, <1>5, <1>6

\* The LMA carries out a delayed registration.
LEMMA AnchorDelayed ==
    ASSUME NoDeregistration, PoolSuffices, AnchorInv, NEW i \in DOMAIN bces,
           RegisterTimeout(i)
    PROVE  /\ [Next]_vars /\ Lasting' /\ Honest(out', bces')
           /\ \A N : Grounded(bces, N) => Grounded(bces', N)
<1>1. [Next]_vars
  BY DEF Next
<1>2. TunnelInv /\ Lasting /\ AcceptedMeansBound /\ CacheInv
  BY DEF AnchorInv, TunnelInv
<1>3. Lasting' /\ Granted(out') /\ \A m, k : From(m, k)' => From(m, k)
  BY <1>2, TimeoutLearns
<1>4. AcceptedMeansBound'
  BY <1>1, <1>2, AnswersNext
<1>5. Honest(out', bces')
  BY <1>3, <1>4 DEF AcceptedMeansBound, Honest, Granted, Assigned
<1>6. ASSUME NEW N, Grounded(bces, N) PROVE Grounded(bces', N)
  <2>1. \A m, k : From(m, k) => <<m, k>> \in N
    BY <1>6 DEF From, Grounded
  <2>2. \A m, k : From(m, k)' => <<m, k>> \in N
    BY <1>3, <2>1
  <2>. QED BY <2>2 DEF From, Grounded
<1>. QED BY <1>1, <1>3, <1>5, <1>6

\* A step of somebody else.
LEMMA AnchorElsewhere ==
    ASSUME AnchorInv, out' = None,
           UNCHANGED <<bces, profileHnp, poolIndex, tunnelList, routes, aborted>>
    PROVE  AnchorInv'
<1>1. CacheInv'
  BY DEF AnchorInv, TunnelInv, CacheInv, TypeInv, DelayedPending, PrefixContinuity
<1>2. Fits' /\ Calm'
  BY DEF AnchorInv, TunnelInv, Fits, Calm
<1>3. RouteInv' /\ RoutesOwned' /\ Lasting' /\ AcceptedMeansBound'
  BY DEF AnchorInv, RouteInv, BindingsRouted, LookupServes, RoutesOwned, Lasting,
         AcceptedMeansBound
<1>4. PoolInv'
  BY DEF AnchorInv, PoolInv, FromPool, ProfilesApart
<1>. QED BY <1>1, <1>2, <1>3, <1>4 DEF AnchorInv, TunnelInv

\* What a binding means: the prefixes are those of the profile, and packets for
\* them are sent on.
LEMMA AnchorMeans ==
    ASSUME AnchorInv, None \notin Addr, NEW m, NEW hs, Assigned(bces, m, hs)
    PROVE  /\ m \in Profiled /\ hs \in SUBSET Prefix /\ hs # {} /\ hs = profileHnp[m]
           /\ \A h \in hs : Exit(h) # None
<1>1. PICK i \in DOMAIN bces : bces[i].mn = m /\ bces[i].hnps = hs
  BY DEF Assigned
<1>2. /\ m \in Profiled /\ hs # {} /\ hs = profileHnp[m] /\ bces[i] \in BceType
  BY <1>1 DEF AnchorInv, TunnelInv, CacheInv, PrefixContinuity, TypeInv
<1>3. hs \in SUBSET Prefix
  BY <1>1, <1>2 DEF BceType
<1>4. ASSUME NEW h \in hs PROVE Exit(h) # None
  <2>1. /\ routes[h] # <<>>
        /\ \E j \in DOMAIN bces : h \in bces[j].hnps
                                  /\ LookupStatic(routes[h]) = bces[j].tunnelIf
    BY <1>1, <1>4 DEF AnchorInv, RouteInv, LookupServes
  <2>2. PICK j \in DOMAIN bces : h \in bces[j].hnps
                                 /\ LookupStatic(routes[h]) = bces[j].tunnelIf
    BY <2>1
  <2>3. bces[j].tunnelIf \in DOMAIN tunnelList
    <3>1. j # 0
      BY DEF AnchorInv, TunnelInv, CacheInv, TypeInv
    <3>. QED BY <3>1 DEF AnchorInv, TunnelInv, Fits, Served
  <2>4. tunnelList[bces[j].tunnelIf].remote \in Addr
    BY <2>3 DEF AnchorInv, TunnelInv, Fits, ListOK
  <2>. QED BY <2>1, <2>2, <2>4 DEF Exit
<1>. QED BY <1>2, <1>3, <1>4
=============================================================================
