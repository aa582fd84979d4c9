----------------------------- MODULE RadvdProofs ----------------------------
(***************************************************************************)
(* The invariants of Radvd, for any number of configurations.              *)
(***************************************************************************)
EXTENDS Radvd, FiniteSetTheorems, TLAPS

TypeInv ==
    /\ made \in Nat /\ configurations \subseteq ConfigId
    /\ \A c \in configurations : c <= made
    /\ eventIds \in [ConfigId -> Event \cup {NoEvent}]
    /\ scheduled \subseteq Event /\ IsFiniteSet(scheduled)

\* Nothing is scheduled before the start, and what the map knows of c is of c.
Started ==
    /\ ~socket => scheduled = {}
    /\ \A c \in ConfigId : eventIds[c] # NoEvent => eventIds[c][1] = c

RadvdInv ==
    /\ TypeInv /\ Started
    /\ SendNeverAsserts /\ ChainsKnown /\ AllAdvertised /\ StopSilences

LEMMA InitRadvdInv == Init => RadvdInv
<1> SUFFICES ASSUME Init PROVE RadvdInv
  OBVIOUS
<1>1. IsFiniteSet({})
  BY FS_EmptySet
<1>2. TypeInv
  BY <1>1 DEF Init, TypeInv
<1>. QED BY <1>2 DEF Init, RadvdInv, Started, SendNeverAsserts, ChainsKnown,
                     AllAdvertised, StopSilences

\* The event Simulator::Schedule makes for c: of c, and not scheduled yet.
Fresh(c, e) == e \in Event /\ e[1] = c /\ e \notin scheduled

LEMMA NewEventFresh ==
    ASSUME RadvdInv, NEW c \in ConfigId
    PROVE  Fresh(c, NewEvent(c))
<1> DEFINE S == {c} \X (0 .. Cardinality(scheduled) + 1)
           P(e) == e \notin scheduled /\ eventIds[c] # e
<1>1. Cardinality(scheduled) \in Nat
  BY FS_CardinalityType DEF RadvdInv, TypeInv
<1>2. <<c, 0>> \in S /\ <<c, 1>> \in S
  BY <1>1
<1>3. \A e \in scheduled : e[1] = c => e = eventIds[c]
  BY DEF RadvdInv, ChainsKnown
<1>4. eventIds[c] # <<c, 0>> => P(<<c, 0>>)
  BY <1>3
<1>5. eventIds[c] # <<c, 1>> => P(<<c, 1>>)
  BY <1>3
<1>6. <<c, 0>> # <<c, 1>>
  OBVIOUS
<1>7. \E e \in S : P(e)
  BY <1>2, <1>4, <1>5, <1>6
<1>8. NewEvent(c) = CHOOSE e \in S : P(e)
  BY DEF NewEvent
<1>9. NewEvent(c) \in S /\ P(NewEvent(c))
  <2> HIDE DEF S, P
  <2>. QED BY <1>7, <1>8
<1>10. \A e \in S : e \in Event /\ e[1] = c
  BY <1>1 DEF Event
<1>. QED BY <1>9, <1>10 DEF Fresh

LEMMA StartKeeps ==
    ASSUME RadvdInv, StartApplication
    PROVE  RadvdInv'
<1> DEFINE New == {NewEvent(c) : c \in configurations}
<1>1. configurations \subseteq ConfigId
  BY DEF RadvdInv, TypeInv
<1>2. \A c \in ConfigId : Fresh(c, NewEvent(c))
  BY NewEventFresh
<1>3. scheduled = {} /\ ~aborted
  BY DEF StartApplication, RadvdInv, Started
<1>4. scheduled' = New
  BY <1>3 DEF StartApplication
<1>5. /\ socket' = TRUE
      /\ eventIds' = [c \in ConfigId |-> IF c \in configurations THEN NewEvent(c)
                                         ELSE eventIds[c]]
      /\ late' = IF stopped THEN late \cup configurations ELSE late
      /\ UNCHANGED <<stopped, made, configurations, aborted>>
  BY DEF StartApplication
<1>6. IsFiniteSet(New)
  <2>1. IsFiniteSet(configurations)
    <3>1. IsFiniteSet(ConfigId)
      BY FS_Interval, RadvdAssumption DEF ConfigId
    <3>. QED BY <1>1, <3>1, FS_Subset
  <2>2. [c \in configurations |-> NewEvent(c)] \in Surjection(configurations, New)
    BY DEF Surjection
  <2> HIDE DEF New
  <2>. QED BY <2>1, <2>2, FS_Surjection
<1>7. New \subseteq Event
  BY <1>1, <1>2 DEF Fresh
<1>8. \A c \in ConfigId : eventIds'[c] = IF c \in configurations THEN NewEvent(c)
                                         ELSE eventIds[c]
  BY <1>5
<1>9. eventIds' \in [ConfigId -> Event \cup {NoEvent}]
  BY <1>2, <1>5 DEF RadvdInv, TypeInv, Fresh
<1>10. TypeInv'
  BY <1>4, <1>5, <1>6, <1>7, <1>9 DEF RadvdInv, TypeInv
<1>11. \A e \in New : e[1] \in configurations /\ eventIds'[e[1]] = e
  BY <1>1, <1>2, <1>8 DEF Fresh
<1>12. \A c \in configurations : \E e \in New : e[1] = c
  BY <1>1, <1>2 DEF Fresh
<1>13. Started'
  BY <1>2, <1>5, <1>8 DEF RadvdInv, Started, Fresh
<1> HIDE DEF New
<1>14. SendNeverAsserts' /\ ChainsKnown'
  BY <1>3, <1>4, <1>5, <1>11 DEF SendNeverAsserts, ChainsKnown
<1>15. AllAdvertised'
  BY <1>4, <1>5, <1>12 DEF AllAdvertised
<1>16. StopSilences'
  BY <1>4, <1>5, <1>11 DEF StopSilences
<1>. QED BY <1>10, <1>13, <1>14, <1>15, <1>16 DEF RadvdInv

LEMMA StopKeeps ==
    ASSUME RadvdInv, StopApplication
    PROVE  RadvdInv'
<1>1. scheduled' = {}
  <2>1. \A e \in scheduled : e \in {eventIds[c] : c \in ConfigId}
    BY DEF RadvdInv, TypeInv, ChainsKnown
  <2>. QED BY <2>1 DEF StopApplication
<1>2. /\ stopped' = TRUE /\ eventIds' = [c \in ConfigId |-> NoEvent]
      /\ UNCHANGED <<socket, made, configurations, late, aborted>>
  BY DEF StopApplication
<1>3. TypeInv'
  BY <1>1, <1>2, FS_EmptySet DEF RadvdInv, TypeInv
<1>. QED BY <1>1, <1>2, <1>3 DEF RadvdInv, Started, SendNeverAsserts, ChainsKnown,
                                 AllAdvertised, StopSilences

LEMMA AddKeeps ==
    ASSUME RadvdInv, AddConfiguration
    PROVE  RadvdInv'
<1> DEFINE c == made + 1
           n == NewEvent(c)
<1>1. c \in ConfigId /\ c \notin configurations /\ made \in Nat
  BY RadvdAssumption DEF RadvdInv, TypeInv, AddConfiguration, ConfigId
<1>2. Fresh(c, n)
  BY <1>1, NewEventFresh
<1>3. \A e \in scheduled : e[1] # c
  BY <1>1 DEF RadvdInv, ChainsKnown
<1>4. /\ ~aborted
      /\ made' = c /\ configurations' = configurations \cup {c}
      /\ late' = IF stopped THEN late \cup {c} ELSE late
      /\ UNCHANGED <<socket, stopped, aborted>>
  BY DEF AddConfiguration
<1>5. CASE socket
  <2>1. /\ eventIds' = [eventIds EXCEPT ![c] = n]
        /\ scheduled' = (scheduled \ {eventIds[c]}) \cup {n}
    BY <1>5 DEF AddConfiguration
  <2>2. eventIds[c] \notin scheduled
    BY <1>1, <1>3, NoEventAssumption DEF RadvdInv, TypeInv, Started
  <2>3. scheduled' = scheduled \cup {n}
    BY <2>1, <2>2
  <2> HIDE DEF n
  <2>4. IsFiniteSet(scheduled')
    BY <2>3, FS_AddElement DEF RadvdInv, TypeInv
  <2>5. \A d \in ConfigId : eventIds'[d] = IF d = c THEN n ELSE eventIds[d]
    BY <2>1 DEF RadvdInv, TypeInv
  <2>6. eventIds' \in [ConfigId -> Event \cup {NoEvent}]
    BY <1>2, <2>1 DEF RadvdInv, TypeInv, Fresh
  <2>7. \A d \in configurations' : d <= made'
    BY <1>1, <1>4 DEF RadvdInv, TypeInv, ConfigId
  <2> HIDE DEF c
  <2>8. TypeInv'
    <3>1. made' \in Nat
      BY <1>1, <1>4 DEF c
    <3>. QED BY <1>1, <1>2, <1>4, <2>3, <2>4, <2>6, <2>7, <3>1
             DEF RadvdInv, TypeInv, Fresh
  <2>9. Started'
    BY <1>2, <1>4, <1>5, <2>5 DEF RadvdInv, Started, Fresh
  <2>10. ChainsKnown'
    BY <1>1, <1>2, <1>3, <1>4, <2>3, <2>5 DEF RadvdInv, TypeInv, ChainsKnown, Fresh
  <2>11. AllAdvertised'
    BY <1>2, <1>4, <2>3 DEF RadvdInv, AllAdvertised, Fresh
  <2>12. StopSilences' /\ SendNeverAsserts'
    BY <1>2, <1>4, <2>3 DEF RadvdInv, StopSilences, SendNeverAsserts, Fresh
  <2>. QED BY <2>8, <2>9, <2>10, <2>11, <2>12 DEF RadvdInv
<1>6. CASE ~socket
  <2>1. UNCHANGED <<eventIds, scheduled>> /\ scheduled = {}
    BY <1>6 DEF AddConfiguration, RadvdInv, Started
  <2>2. \A d \in configurations' : d <= made'
    BY <1>1, <1>4 DEF RadvdInv, TypeInv, ConfigId
  <2>3. TypeInv'
    BY <1>1, <1>4, <2>1, <2>2 DEF RadvdInv, TypeInv
  <2>. QED BY <1>4, <1>6, <2>1, <2>3 DEF RadvdInv, Started, SendNeverAsserts,
                                         ChainsKnown, AllAdvertised, StopSilences
<1>. QED BY <1>5, <1>6

LEMMA RemoveKeeps ==
    ASSUME RadvdInv, NEW i \in IfIndex, RemoveConfiguration(i)
    PROVE  RadvdInv'
<1>1. /\ scheduled' = scheduled \ {eventIds[i]}
      /\ configurations' = configurations \ {i}
      /\ UNCHANGED <<socket, stopped, made, eventIds, late, aborted>>
  BY DEF RemoveConfiguration
<1>2. IsFiniteSet(scheduled')
  BY <1>1, FS_Subset DEF RadvdInv, TypeInv
<1>3. TypeInv'
  BY <1>1, <1>2 DEF RadvdInv, TypeInv
<1>4. ChainsKnown'
  BY <1>1 DEF RadvdInv, ChainsKnown
<1>5. AllAdvertised'
  <2> SUFFICES ASSUME socket, ~stopped, NEW c \in configurations, c # i
               PROVE  \E e \in scheduled' : e[1] = c
    BY <1>1 DEF AllAdvertised
  <2>1. PICK e \in scheduled : e[1] = c
    BY DEF RadvdInv, AllAdvertised
  <2>2. eventIds[i] # e
    <3>1. i \in ConfigId
      BY DEF RemoveConfiguration, RadvdInv, TypeInv
    <3>. QED BY <2>1, <3>1, NoEventAssumption DEF RadvdInv, TypeInv, Started
  <2>. QED BY <1>1, <2>1, <2>2
<1>6. Started' /\ SendNeverAsserts' /\ StopSilences'
  BY <1>1 DEF RadvdInv, Started, SendNeverAsserts, StopSilences
<1>. QED BY <1>3, <1>4, <1>5, <1>6 DEF RadvdInv

LEMMA SendKeeps ==
    ASSUME RadvdInv, NEW e \in scheduled, Send(e)
    PROVE  RadvdInv'
<1> DEFINE c == e[1]
           n == NewEvent(c)
<1>1. c \in ConfigId /\ c \in configurations /\ eventIds[c] = e
  BY DEF RadvdInv, TypeInv, ChainsKnown, Event
<1>2. Fresh(c, n)
  BY <1>1, NewEventFresh
<1>3. /\ scheduled' = (scheduled \ {e}) \cup {n}
      /\ eventIds' = [eventIds EXCEPT ![c] = n]
      /\ UNCHANGED <<aborted, socket, stopped, made, configurations, late>>
  BY <1>1 DEF Send
<1>. HIDE DEF n, c
<1>4. IsFiniteSet(scheduled')
  <2>1. IsFiniteSet(scheduled \ {e})
    BY FS_Subset DEF RadvdInv, TypeInv
  <2>. QED BY <1>3, <2>1, FS_AddElement
<1>5. \A d \in ConfigId : eventIds'[d] = IF d = c THEN n ELSE eventIds[d]
  BY <1>3 DEF RadvdInv, TypeInv
<1>6. eventIds' \in [ConfigId -> Event \cup {NoEvent}]
  BY <1>2, <1>3 DEF RadvdInv, TypeInv, Fresh
<1>7. TypeInv'
  BY <1>2, <1>3, <1>4, <1>6 DEF RadvdInv, TypeInv, Fresh
<1>8. \A x \in scheduled \ {e} : x[1] # c
  BY <1>1 DEF RadvdInv, ChainsKnown
<1>9. ChainsKnown'
  BY <1>1, <1>2, <1>3, <1>5, <1>8 DEF RadvdInv, TypeInv, ChainsKnown, Fresh
<1>10. AllAdvertised'
  <2> SUFFICES ASSUME socket, ~stopped, NEW d \in configurations
               PROVE  \E x \in scheduled' : x[1] = d
    BY <1>3 DEF AllAdvertised
  <2>1. CASE d = c
    BY <1>2, <1>3, <2>1 DEF Fresh
  <2>2. CASE d # c
    <3>1. PICK x \in scheduled : x[1] = d
      BY DEF RadvdInv, AllAdvertised
    <3>. QED BY <1>3, <2>2, <3>1 DEF c
  <2>. QED BY <2>1, <2>2
<1>11. StopSilences' /\ SendNeverAsserts'
  BY <1>2, <1>3 DEF RadvdInv, StopSilences, SendNeverAsserts, Fresh, c
<1>12. Started'
  BY <1>2, <1>3, <1>5 DEF RadvdInv, Started, Fresh
<1>. QED BY <1>7, <1>9, <1>10, <1>11, <1>12 DEF RadvdInv

LEMMA RadvdInvCorrect == Spec => []RadvdInv
<1>1. RadvdInv /\ [Next]_vars => RadvdInv'
  <2> SUFFICES ASSUME RadvdInv, [Next]_vars PROVE RadvdInv'
    OBVIOUS
  <2>1. CASE UNCHANGED vars
    BY <2>1 DEF vars, RadvdInv, TypeInv, Started, SendNeverAsserts, ChainsKnown,
                AllAdvertised, StopSilences
  <2>. QED BY <2>1, StartKeeps, StopKeeps, AddKeeps, RemoveKeeps, SendKeeps DEF Next
<1>. QED BY <1>1, InitRadvdInv, PTL DEF Spec

\* Send never runs into its assertion, however many configurations are added,
\* removed, started and stopped.
THEOREM SendNeverAssertsCorrect == Spec => []SendNeverAsserts
BY RadvdInvCorrect, PTL DEF RadvdInv

\* The map knows the event of each chain, and a removed configuration has none.
THEOREM ChainsKnownCorrect == Spec => []ChainsKnown
BY RadvdInvCorrect, PTL DEF RadvdInv

\* While the daemon runs every configuration it has is advertised.
THEOREM AllAdvertisedCorrect == Spec => []AllAdvertised
BY RadvdInvCorrect, PTL DEF RadvdInv

\* After StopApplication only what was added or started later is advertised.
THEOREM StopSilencesCorrect == Spec => []StopSilences
BY RadvdInvCorrect, PTL DEF RadvdInv

\* What TypeOK says besides.
Bounds ==
    /\ {socket, stopped, aborted} \subseteq BOOLEAN
    /\ made \in 0 .. MaxConfig
    /\ late \subseteq 1 .. made

LEMMA BoundsNext == RadvdInv /\ Bounds /\ [Next]_vars => Bounds'
<1> SUFFICES ASSUME RadvdInv, Bounds, [Next]_vars PROVE Bounds'
  OBVIOUS
<1>1. MaxConfig \in Nat /\ made \in Nat /\ configurations \subseteq 1 .. made
  BY RadvdAssumption DEF RadvdInv, TypeInv, ConfigId
<1>2. CASE StartApplication
  <2>1. late' \subseteq late \cup configurations
    BY <1>2 DEF StartApplication
  <2>2. socket' = TRUE /\ UNCHANGED <<stopped, made, aborted>>
    BY <1>2 DEF StartApplication
  <2>. QED BY <1>1, <2>1, <2>2 DEF Bounds
<1>3. CASE StopApplication
  BY <1>3 DEF StopApplication, Bounds
<1>4. CASE AddConfiguration
  <2>1. made' = made + 1 /\ made < MaxConfig /\ UNCHANGED <<socket, stopped, aborted>>
    BY <1>4 DEF AddConfiguration
  <2>2. late' \subseteq late \cup {made + 1}
    BY <1>4 DEF AddConfiguration
  <2>3. made' \in 0 .. MaxConfig /\ late' \subseteq 1 .. made'
    BY <1>1, <2>1, <2>2 DEF Bounds
  <2>. QED BY <2>1, <2>3 DEF Bounds
<1>5. ASSUME NEW i \in IfIndex, RemoveConfiguration(i) PROVE Bounds'
  BY <1>5 DEF RemoveConfiguration, Bounds
<1>6. ASSUME NEW e \in scheduled, Send(e) PROVE Bounds'
  BY <1>6 DEF Send, Bounds
<1>7. CASE UNCHANGED vars
  BY <1>7 DEF vars, Bounds
<1>. QED BY <1>2, <1>3, <1>4, <1>5, <1>6, <1>7 DEF Next

\* The daemon only ever keeps and advertises configurations that were made.
THEOREM RadvdTypeCorrect == Spec => []TypeOK
<1>1. Init => Bounds
  <2>1. 0 \in 0 .. MaxConfig
    BY RadvdAssumption
  <2>. QED BY <2>1 DEF Init, Bounds
<1>2. RadvdInv /\ Bounds => TypeOK
  <2> SUFFICES ASSUME RadvdInv, Bounds PROVE TypeOK
    OBVIOUS
  <2>1. configurations \subseteq 1 .. made
    BY RadvdAssumption DEF RadvdInv, TypeInv, ConfigId
  <2>. QED BY <2>1 DEF RadvdInv, TypeInv, Bounds, TypeOK
<1>. QED BY <1>1, <1>2, BoundsNext, RadvdInvCorrect, PTL DEF Spec
=============================================================================
