------------------------------- MODULE Radvd --------------------------------
(***************************************************************************)
(* The router advertisement daemon of a MAG (unicast-radvd.cc): a chain of *)
(* simulator events per configuration, each Send scheduling the next one,  *)
(* and a map that knows the last event of each chain.                      *)
(*                                                                         *)
(* A configuration is its m_id, made by the static counter m_idGen; it is  *)
(* added once.  An event is a configuration and a number that tells it from*)
(* the events of the same configuration that are scheduled or known.  What *)
(* an advertisement says is left out.                                      *)
(***************************************************************************)
EXTENDS Naturals, FiniteSets

CONSTANTS
    MaxConfig,    \* bound: configurations that are ever made
    IfIndex,      \* the interface indices RemoveConfiguration is called with
    NoEvent       \* a default EventId, and no entry in the map

ASSUME RadvdAssumption == MaxConfig \in Nat /\ IfIndex \subseteq Nat

ConfigId == 1 .. MaxConfig
Event    == ConfigId \X Nat

ASSUME NoEventAssumption == NoEvent \notin Event

VARIABLES
    socket,          \* m_socket is there
    stopped,         \* StopApplication was called
    made,            \* m_idGen - 1
    configurations,  \* m_configurations
    eventIds,        \* m_eventIds
    scheduled,       \* the events the simulator will run
    late,            \* the configurations added or started after StopApplication
    aborted          \* the assertion of Send has failed

vars == <<socket, stopped, made, configurations, eventIds, scheduled, late,
          aborted>>

Init ==
    /\ socket = FALSE /\ stopped = FALSE
    /\ made = 0
    /\ configurations = {}
    /\ eventIds = [c \in ConfigId |-> NoEvent]
    /\ scheduled = {}
    /\ late = {}
    /\ aborted = FALSE

-----------------------------------------------------------------------------
\* Simulator::Schedule of a Send for c: an event unlike any other of c.
NewEvent(c) ==
    CHOOSE e \in {c} \X (0 .. Cardinality(scheduled) + 1) :
        e \notin scheduled /\ eventIds[c] # e

\* The application starts once, 1 s into the simulation.
StartApplication ==
    /\ ~aborted /\ ~socket
    /\ socket' = TRUE
    /\ eventIds' = [c \in ConfigId |-> IF c \in configurations THEN NewEvent(c)
                                       ELSE eventIds[c]]
    /\ scheduled' = scheduled \cup {NewEvent(c) : c \in configurations}
    /\ late' = IF stopped THEN late \cup configurations ELSE late
    /\ UNCHANGED <<stopped, made, configurations, aborted>>

\* Slip: the map is emptied and the events are left to run.
StopApplicationForgets ==
    /\ ~aborted /\ ~stopped
    /\ stopped' = TRUE
    /\ eventIds' = [c \in ConfigId |-> NoEvent]
    /\ UNCHANGED <<socket, made, configurations, scheduled, late, aborted>>

\* It stops at most once, if a stop time was set.
StopApplication ==
    /\ ~aborted /\ ~stopped
    /\ stopped' = TRUE
    /\ scheduled' = scheduled \ {eventIds[c] : c \in ConfigId}
    /\ eventIds' = [c \in ConfigId |-> NoEvent]
    /\ UNCHANGED <<socket, made, configurations, late, aborted>>

\* Slip: the event is scheduled whether the application has started or not.
AddConfigurationEarly ==
    LET c == made + 1
    IN  /\ ~aborted
        /\ made < MaxConfig
        /\ made' = c
        /\ configurations' = configurations \cup {c}
        /\ eventIds' = [eventIds EXCEPT ![c] = NewEvent(c)]
        /\ scheduled' = scheduled \cup {NewEvent(c)}
        /\ late' = IF stopped THEN late \cup {c} ELSE late
        /\ UNCHANGED <<socket, stopped, aborted>>

\* Slip: the event is scheduled only by StartApplication.
AddConfigurationUnscheduled ==
    LET c == made + 1
    IN  /\ ~aborted
        /\ made < MaxConfig
        /\ made' = c
        /\ configurations' = configurations \cup {c}
        /\ late' = IF stopped THEN late \cup {c} ELSE late
        /\ UNCHANGED <<socket, stopped, eventIds, scheduled, aborted>>

\* Slip: the identifiers are not counted on.
AddConfigurationSameId ==
    LET c == made + 1
    IN  /\ ~aborted
        /\ made < MaxConfig
        /\ configurations' = configurations \cup {c}
        /\ IF socket
           THEN /\ eventIds' = [eventIds EXCEPT ![c] = NewEvent(c)]
                /\ scheduled' = (scheduled \ {eventIds[c]}) \cup {NewEvent(c)}
           ELSE UNCHANGED <<eventIds, scheduled>>
        /\ late' = IF stopped THEN late \cup {c} ELSE late
        /\ UNCHANGED <<socket, stopped, made, aborted>>

\* AddConfiguration of a new configuration.
AddConfiguration ==
    LET c == made + 1
    IN  /\ ~aborted
        /\ made < MaxConfig
        /\ made' = c
        /\ configurations' = configurations \cup {c}
        /\ IF socket
           THEN /\ eventIds' = [eventIds EXCEPT ![c] = NewEvent(c)]
                /\ scheduled' = (scheduled \ {eventIds[c]}) \cup {NewEvent(c)}
           ELSE UNCHANGED <<eventIds, scheduled>>
        /\ late' = IF stopped THEN late \cup {c} ELSE late
        /\ UNCHANGED <<socket, stopped, aborted>>

\* Slip: the event is not cancelled.
RemoveConfigurationKeepsEvent(i) ==
    /\ ~aborted
    /\ i \in configurations
    /\ configurations' = configurations \ {i}
    /\ UNCHANGED <<socket, stopped, made, eventIds, scheduled, late, aborted>>

\* RemoveConfiguration (int32_t): the configuration whose identifier equals
\* the interface index, if there is one.  Its entry in the map stays.
RemoveConfiguration(i) ==
    /\ ~aborted
    /\ i \in configurations
    /\ scheduled' = scheduled \ {eventIds[i]}
    /\ configurations' = configurations \ {i}
    /\ UNCHANGED <<socket, stopped, made, eventIds, late, aborted>>

\* Send: the event it runs in is over; so must be the one the map knows.
Send(e) ==
    /\ ~aborted
    /\ e \in scheduled
    /\ IF eventIds[e[1]] \in scheduled \ {e}
       THEN /\ aborted' = TRUE /\ scheduled' = scheduled \ {e}
            /\ UNCHANGED eventIds
       ELSE /\ scheduled' = (scheduled \ {e}) \cup {NewEvent(e[1])}
            /\ eventIds' = [eventIds EXCEPT ![e[1]] = NewEvent(e[1])]
            /\ UNCHANGED aborted
    /\ UNCHANGED <<socket, stopped, made, configurations, late>>

Next ==
    \/ StartApplication \/ StopApplication
    \/ AddConfiguration
    \/ \E i \in IfIndex : RemoveConfiguration(i)
    \/ \E e \in scheduled : Send(e)

Spec == Init /\ [][Next]_vars

-----------------------------------------------------------------------------
TypeOK ==
    /\ {socket, stopped, aborted} \subseteq BOOLEAN
    /\ made \in 0 .. MaxConfig
    /\ configurations \subseteq 1 .. made /\ late \subseteq 1 .. made
    /\ eventIds \in [ConfigId -> Event \cup {NoEvent}]
    /\ scheduled \subseteq Event

\* Send never runs into its assertion: no configuration has two chains of
\* events, whatever is added, removed, started and stopped in between.
SendNeverAsserts == ~aborted

\* The map knows the one event that is scheduled for a configuration, so stop
\* and removal reach it; and a configuration that was removed has none.
ChainsKnown ==
    \A e \in scheduled : e[1] \in configurations /\ eventIds[e[1]] = e

\* While the daemon runs every configuration it has is advertised.
AllAdvertised ==
    socket /\ ~stopped =>
        \A c \in configurations : \E e \in scheduled : e[1] = c

\* After the stop nothing is advertised but what was added, or started, later:
\* AddConfiguration takes the socket to say that the daemon runs.
StopSilences == stopped => \A e \in scheduled : e[1] \in late
=============================================================================
