---------------------------- MODULE StaticRoutes ----------------------------
(***************************************************************************)
(* The unicast tables of Ipv6StaticRouting and Ipv6StaticSourceRouting as  *)
(* the mobility agents use them: network routes with prefix length 64 and  *)
(* metric 0 through an interface.  A table is kept per prefix.  Of equal   *)
(* routes only the last one added is kept, lookups never see the others.   *)
(***************************************************************************)
EXTENDS Integers, SequencesExt

CONSTANTS
    Prefix,       \* the home network prefixes
    ZeroPrefix    \* the all-zero address "::"

ASSUME PrefixAssumption == ZeroPrefix \notin Prefix

\* AddNetworkRouteTo and AddNetworkRouteFrom with an interface and no gateway:
\* the new route comes last, its prefixToUse is "::".
AddNetworkRoute(table, i) == Append(RemoveFirst(table, i), i)

\* RemoveRoute: only the first route with the given prefixToUse is removed, and
\* those AddNetworkRoute makes have "::".
RemoveRoute(table, i, prefixToUse) ==
    IF prefixToUse = ZeroPrefix THEN RemoveFirst(table, i) ELSE table

\* LookupStatic: of routes with the same mask and metric the last one.
LookupStatic(table) == Last(table)
=============================================================================
