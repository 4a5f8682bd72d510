-------------------------- MODULE AgreementProofs --------------------------
(***************************************************************************)
(* What is declared twice.  The server's graphs and the client's lists of  *)
(* statuses, and the server's demands on a role and the client's idea of   *)
(* who may write, are written in two languages; a deletion's demand is     *)
(* checked on the route and in the handler.  Whoever changes one finds     *)
(* here what the other relies on.                                          *)
(***************************************************************************)
EXTENDS StatusGraph, Access, TLAPS

(* What Workspace assumes of a list, and the page of the server: the list  *)
(* names the graph's statuses and each of its steps is an edge.            *)
StepsAreEdges(order, graph) ==
    /\ \A i \in 1 .. Len(order) : order[i] \in DOMAIN graph
    /\ \A i \in 1 .. Len(order) - 1 : CanTransition(graph, order[i], order[i + 1])

(* Every status the client can offer next, for any of the four aggregates, *)
(* is one the server accepts from the status shown.                        *)
THEOREM ClientListsFollowServerGraphs ==
    /\ StepsAreEdges(SolarSiteOrder, SolarSiteTransitions)
    /\ StepsAreEdges(InverterUnitOrder, InverterUnitTransitions)
    /\ StepsAreEdges(FaultEventOrder, FaultEventTransitions)
    /\ StepsAreEdges(MitigationActionOrder, MitigationActionTransitions)
<1>1. StepsAreEdges(SolarSiteOrder, SolarSiteTransitions)
  BY DEF StepsAreEdges, CanTransition, SolarSiteOrder, SolarSiteTransitions
<1>2. StepsAreEdges(InverterUnitOrder, InverterUnitTransitions)
  BY DEF StepsAreEdges, CanTransition, InverterUnitOrder, InverterUnitTransitions
<1>3. StepsAreEdges(FaultEventOrder, FaultEventTransitions)
  BY DEF StepsAreEdges, CanTransition, FaultEventOrder, FaultEventTransitions
<1>4. StepsAreEdges(MitigationActionOrder, MitigationActionTransitions)
  BY DEF StepsAreEdges, CanTransition, MitigationActionOrder, MitigationActionTransitions
<1> QED BY <1>1, <1>2, <1>3, <1>4

-----------------------------------------------------------------------------
(* The ranks order the roles: whoever may do something, may do it with any *)
(* higher role too, although one check compares ranks and two compare      *)
(* names (RequireMinimumRole, RequireRoles, the handler of a deletion).    *)
THEOREM HigherRolesMayMore ==
    ASSUME NEW high \in Roles, NEW low \in Roles, NEW op, Rank(high) >= Rank(low), Permitted(low, op)
    PROVE  Permitted(high, op)
<1>1. Roles = {"viewer", "operator", "reviewer", "admin"}
  BY DEF Roles, roleRank
<1>2. Rank("viewer") = 1 /\ Rank("operator") = 2 /\ Rank("reviewer") = 3 /\ Rank("admin") = 4
  BY <1>1 DEF Rank, roleRank
<1> QED
  BY <1>1, <1>2 DEF Permitted, RouteAdmits, HandlerAdmits, RequireMinimumRole, RequireRoles

(* The web client lets exactly those roles write whose requests the server *)
(* admits: no button leads to a refusal, and none is missing.              *)
THEOREM ButtonsFollowRoutes ==
    ASSUME NEW role, NEW op \in ClientWrites
    PROVE  CanWrite(role) <=> Permitted(role, op)
<1>1. Roles = {"viewer", "operator", "reviewer", "admin"}
  BY DEF Roles, roleRank
<1>2. Rank("viewer") = 1 /\ Rank("operator") = 2 /\ Rank("reviewer") = 3 /\ Rank("admin") = 4
  BY <1>1 DEF Rank, roleRank
<1>3. role \notin Roles => Rank(role) = 0
  BY DEF Rank
<1>4. Permitted(role, op) <=> Rank(role) >= 2
  <2>1. op \in WriteOps /\ op \notin Oversight /\ op # "delete"
    BY DEF ClientWrites, WriteOps, Oversight
  <2> QED
    BY <1>2, <2>1 DEF Permitted, RouteAdmits, HandlerAdmits, RequireMinimumRole
<1> QED
  BY <1>1, <1>2, <1>3, <1>4 DEF CanWrite

(* The two looks at the role of who deletes agree, and an unknown role,    *)
(* which has rank 0, is admitted by no demand.                             *)
THEOREM DeletionChecksAgree ==
    ASSUME NEW role
    PROVE  /\ RouteAdmits(role, "delete") <=> HandlerAdmits(role, "delete")
           /\ role \notin Roles =>
                 \A op \in WriteOps \cup Oversight \cup {"delete"} : ~ Permitted(role, op)
<1>1. RouteAdmits(role, "delete") <=> HandlerAdmits(role, "delete")
  BY DEF RouteAdmits, HandlerAdmits, RequireRoles, WriteOps, Oversight
<1>2. ASSUME role \notin Roles, NEW op \in WriteOps \cup Oversight \cup {"delete"}
      PROVE  ~ Permitted(role, op)
  <2>1. "operator" \in Roles /\ "reviewer" \in Roles /\ "admin" \in Roles
    BY DEF Roles, roleRank
  <2>2. Rank(role) = 0 /\ Rank("operator") = 2 /\ Rank("reviewer") = 3
    BY <1>2, <2>1 DEF Rank, roleRank
  <2>3. ~ RequireMinimumRole("operator", role) /\ ~ RequireMinimumRole("reviewer", role)
    BY <2>2 DEF RequireMinimumRole
  <2>4. ~ RequireRoles({"admin"}, role)
    BY <1>2, <2>1 DEF RequireRoles
  <2> QED
    BY <1>2, <2>3, <2>4 DEF Permitted, RouteAdmits
<1> QED
  BY <1>1, <1>2

=============================================================================
