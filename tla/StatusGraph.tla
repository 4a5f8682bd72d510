---------------------------- MODULE StatusGraph ----------------------------
(***************************************************************************)
(* The status graphs of the four aggregates, as the server's              *)
(* constants/status.go declares them, and the linear "next status" the     *)
(* web client derives from its own list of statuses.  Pure definitions.    *)
(*                                                                         *)
(* A graph is a function from each status to the set of statuses it may    *)
(* move to, so that a Go map lookup is an application of the function.     *)
(***************************************************************************)
EXTENDS Naturals, Sequences

SolarSiteTransitions ==
    [online      |-> {"limited", "offline"},
     limited     |-> {"offline", "maintenance", "online"},
     offline     |-> {"maintenance", "limited"},
     maintenance |-> {"offline"}]

InverterUnitTransitions ==
    [online   |-> {"warning", "tripped"},
     warning  |-> {"tripped", "isolated", "online"},
     tripped  |-> {"isolated", "warning"},
     isolated |-> {"tripped"}]

FaultEventTransitions ==
    [open         |-> {"acknowledged", "mitigated"},
     acknowledged |-> {"mitigated", "closed", "open"},
     mitigated    |-> {"closed", "acknowledged"},
     closed       |-> {"mitigated"}]

MitigationActionTransitions ==
    [draft     |-> {"confirmed", "executing"},
     confirmed |-> {"executing", "completed", "draft"},
     executing |-> {"completed", "failed", "confirmed"},
     completed |-> {"failed", "executing"},
     failed    |-> {"completed"}]

(* A status that is no key of the graph has no targets.                    *)
CanTransition(graph, from, to) ==
    /\ from \in DOMAIN graph
    /\ to \in graph[from]

-----------------------------------------------------------------------------
(* Status of a record a service creates, and the statuses of the three     *)
(* demonstration rows inserted into an empty table at startup.             *)

SolarSiteInitialStatus == "online"
InverterUnitInitialStatus == "online"
FaultEventInitialStatus == "open"
MitigationActionInitialStatus == "draft"

SolarSiteSeeds == {"online", "limited", "offline"}
InverterUnitSeeds == {"online", "warning", "tripped"}
FaultEventSeeds == {"open", "acknowledged", "mitigated"}
MitigationActionSeeds == {"draft", "confirmed", "executing"}

-----------------------------------------------------------------------------
(* The web client's own lists, in the order in which it advances a record. *)

SolarSiteOrder == <<"online", "limited", "offline", "maintenance">>
InverterUnitOrder == <<"online", "warning", "tripped", "isolated">>
FaultEventOrder == <<"open", "acknowledged", "mitigated", "closed">>
MitigationActionOrder == <<"draft", "confirmed", "executing", "completed", "failed">>

=============================================================================
