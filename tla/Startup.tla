------------------------------ MODULE Startup ------------------------------
(***************************************************************************)
(* How a server comes up (cmd/server/main.go, database/database.go): it    *)
(* waits for the database, migrates, seeds every empty table, pings Redis  *)
(* and serves; when anything fails the process exits and the container's   *)
(* restart policy starts it again.  Any number of servers may share one    *)
(* database; what their clients do to the tables is reduced to creating    *)
(* and removing rows.                                                      *)
(***************************************************************************)
EXTENDS Naturals

CONSTANTS
    Servers,
    LastTable,     \* tables are seeded in the order 1 .. LastTable; table 1
                   \* holds the users, the others the aggregates
    Seeds,         \* unique codes of the rows seeded into a table
    Others,        \* unique codes that clients invent
    MaxAttempts,   \* connection attempts per start
    MaxFaults      \* bound on crashes and outages

ASSUME TablesAssumption == LastTable \in Nat \ {0}
ASSUME SeedsAssumption == Seeds # {} /\ Seeds \cap Others = {}
ASSUME AttemptsAssumption == MaxAttempts \in Nat \ {0}
ASSUME FaultsAssumption == MaxFaults \in Nat

VARIABLES
    live,      \* live[t]: the codes of the rows of table t that are there
    gone,      \* gone[t]: those of its soft-deleted rows
    phase,     \* where each server is in its start
    table,     \* the table it seeds
    attempt,   \* the connection attempt it makes
    up,        \* the dependencies that can be reached
    faults     \* crashes and outages left

vars == <<live, gone, phase, table, attempt, up, faults>>

Tables == 1 .. LastTable
Codes == Seeds \cup Others
Dependencies == {"db", "redis"}
Phases == {"down", "open", "ping", "reping", "migrate", "count", "insert", "redis", "serving"}

(* Codes in the unique index, which covers the deleted rows too.           *)
Indexed(t) == live[t] \cup gone[t]

GoTo(s, p) == phase' = [phase EXCEPT ![s] = p]

Init ==
    /\ live = [t \in Tables |-> {}]
    /\ gone = [t \in Tables |-> {}]
    /\ phase = [s \in Servers |-> "down"]
    /\ table = [s \in Servers |-> 1]
    /\ attempt = [s \in Servers |-> 1]
    /\ up = Dependencies
    /\ faults = MaxFaults

(* The container starts, or is restarted after the process has exited.     *)
Start(s) ==
    /\ phase[s] = "down"
    /\ GoTo(s, "open")
    /\ attempt' = [attempt EXCEPT ![s] = 1]
    /\ UNCHANGED <<live, gone, table, up, faults>>

(* The end of an attempt.  The loop of Open also ends after the last one   *)
(* if `err' is nil by then, as it is when the second ping succeeds.        *)
AttemptOver(s, failed) ==
    \/ /\ attempt[s] < MaxAttempts
       /\ attempt' = [attempt EXCEPT ![s] = @ + 1]
       /\ GoTo(s, "open")
    \/ /\ attempt[s] = MaxAttempts
       /\ GoTo(s, IF failed THEN "down" ELSE "migrate")
       /\ UNCHANGED attempt

(* gorm.Open, which pings the database itself.                             *)
OpenPool(s) ==
    /\ phase[s] = "open"
    /\ \/ "db" \in up /\ GoTo(s, "ping") /\ UNCHANGED attempt
       \/ "db" \notin up /\ AttemptOver(s, TRUE)
    /\ UNCHANGED <<live, gone, table, up, faults>>

Ping(s) ==
    /\ phase[s] = "ping"
    /\ GoTo(s, IF "db" \in up THEN "migrate" ELSE "reping")
    /\ UNCHANGED <<live, gone, table, attempt, up, faults>>

PingAgain(s) ==
    /\ phase[s] = "reping"
    /\ AttemptOver(s, "db" \notin up)
    /\ UNCHANGED <<live, gone, table, up, faults>>

Migrate(s) ==
    /\ phase[s] = "migrate"
    /\ GoTo(s, IF "db" \in up THEN "count" ELSE "down")
    /\ table' = [table EXCEPT ![s] = 1]
    /\ UNCHANGED <<live, gone, attempt, up, faults>>

(* Mutant: a seed function that returns from Seed as well.                 *)
SkipRemainingTables(s) == GoTo(s, "redis") /\ UNCHANGED table

SeedNextTable(s) ==
    \/ /\ table[s] < LastTable
       /\ table' = [table EXCEPT ![s] = @ + 1]
       /\ GoTo(s, "count")
    \/ table[s] = LastTable /\ GoTo(s, "redis") /\ UNCHANGED table

Fail(s) == GoTo(s, "down") /\ UNCHANGED table

(* Mutant: seeding without looking.                                        *)
LooksEmptyAlways(t) == TRUE

(* Count sees the live rows only.                                          *)
LooksEmpty(t) == live[t] = {}

CountRows(s) ==
    /\ phase[s] = "count"
    /\ \/ "db" \notin up /\ Fail(s)
       \/ "db" \in up /\ LooksEmpty(table[s]) /\ GoTo(s, "insert") /\ UNCHANGED table
       \/ "db" \in up /\ ~ LooksEmpty(table[s]) /\ SeedNextTable(s)
    /\ UNCHANGED <<live, gone, attempt, up, faults>>

(* Mutant: an upsert that clears deleted_at.                               *)
ReviveSeeds(s) ==
    /\ phase[s] = "insert"
    /\ \/ /\ "db" \notin up
          /\ Fail(s) /\ UNCHANGED <<live, gone>>
       \/ /\ "db" \in up
          /\ live' = [live EXCEPT ![table[s]] = @ \cup Seeds]
          /\ gone' = [gone EXCEPT ![table[s]] = @ \ Seeds]
          /\ SeedNextTable(s)
    /\ UNCHANGED <<attempt, up, faults>>

(* Mutant: an insert that succeeds beside deleted rows of the same code.   *)
InsertAllSeeds(s) ==
    /\ phase[s] = "insert"
    /\ \/ /\ "db" \notin up
          /\ Fail(s) /\ UNCHANGED live
       \/ /\ "db" \in up
          /\ live' = [live EXCEPT ![table[s]] = @ \cup Seeds]
          /\ SeedNextTable(s)
    /\ UNCHANGED <<gone, attempt, up, faults>>

(* One INSERT of all the seeds: none is inserted if one is indexed.        *)
InsertSeeds(s) ==
    /\ phase[s] = "insert"
    /\ \/ /\ "db" \notin up \/ Seeds \cap Indexed(table[s]) # {}
          /\ Fail(s) /\ UNCHANGED live
       \/ /\ "db" \in up /\ Seeds \cap Indexed(table[s]) = {}
          /\ live' = [live EXCEPT ![table[s]] = @ \cup Seeds]
          /\ SeedNextTable(s)
    /\ UNCHANGED <<gone, attempt, up, faults>>

PingRedis(s) ==
    /\ phase[s] = "redis"
    /\ GoTo(s, IF "redis" \in up THEN "serving" ELSE "down")
    /\ UNCHANGED <<live, gone, table, attempt, up, faults>>

Boot(s) ==
    \/ Start(s) \/ OpenPool(s) \/ Ping(s) \/ PingAgain(s) \/ Migrate(s)
    \/ CountRows(s) \/ InsertSeeds(s) \/ PingRedis(s)

(* What the clients of a serving server do to an aggregate's table.        *)
CreateRow(t, c) ==
    /\ "db" \in up /\ \E s \in Servers : phase[s] = "serving"
    /\ t # 1 /\ c \notin Indexed(t)
    /\ live' = [live EXCEPT ![t] = @ \cup {c}]
    /\ UNCHANGED <<gone, phase, table, attempt, up, faults>>

RemoveRow(t, c) ==
    /\ "db" \in up /\ \E s \in Servers : phase[s] = "serving"
    /\ t # 1 /\ c \in live[t]
    /\ live' = [live EXCEPT ![t] = @ \ {c}]
    /\ gone' = [gone EXCEPT ![t] = @ \cup {c}]
    /\ UNCHANGED <<phase, table, attempt, up, faults>>

Disturbed == faults > 0 /\ faults' = faults - 1

(* A crash, a stop, or a startup that runs into its timeout.               *)
Crash(s) ==
    /\ Disturbed
    /\ phase[s] # "down"
    /\ GoTo(s, "down")
    /\ UNCHANGED <<live, gone, table, attempt, up>>

Outage(d) ==
    /\ Disturbed
    /\ up' = up \ {d}
    /\ up' # up
    /\ UNCHANGED <<live, gone, phase, table, attempt>>

Repair(d) ==
    /\ d \notin up
    /\ up' = up \cup {d}
    /\ UNCHANGED <<live, gone, phase, table, attempt, faults>>

Next ==
    \/ \E s \in Servers : Boot(s) \/ Crash(s)
    \/ \E t \in Tables, c \in Codes : CreateRow(t, c) \/ RemoveRow(t, c)
    \/ \E d \in Dependencies : Outage(d) \/ Repair(d)

Spec == Init /\ [][Next]_vars

(* main runs on, the restart policy restarts, and outages end.             *)
FairSpec ==
    /\ Spec
    /\ \A s \in Servers : WF_vars(Boot(s))
    /\ \A d \in Dependencies : WF_vars(Repair(d))

-----------------------------------------------------------------------------
Seeded(t) == Seeds \subseteq Indexed(t)

(* Every table holds codes, live or deleted but not both; the bounds hold. *)
TypeOK ==
    /\ live \in [Tables -> SUBSET Codes]
    /\ gone \in [Tables -> SUBSET Codes]
    /\ \A t \in Tables : live[t] \cap gone[t] = {}
    /\ phase \in [Servers -> Phases]
    /\ table \in [Servers -> Tables]
    /\ attempt \in [Servers -> 1 .. MaxAttempts]
    /\ up \subseteq Dependencies
    /\ faults \in 0 .. MaxFaults

(* Wherever earlier starts broke off, and whichever other servers seed at  *)
(* the same time, a server that answers has the accounts and the rows of   *)
(* every table behind it.                                                  *)
ServingIsSeeded ==
    \A s \in Servers : phase[s] = "serving" => \A t \in Tables : Seeded(t)

(* Counting and inserting are two statements, yet seeds appear only all at *)
(* once and only in a table that has never held a row: no start brings a   *)
(* removed record back or adds to a table that is in use.                  *)
SeedsOnlyPristineTables ==
    [][\A t \in Tables :
          Seeds \cap (live'[t] \ live[t]) # {} => Indexed(t) = {} /\ live'[t] = Seeds]_vars

(* Every start is still before table t, and t has only deleted rows.       *)
HeldBack(t) ==
    /\ live[t] = {} /\ gone[t] # {}
    /\ \A s \in Servers :
          /\ phase[s] \notin {"redis", "serving"}
          /\ phase[s] \in {"count", "insert"} => table[s] <= t

(* Once a table's last row is removed and no server is beyond it, it holds *)
(* back every start from then on: neither time nor a restart helps.        *)
HeldBackForGood == [][\A t \in Tables : HeldBack(t) => HeldBack(t)']_vars

(* A table some of whose rows were removed still has a live one.           *)
NoTableEmptied == \A t \in Tables : gone[t] # {} => live[t] # {}

(* Servers that race to seed, crash between two tables or start during an  *)
(* outage get to serve in the end, unless a table is emptied.              *)
Recovers == []NoTableEmptied => \A s \in Servers : []<>(phase[s] = "serving")

(* They get to serve in the end, whatever clients did to the tables.       *)
AlwaysRecovers == \A s \in Servers : []<>(phase[s] = "serving")

=============================================================================
