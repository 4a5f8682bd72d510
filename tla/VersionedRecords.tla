-------------------------- MODULE VersionedRecords --------------------------
(***************************************************************************)
(* What one table of aggregates promises its callers: every change is one  *)
(* indivisible step that sees the record as it is.  A record is created at *)
(* version 1 in its initial status; an edit replaces the business fields   *)
(* and nothing else; a move follows an edge of the status graph and        *)
(* changes nothing else; both raise the version by one; a removed record   *)
(* is never seen again.  RecordService is shown to implement this module   *)
(* although it reads, checks and writes in separate database statements.   *)
(***************************************************************************)
EXTENDS Naturals

CONSTANTS
    Records,        \* the codes of the table's rows
    Statuses,       \* the statuses of the aggregate
    Graph,          \* [Statuses -> SUBSET Statuses]: the allowed moves
    InitialStatus,  \* the status of a created record
    SeedStatuses,   \* the statuses of the rows present at the start
    Fields,         \* values of the business fields taken together
    Blank           \* fields that the service refuses

VARIABLE table

Absent == [state |-> "absent", status |-> InitialStatus, version |-> 0, fields |-> Blank]

Fresh(status, fields) ==
    [state |-> "live", status |-> status, version |-> 1, fields |-> fields]

Init == table \in [Records -> {Absent} \union
                             {Fresh(s, f) : s \in SeedStatuses, f \in Fields}]

Live(k) == table[k].state = "live"

Insert(k, f) ==
    /\ table[k] = Absent
    /\ table' = [table EXCEPT ![k] = Fresh(InitialStatus, f)]

Edit(k, f) ==
    /\ Live(k)
    /\ table' = [table EXCEPT ![k].fields = f, ![k].version = @ + 1]

Move(k, status) ==
    /\ Live(k)
    /\ status \in Graph[table[k].status]
    /\ table' = [table EXCEPT ![k].status = status, ![k].version = @ + 1]

Remove(k) ==
    /\ Live(k)
    /\ table' = [table EXCEPT ![k].state = "deleted"]

Next ==
    \E k \in Records :
        \/ \E f \in Fields : Insert(k, f) \/ Edit(k, f)
        \/ \E s \in Statuses : Move(k, s)
        \/ Remove(k)

Spec == Init /\ [][Next]_table

=============================================================================
