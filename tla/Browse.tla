------------------------------- MODULE Browse -------------------------------
(***************************************************************************)
(* A client that reads a list page by page while records are created,      *)
(* changed and deleted (Store.List, repository/base.go, under the handlers'*)
(* List).  Each page takes two statements, a count and a find, and each    *)
(* statement sees the table of its own moment.  The list is sorted by a    *)
(* time the server takes while it puts a statement together, and a write   *)
(* takes effect only later: records do not enter the list in the order of  *)
(* their times, and a record that is changed moves.  The client is not     *)
(* part of the repository; it asks for pages until one is not full.        *)
(***************************************************************************)
EXTENDS Paging, FiniteSets

CONSTANTS
    MaxRecords,  \* bound on the ids
    PageSize,    \* what the client asks for
    Writers,     \* each changes one record once
    LastMoment   \* bound on the clock

ASSUME BrowseAssumption ==
    /\ MaxRecords \in Nat /\ LastMoment \in Nat \ {0}
    /\ PageSize \in 1 .. MaxPageSize

VARIABLES
    clock,
    rows,        \* the table; an id is never used again
    stage, task, \* of each writer: its statement on the way
    at, page,    \* where the client is
    total, shown,\* of the page at hand
    seen,        \* all the client has been shown
    steady,      \* history: listed at the first find, unchanged since
    departures,  \* history: records that left the list since
    drift        \* history: growth of the list from the count to the find

writing == <<clock, rows, stage, task>>
reading == <<at, page, total, shown, seen>>
vars == <<writing, reading, steady, departures, drift>>

Ids == 1 .. MaxRecords
Row(live, match, version, time) ==
    [live |-> live, match |-> match, version |-> version, updated_at |-> time]
Unused == Row(FALSE, FALSE, 0, 0)

Task(id, expected, match) ==
    [id |-> id, expected |-> expected, match |-> match, time |-> clock]
NoTask == [id |-> 0, expected |-> 0, match |-> FALSE, time |-> 0]

(* The rows of the query: not deleted, and the search and status match.    *)
Listed == {k \in Ids : rows[k].live /\ rows[k].match}

(* Mutant: the oldest comes first.                                         *)
PrecedesAscending(j, k) ==
    \/ rows[j].updated_at < rows[k].updated_at
    \/ rows[j].updated_at = rows[k].updated_at /\ j < k

(* ORDER BY updated_at DESC, id DESC.                                      *)
Precedes(j, k) ==
    \/ rows[j].updated_at > rows[k].updated_at
    \/ rows[j].updated_at = rows[k].updated_at /\ j > k

Position(k) == Cardinality({j \in Listed : Precedes(j, k)})

(* What List makes of the client's numbers.                                *)
Slice(n) ==
    LET bound == bindPage(n, PageSize)
        query == normalizePage(bound.page, bound.pageSize)
    IN  [skip |-> Skipped(query.page, query.pageSize), limit |-> query.pageSize]

Init ==
    /\ clock = 1
    /\ \E n \in 0 .. MaxRecords :
          rows \in {f \in [Ids -> {Unused} \cup {Row(TRUE, m, 1, 1) : m \in BOOLEAN}] :
                       \A k \in Ids : f[k] # Unused <=> k <= n}
    /\ stage = [w \in Writers |-> "idle"]
    /\ task = [w \in Writers |-> NoTask]
    /\ at = "count" /\ page = 1 /\ total = 0 /\ shown = {} /\ seen = {}
    /\ steady = {} /\ departures = 0 /\ drift = 0

Tick ==
    /\ clock < LastMoment
    /\ clock' = clock + 1
    /\ UNCHANGED <<rows, stage, task, reading, steady, departures, drift>>

-----------------------------------------------------------------------------
(* The history of the list when the given row changes.                     *)
Record(k) ==
    LET arrives == k \notin Listed /\ k \in Listed'
        leaves == k \in Listed /\ k \notin Listed'
    IN  /\ steady' = steady \ {k}
        /\ departures' = departures + (IF leaves THEN 1 ELSE 0)
        /\ drift' = IF at # "find" THEN drift
                    ELSE IF arrives THEN drift + 1
                    ELSE IF leaves THEN drift - 1
                    ELSE drift

(* gorm takes the time and puts the statement together; what the client    *)
(* sent as expectedVersion, it was given before.                           *)
BuildCreate(w) ==
    /\ stage[w] = "idle"
    /\ stage' = [stage EXCEPT ![w] = "insert"]
    /\ \E m \in BOOLEAN : task' = [task EXCEPT ![w] = Task(0, 0, m)]
    /\ UNCHANGED <<clock, rows, reading, steady, departures, drift>>

BuildUpdate(w) ==
    /\ stage[w] = "idle"
    /\ stage' = [stage EXCEPT ![w] = "update"]
    /\ \E k \in Ids, m \in BOOLEAN :
          /\ rows[k].live
          /\ task' = [task EXCEPT ![w] = Task(k, rows[k].version, m)]
    /\ UNCHANGED <<clock, rows, reading, steady, departures, drift>>

Done(w) ==
    /\ stage' = [stage EXCEPT ![w] = "done"]
    /\ task' = [task EXCEPT ![w] = NoTask]

(* The id is drawn when the row is inserted.                               *)
Insert(w) ==
    /\ stage[w] = "insert"
    /\ Done(w)
    /\ \E k \in Ids :
          /\ rows[k] = Unused /\ \A j \in 1 .. k - 1 : rows[j] # Unused
          /\ rows' = [rows EXCEPT ![k] = Row(TRUE, task[w].match, 1, task[w].time)]
          /\ Record(k)
    /\ UNCHANGED <<clock, reading>>

(* Mutant: an update by id alone.                                          *)
FitsAnyVersion(w) == rows[task[w].id].live

(* WHERE id = ? AND version = ?                                            *)
Fits(w) == rows[task[w].id].live /\ rows[task[w].id].version = task[w].expected

Update(w) ==
    /\ stage[w] = "update"
    /\ Done(w)
    /\ \/ /\ Fits(w)
          /\ rows' = [rows EXCEPT ![task[w].id] =
                         Row(TRUE, task[w].match, task[w].expected + 1, task[w].time)]
          /\ Record(task[w].id)
       \/ ~ Fits(w) /\ UNCHANGED <<rows, steady, departures, drift>>
    /\ UNCHANGED <<clock, reading>>

Delete(w) ==
    /\ stage[w] = "idle"
    /\ Done(w)
    /\ \E k \in Ids :
          /\ rows[k].live
          /\ rows' = [rows EXCEPT ![k].live = FALSE]
          /\ Record(k)
    /\ UNCHANGED <<clock, reading>>

-----------------------------------------------------------------------------
(* Mutant: the count is taken of the whole table.                          *)
CountEveryRow ==
    /\ at = "count"
    /\ at' = "find"
    /\ total' = Cardinality({k \in Ids : rows[k].live})
    /\ drift' = 0
    /\ UNCHANGED <<writing, page, shown, seen, steady, departures>>

Count ==
    /\ at = "count"
    /\ at' = "find"
    /\ total' = Cardinality(Listed)
    /\ drift' = 0
    /\ UNCHANGED <<writing, page, shown, seen, steady, departures>>

Find ==
    LET w == Slice(page) IN
    /\ at = "find"
    /\ at' = "answer"
    /\ shown' = {k \in Listed : w.skip <= Position(k) /\ Position(k) < w.skip + w.limit}
    /\ seen' = seen \cup shown'
    /\ steady' = IF page = 1 THEN Listed ELSE steady
    /\ departures' = IF page = 1 THEN 0 ELSE departures
    /\ UNCHANGED <<writing, page, total, drift>>

TurnPage ==
    /\ at = "answer"
    /\ IF Cardinality(shown) < PageSize
       THEN at' = "end" /\ page' = page
       ELSE at' = "count" /\ page' = page + 1
    /\ UNCHANGED <<writing, total, shown, seen, steady, departures, drift>>

Next ==
    \/ Tick \/ Count \/ Find \/ TurnPage
    \/ \E w \in Writers : BuildCreate(w) \/ BuildUpdate(w) \/ Insert(w) \/ Update(w) \/ Delete(w)

Spec == Init /\ [][Next]_vars

-----------------------------------------------------------------------------
RowType == [live : BOOLEAN, match : BOOLEAN, version : Nat, updated_at : 0 .. clock]
TaskType == [id : 0 .. MaxRecords, expected : Nat, match : BOOLEAN, time : 0 .. clock]

TypeOK ==
    /\ clock \in 1 .. LastMoment
    /\ rows \in [Ids -> RowType]
    /\ stage \in [Writers -> {"idle", "insert", "update", "done"}]
    /\ task \in [Writers -> TaskType]
    /\ at \in {"count", "find", "answer", "end"}
    /\ page \in Nat \ {0} /\ total \in Nat
    /\ shown \subseteq seen /\ seen \subseteq Ids /\ steady \subseteq Ids
    /\ departures \in Nat /\ drift \in Int

(* A walk through the pages overlooks no more of the records that stayed   *)
(* as they were than left the list meanwhile: records that arrive in the   *)
(* middle, by a time taken long before, and records that are changed and   *)
(* move, make it show records twice but never hide one.                    *)
OverlookedOnlyForDepartures ==
    at = "end" => Cardinality(steady \ seen) <= departures

(* The total and the rows of an answer belong to two moments; they differ  *)
(* by the records that came and went between the two, and by nothing else. *)
TotalExplained ==
    at = "answer" =>
        LET w == Slice(page)
            rest == total + drift - w.skip
        IN  Cardinality(shown) = IF rest < 0 THEN 0 ELSE IF rest < w.limit THEN rest ELSE w.limit

(* A record moves up the list and never down by being changed: of two      *)
(* changes that are both made, the later took its time later.              *)
RecordsMoveUp ==
    [][\A k \in Ids : rows'[k].updated_at >= rows[k].updated_at]_vars

(* The table as its other users see it: of a record's fields only what the *)
(* query asks for.                                                         *)
Table ==
    [k \in Ids |->
        [state |-> IF rows[k].live THEN "live" ELSE IF rows[k].version = 0 THEN "absent" ELSE "deleted",
         status |-> "any",
         version |-> rows[k].version,
         fields |-> IF rows[k].version = 0 THEN "none" ELSE IF rows[k].match THEN "match" ELSE "other"]]

Atomic == INSTANCE VersionedRecords WITH
    table <- Table, Records <- Ids, Statuses <- {"any"}, Graph <- [s \in {"any"} |-> {}],
    InitialStatus <- "any", SeedStatuses <- {"any"}, Fields <- {"match", "other"}, Blank <- "none"

(* The list is read from a table like the one that RecordService keeps:    *)
(* statements that were put together on versions that are gone by the time *)
(* they arrive do nothing, and the others each edit the record as it is.   *)
ImplementsVersionedRecords == Atomic!Spec

=============================================================================
