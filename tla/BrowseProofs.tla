---------------------------- MODULE BrowseProofs ----------------------------
(***************************************************************************)
(* Browse for a table of any size, any number of writers and any page      *)
(* size: no record moves down the list by being changed; an answer's total *)
(* and rows differ by what came and went in between; and a walk through    *)
(* the pages overlooks no more records than leave the list meanwhile.      *)
(***************************************************************************)
EXTENDS Browse, FiniteSetTheorems, FunctionTheorems, TLAPS

-----------------------------------------------------------------------------
(* The inductive invariant: a statement on its way was put together on a   *)
(* version the record has had, and, if the record has it still, no earlier *)
(* than the record was last changed.                                       *)
TimesInOrder ==
    \A w \in Writers :
        stage[w] = "update" =>
            /\ task[w].id \in Ids
            /\ task[w].expected <= rows[task[w].id].version
            /\ Fits(w) => rows[task[w].id].updated_at <= task[w].time

(* A record has a version from its creation on.                            *)
LiveNumbered == \A k \in Ids : rows[k].live => rows[k].version > 0

(* The rows of the list, counted when it was counted, and what has come    *)
(* and gone since.                                                         *)
TotalDue == at = "find" => Cardinality(Listed) = total + drift

BInv == TypeOK /\ TimesInOrder /\ LiveNumbered /\ TotalDue /\ TotalExplained

(* The inductive invariant of a walk through the pages, for numbers that   *)
(* do not wrap: a steady record that the client has passed without seeing  *)
(* it was put there by a departure, each by one of its own; and no page    *)
(* begins beyond the end of the table.                                     *)

(* How many rows the first n pages take.                                   *)
Reached(n) == n * PageSize

(* How far the client has looked.                                          *)
Frontier == IF at \in {"count", "find"} THEN Reached(page - 1) ELSE Reached(page)

(* The steady records that have slipped past the client.                   *)
Overlooked == {k \in steady \ seen : Position(k) < Frontier}

WalkInv ==
    /\ steady \subseteq Listed
    /\ Cardinality(Overlooked) <= departures
    /\ at \in {"count", "find"} \/ Cardinality(shown) >= PageSize => Frontier <= MaxRecords
    /\ at = "end" => Cardinality(shown) < PageSize
    /\ at \in {"answer", "end"} /\ Cardinality(shown) < PageSize =>
          Cardinality(steady \ seen) <= departures

(* The table is finite, and so is every part of it.                        *)
LEMMA IdsFinite ==
    /\ IsFiniteSet(Ids) /\ Cardinality(Ids) = MaxRecords
    /\ \A S \in SUBSET Ids : /\ IsFiniteSet(S) /\ Cardinality(S) \in Nat
                             /\ Cardinality(S) <= MaxRecords
<1>1. IsFiniteSet(Ids) /\ Cardinality(Ids) = MaxRecords
    BY FS_Interval, BrowseAssumption DEF Ids
<1> QED
    BY <1>1, FS_Subset, FS_CardinalityType

LEMMA ListFinite ==
    /\ Listed \subseteq Ids /\ IsFiniteSet(Listed)
    /\ Cardinality(Listed) \in Nat /\ Cardinality(Listed) <= MaxRecords
    /\ \A S \in SUBSET Listed : IsFiniteSet(S) /\ Cardinality(S) \in Nat
<1>1. Listed \subseteq Ids
    BY DEF Listed
<1> QED
    BY <1>1, IdsFinite

LEMMA RowIsTyped ==
    ASSUME NEW live \in BOOLEAN, NEW match \in BOOLEAN, NEW version \in Nat, NEW time \in 0 .. clock
    PROVE  Row(live, match, version, time) \in RowType
BY Zenon DEF Row, RowType

LEMMA TaskIsTyped ==
    ASSUME NEW id \in 0 .. MaxRecords, NEW expected \in Nat, NEW match \in BOOLEAN, clock \in 0 .. clock
    PROVE  Task(id, expected, match) \in TaskType
BY Zenon DEF Task, TaskType

LEMMA BlanksTyped ==
    ASSUME clock \in Nat
    PROVE  Unused \in RowType /\ NoTask \in TaskType
<1>1. 0 \in Nat /\ 0 \in 0 .. MaxRecords /\ 0 \in 0 .. clock
    BY BrowseAssumption
<1>2. FALSE \in BOOLEAN
    BY Zenon
<1>3. Unused \in RowType
    BY <1>1, <1>2, RowIsTyped DEF Unused
<1> QED
    BY <1>1, <1>3, Zenon DEF NoTask, TaskType

LEMMA InitTyped == Init => BInv
<1> SUFFICES ASSUME Init
             PROVE  BInv
    OBVIOUS
<1>1. PICK f \in [Ids -> {Unused} \cup {Row(TRUE, m, 1, 1) : m \in BOOLEAN}] : rows = f
    BY DEF Init
<1>2. clock = 1 /\ 1 \in 0 .. clock /\ 1 \in Nat
    BY DEF Init
<1>3. ASSUME NEW m \in BOOLEAN
      PROVE  Row(TRUE, m, 1, 1) \in RowType
  <2>1. TRUE \in BOOLEAN
    BY Zenon
  <2> QED
    BY <1>2, <2>1, RowIsTyped
<1>4. rows \in [Ids -> RowType]
    BY <1>1, <1>2, <1>3, BlanksTyped
<1>5. task \in [Writers -> TaskType]
    BY <1>2, BlanksTyped DEF Init
<1>6. TypeOK
    BY <1>4, <1>5, BrowseAssumption DEF Init, TypeOK
<1>7. TimesInOrder /\ TotalDue /\ TotalExplained
    BY DEF Init, TimesInOrder, TotalDue, TotalExplained
<1>8. LiveNumbered
    BY <1>1 DEF LiveNumbered, Unused, Row
<1> QED
    BY <1>6, <1>7, <1>8 DEF BInv

LEMMA RecordTyped ==
    ASSUME TypeOK, NEW k, Record(k)
    PROVE  steady' \subseteq Ids /\ departures' \in Nat /\ drift' \in Int
BY DEF TypeOK, Record

(* A writer's last step.                                                   *)
LEMMA DoneTyped ==
    ASSUME TypeOK, NEW w \in Writers, Done(w), UNCHANGED clock
    PROVE  /\ stage' \in [Writers -> {"idle", "insert", "update", "done"}]
           /\ task' \in [Writers -> TaskType] /\ TaskType' = TaskType /\ RowType' = RowType
           /\ stage'[w] = "done"
           /\ \A v \in Writers \ {w} : stage'[v] = stage[v] /\ task'[v] = task[v]
<1>1. clock \in Nat /\ NoTask \in TaskType
  <2>1. clock \in Nat
    BY DEF TypeOK
  <2> QED
    BY <2>1, BlanksTyped
<1> QED
    BY <1>1 DEF TypeOK, Done, TaskType, RowType

(* What a step that changes a row leaves well-formed.                      *)
LEMMA ChangeTyped ==
    ASSUME TypeOK, NEW w \in Writers, Done(w), NEW k \in Ids, NEW new \in RowType,
           rows' = [rows EXCEPT ![k] = new], Record(k), UNCHANGED <<clock, reading>>
    PROVE  TypeOK'
<1>1. rows' \in [Ids -> RowType]
    BY DEF TypeOK
<1>2. UNCHANGED Ids
    BY DEF Ids
<1> QED
    BY <1>1, <1>2, RecordTyped, DoneTyped DEF TypeOK, reading

LEMMA BuildTyped ==
    ASSUME TypeOK, NEW w \in Writers, NEW next \in {"insert", "update"},
           stage' = [stage EXCEPT ![w] = next],
           NEW id \in 0 .. MaxRecords, NEW expected \in Nat, NEW m \in BOOLEAN,
           task' = [task EXCEPT ![w] = Task(id, expected, m)],
           UNCHANGED <<clock, rows, reading, steady, departures, drift>>
    PROVE  TypeOK'
<1>1. clock \in 0 .. clock /\ TaskType' = TaskType /\ RowType' = RowType
    BY DEF TypeOK, TaskType, RowType
<1>2. Task(id, expected, m) \in TaskType
    BY <1>1, TaskIsTyped
<1>3. task' \in [Writers -> TaskType]
    BY <1>2 DEF TypeOK
<1> QED
    BY <1>1, <1>3 DEF TypeOK, reading

(* The fields that a record set's members have.                            *)
LEMMA Fields ==
    ASSUME TypeOK
    PROVE  /\ \A k \in Ids : /\ rows[k].live \in BOOLEAN /\ rows[k].match \in BOOLEAN
                             /\ rows[k].version \in Nat /\ rows[k].updated_at \in 0 .. clock
           /\ \A w \in Writers : /\ task[w].id \in 0 .. MaxRecords /\ task[w].expected \in Nat
                                 /\ task[w].match \in BOOLEAN /\ task[w].time \in 0 .. clock
BY Zenon DEF TypeOK, RowType, TaskType

(* The update that takes effect, as TimesInOrder has it.                   *)
LEMMA Updated ==
    ASSUME TypeOK, TimesInOrder, NEW w \in Writers, Update(w), Fits(w)
    PROVE  \E new \in RowType :
              /\ task[w].id \in Ids
              /\ rows' = [rows EXCEPT ![task[w].id] = new]
              /\ new.version = rows[task[w].id].version + 1
              /\ new.updated_at = task[w].time
              /\ rows[task[w].id].updated_at <= task[w].time
              /\ Done(w) /\ Record(task[w].id) /\ UNCHANGED <<clock, reading>>
<1> DEFINE new == Row(TRUE, task[w].match, task[w].expected + 1, task[w].time)
<1>1. /\ Done(w) /\ Record(task[w].id) /\ UNCHANGED <<clock, reading>> /\ stage[w] = "update"
      /\ rows' = [rows EXCEPT ![task[w].id] = new]
    BY DEF Update
<1>2. /\ task[w].id \in Ids /\ rows[task[w].id].version = task[w].expected
      /\ rows[task[w].id].updated_at <= task[w].time
    BY <1>1 DEF TimesInOrder, Fits
<1>3. new \in RowType
  <2>1. TRUE \in BOOLEAN
    BY Zenon
  <2>2. task[w].expected + 1 \in Nat /\ task[w].match \in BOOLEAN /\ task[w].time \in 0 .. clock
    BY Fields
  <2> QED
    BY <2>1, <2>2, RowIsTyped
<1>4. new.version = rows[task[w].id].version + 1 /\ new.updated_at = task[w].time
    BY <1>2 DEF Row
<1> HIDE DEF new
<1> QED
    BY <1>1, <1>2, <1>3, <1>4

(* A row that changes gets a later version with a time that is no earlier, *)
(* or is deleted as it is.                                                 *)
Successor(k, new) ==
    /\ new.updated_at >= rows[k].updated_at
    /\ new.version >= rows[k].version /\ new.version > 0
    /\ new.version = rows[k].version => rows[k].live /\ new.updated_at = rows[k].updated_at

Changes(w, k, new) ==
    /\ rows' = [rows EXCEPT ![k] = new] /\ Successor(k, new)
    /\ Done(w) /\ Record(k) /\ UNCHANGED <<clock, reading>>

LEMMA EveryChange ==
    ASSUME TypeOK, TimesInOrder, LiveNumbered, NEW w \in Writers,
           Insert(w) \/ (Update(w) /\ Fits(w)) \/ Delete(w)
    PROVE  \E k \in Ids, new \in RowType : Changes(w, k, new)
<1>1. CASE Insert(w)
  <2>1. PICK k \in Ids : /\ rows[k] = Unused
                         /\ rows' = [rows EXCEPT ![k] = Row(TRUE, task[w].match, 1, task[w].time)]
                         /\ Record(k)
    BY <1>1 DEF Insert
  <2> DEFINE new == Row(TRUE, task[w].match, 1, task[w].time)
  <2>2. new \in RowType
    <3>1. TRUE \in BOOLEAN
      BY Zenon
    <3>2. task[w].match \in BOOLEAN /\ task[w].time \in 0 .. clock /\ 1 \in Nat
      BY Fields
    <3> QED
      BY <3>1, <3>2, RowIsTyped
  <2>3. Successor(k, new)
    <3>1. rows[k].version = 0 /\ rows[k].updated_at = 0 /\ new.version = 1 /\ new.updated_at = task[w].time
      BY <2>1 DEF Unused, Row
    <3>2. task[w].time \in 0 .. clock
      BY Fields
    <3> HIDE DEF new
    <3> QED
      BY <3>1, <3>2 DEF Successor
  <2> QED
    BY <1>1, <2>1, <2>2, <2>3 DEF Insert, Changes
<1>2. CASE Update(w) /\ Fits(w)
  <2>1. PICK new \in RowType :
              /\ task[w].id \in Ids
              /\ rows' = [rows EXCEPT ![task[w].id] = new]
              /\ new.version = rows[task[w].id].version + 1
              /\ new.updated_at = task[w].time
              /\ rows[task[w].id].updated_at <= task[w].time
              /\ Done(w) /\ Record(task[w].id) /\ UNCHANGED <<clock, reading>>
    BY <1>2, Updated
  <2>2. Successor(task[w].id, new)
    BY <2>1, Fields DEF Successor
  <2> QED
    BY <2>1, <2>2 DEF Changes
<1>3. CASE Delete(w)
  <2>1. PICK k \in Ids : /\ rows[k].live
                         /\ rows' = [rows EXCEPT ![k].live = FALSE]
                         /\ Record(k)
    BY <1>3 DEF Delete
  <2> DEFINE new == [rows[k] EXCEPT !.live = FALSE]
  <2>2. new \in RowType /\ rows' = [rows EXCEPT ![k] = new]
    BY <2>1, Zenon DEF TypeOK, RowType
  <2>3. new.version = rows[k].version /\ new.updated_at = rows[k].updated_at
    BY DEF TypeOK, RowType
  <2> HIDE DEF new
  <2>4. Successor(k, new)
    BY <2>1, <2>3, Fields DEF Successor, LiveNumbered
  <2> QED
    BY <1>3, <2>1, <2>2, <2>4 DEF Delete, Changes
<1> QED
    BY <1>1, <1>2, <1>3

(* The other steps leave the table alone.                                  *)
LEMMA EveryStep ==
    ASSUME TypeOK, TimesInOrder, LiveNumbered, [Next]_vars
    PROVE  \/ UNCHANGED rows
           \/ \E w \in Writers, k \in Ids, new \in RowType : Changes(w, k, new)
BY EveryChange DEF Next, Tick, Count, Find, TurnPage, BuildCreate, BuildUpdate, Update, vars, writing

LEMMA TypeStep == ASSUME BInv, [Next]_vars PROVE TypeOK'
<1>0. TypeOK /\ TimesInOrder /\ LiveNumbered /\ UNCHANGED Ids
    BY DEF BInv, Ids
<1>1. CASE Tick
  <2>1. 0 .. clock \subseteq 0 .. clock' /\ clock' \in 1 .. LastMoment
    BY <1>0, <1>1, BrowseAssumption DEF Tick, TypeOK
  <2>2. \A x \in RowType : x \in RowType'
    BY <2>1, Zenon DEF RowType
  <2>3. \A x \in TaskType : x \in TaskType'
    BY <2>1, Zenon DEF TaskType
  <2>4. rows' \in [Ids -> RowType'] /\ task' \in [Writers -> TaskType']
    BY <1>0, <1>1, <2>2, <2>3 DEF Tick, TypeOK
  <2> QED
    BY <1>0, <1>1, <2>1, <2>4 DEF Tick, TypeOK, reading
<1>2. CASE Count
    BY <1>0, <1>2, ListFinite DEF Count, TypeOK, writing, RowType, TaskType
<1>3. CASE Find
  <2>1. Listed \subseteq Ids
    BY DEF Listed
  <2>2. shown' \subseteq seen' /\ seen' \subseteq Ids /\ steady' \subseteq Ids /\ departures' \in Nat
    BY <1>0, <1>3, <2>1 DEF Find, TypeOK
  <2> QED
    BY <1>0, <1>3, <2>2 DEF Find, TypeOK, writing, RowType, TaskType
<1>4. CASE TurnPage
  <2>1. page \in Nat \ {0}
    BY <1>0 DEF TypeOK
  <2>2. at' \in {"count", "end"} /\ page' \in Nat \ {0}
    BY <1>4, <2>1 DEF TurnPage
  <2> QED
    BY <1>0, <1>4, <2>2 DEF TurnPage, TypeOK, writing, RowType, TaskType
<1>5. ASSUME NEW w \in Writers, BuildCreate(w)
      PROVE  TypeOK'
  <2>1. 0 \in 0 .. MaxRecords /\ 0 \in Nat
    BY BrowseAssumption
  <2> QED
    BY <1>0, <1>5, <2>1, BuildTyped DEF BuildCreate
<1>6. ASSUME NEW w \in Writers, BuildUpdate(w)
      PROVE  TypeOK'
  <2>1. \A k \in Ids : k \in 0 .. MaxRecords /\ rows[k].version \in Nat
    BY <1>0, Fields, BrowseAssumption DEF Ids
  <2>2. PICK k \in Ids, m \in BOOLEAN : task' = [task EXCEPT ![w] = Task(k, rows[k].version, m)]
    BY <1>6 DEF BuildUpdate
  <2>3. /\ stage' = [stage EXCEPT ![w] = "update"]
        /\ UNCHANGED <<clock, rows, reading, steady, departures, drift>>
    BY <1>6 DEF BuildUpdate
  <2> QED
    BY <1>0, <2>1, <2>2, <2>3, BuildTyped
<1>7. ASSUME NEW w \in Writers, NEW k \in Ids, NEW new \in RowType, Changes(w, k, new)
      PROVE  TypeOK'
    BY <1>0, <1>7, ChangeTyped DEF Changes
<1>8. ASSUME NEW w \in Writers, Update(w), ~ Fits(w)
      PROVE  TypeOK'
    BY <1>0, <1>8, DoneTyped DEF Update, TypeOK, reading
<1>9. CASE UNCHANGED vars
    BY <1>0, <1>9 DEF vars, writing, reading, TypeOK, RowType, TaskType
<1> QED
    BY <1>0, <1>1, <1>2, <1>3, <1>4, <1>5, <1>6, <1>7, <1>8, <1>9, EveryChange DEF Next

LEMMA TimesStep == ASSUME BInv, [Next]_vars PROVE TimesInOrder'
<1>0. TypeOK /\ TimesInOrder /\ LiveNumbered /\ UNCHANGED Ids
    BY DEF BInv, Ids
<1>1. ASSUME UNCHANGED rows, NEW v \in Writers, stage'[v] = stage[v], task'[v] = task[v], stage'[v] = "update"
      PROVE  /\ task'[v].id \in Ids'
             /\ task'[v].expected <= rows'[task'[v].id].version
             /\ Fits(v)' => rows'[task'[v].id].updated_at <= task'[v].time
    BY <1>0, <1>1 DEF TimesInOrder, Fits
<1>2. ASSUME NEW w \in Writers, BuildCreate(w)
      PROVE  TimesInOrder'
    BY <1>0, <1>2 DEF BuildCreate, TimesInOrder, TypeOK, Fits
<1>3. ASSUME NEW w \in Writers, BuildUpdate(w)
      PROVE  TimesInOrder'
  <2>1. PICK k \in Ids, m \in BOOLEAN : task' = [task EXCEPT ![w] = Task(k, rows[k].version, m)]
    BY <1>3 DEF BuildUpdate
  <2>2. /\ UNCHANGED rows
        /\ \A v \in Writers \ {w} : stage'[v] = stage[v] /\ task'[v] = task[v]
        /\ task'[w].id = k /\ task'[w].expected = rows[k].version /\ task'[w].time = clock
    BY <1>0, <1>3, <2>1 DEF BuildUpdate, TypeOK, Task
  <2>3. rows[k].version <= rows[k].version /\ rows[k].updated_at <= clock
    BY <1>0, Fields DEF TypeOK
  <2> QED
    BY <1>0, <1>1, <2>2, <2>3 DEF TimesInOrder
<1>4. ASSUME NEW w \in Writers, NEW k \in Ids, NEW new \in RowType, Changes(w, k, new)
      PROVE  TimesInOrder'
  <2>1. /\ stage'[w] = "done"
        /\ \A v \in Writers \ {w} : stage'[v] = stage[v] /\ task'[v] = task[v]
    BY <1>0, <1>4, DoneTyped DEF Changes
  <2>2. /\ rows'[k] = new /\ \A j \in Ids \ {k} : rows'[j] = rows[j]
        /\ Successor(k, new)
    BY <1>0, <1>4 DEF Changes, TypeOK
  <2>3. new.version \in Nat /\ new.updated_at \in 0 .. clock
    BY Zenon DEF RowType
  <2>4. ASSUME NEW v \in Writers, stage'[v] = "update"
        PROVE  /\ task'[v].id \in Ids'
               /\ task'[v].expected <= rows'[task'[v].id].version
               /\ Fits(v)' => rows'[task'[v].id].updated_at <= task'[v].time
    <3>1. v # w /\ stage[v] = "update" /\ task'[v] = task[v]
      BY <2>1, <2>4
    <3>2. /\ task[v].id \in Ids /\ task[v].expected <= rows[task[v].id].version
          /\ Fits(v) => rows[task[v].id].updated_at <= task[v].time
      BY <1>0, <3>1 DEF TimesInOrder
    <3>3. CASE task[v].id # k
      BY <1>0, <2>2, <3>1, <3>2, <3>3 DEF Fits
    <3>4. CASE task[v].id = k
      <4>1. rows[k].version \in Nat /\ task[v].expected \in Nat
        BY <1>0, Fields
      <4>2. task[v].expected <= new.version
        BY <2>2, <2>3, <3>2, <3>4, <4>1 DEF Successor
      <4>3. Fits(v)' => new.version = rows[k].version /\ Fits(v)
        BY <2>2, <2>3, <3>1, <3>2, <3>4, <4>1 DEF Successor, Fits
      <4> QED
        BY <1>0, <2>2, <3>1, <3>2, <3>4, <4>2, <4>3 DEF Successor
    <3> QED
      BY <3>3, <3>4
  <2> QED
    BY <2>4 DEF TimesInOrder
<1>5. ASSUME NEW w \in Writers, Update(w), ~ Fits(w)
      PROVE  TimesInOrder'
  <2>1. /\ UNCHANGED rows /\ stage'[w] = "done"
        /\ \A v \in Writers \ {w} : stage'[v] = stage[v] /\ task'[v] = task[v]
    BY <1>0, <1>5, DoneTyped DEF Update
  <2> QED
    BY <1>0, <1>1, <2>1 DEF TimesInOrder
<1>6. CASE UNCHANGED <<rows, stage, task>>
    BY <1>1, <1>6 DEF TimesInOrder
<1> QED
    BY <1>0, <1>2, <1>3, <1>4, <1>5, <1>6, EveryChange DEF Next, Tick, Count, Find, TurnPage, vars, writing

LEMMA NumberedStep == ASSUME BInv, [Next]_vars PROVE LiveNumbered'
<1>1. TypeOK /\ TimesInOrder /\ LiveNumbered
    BY DEF BInv
<1>2. UNCHANGED Ids
    BY DEF Ids
<1>3. CASE UNCHANGED rows
    BY <1>1, <1>2, <1>3 DEF LiveNumbered
<1>4. ASSUME NEW w \in Writers, NEW k \in Ids, NEW new \in RowType, Changes(w, k, new)
      PROVE  LiveNumbered'
    BY <1>1, <1>2, <1>4 DEF Changes, Successor, LiveNumbered, TypeOK
<1> QED
    BY <1>1, <1>3, <1>4, EveryStep

-----------------------------------------------------------------------------
(* Positions in the list.                                                  *)
Ahead(k) == {j \in Listed : Precedes(j, k)}

(* The order of the query is total.                                        *)
LEMMA OrderTotal ==
    ASSUME TypeOK
    PROVE  \A i, j, k \in Ids :
              /\ ~ Precedes(j, j)
              /\ j # k => Precedes(j, k) \/ Precedes(k, j)
              /\ Precedes(i, j) /\ Precedes(j, k) => Precedes(i, k)
<1>1. \A k \in Ids : rows[k].updated_at \in Int /\ k \in Int
    BY Fields DEF Ids, TypeOK
<1> QED
    BY <1>1 DEF Precedes

LEMMA AheadProper ==
    ASSUME TypeOK, NEW j \in Listed, NEW k \in Listed, Precedes(j, k)
    PROVE  Position(j) < Position(k)
<1>1. Ahead(j) \subseteq Ahead(k) /\ j \in Ahead(k) /\ j \notin Ahead(j)
    BY OrderTotal, ListFinite DEF Ahead
<1>2. IsFiniteSet(Ahead(k)) /\ Cardinality(Ahead(k)) \in Nat /\ Cardinality(Ahead(j)) \in Nat
    BY ListFinite DEF Ahead
<1>3. Cardinality(Ahead(j)) <= Cardinality(Ahead(k)) /\ Cardinality(Ahead(j)) # Cardinality(Ahead(k))
    BY <1>1, <1>2, FS_Subset
<1> QED
    BY <1>2, <1>3 DEF Position, Ahead

(* The positions are 0, 1, ... up to the length of the list.               *)
LEMMA PositionsAreRanks ==
    ASSUME TypeOK
    PROVE  /\ \A k \in Listed : Position(k) \in 0 .. Cardinality(Listed) - 1
           /\ \A j, k \in Listed : Position(j) = Position(k) => j = k
           /\ \A i \in 0 .. Cardinality(Listed) - 1 : \E k \in Listed : Position(k) = i
<1> DEFINE n == Cardinality(Listed)
           rank == [k \in Listed |-> Position(k)]
<1>1. n \in Nat /\ IsFiniteSet(Listed)
    BY ListFinite
<1>2. \A k \in Listed : Position(k) \in 0 .. n - 1
  <2> SUFFICES ASSUME NEW k \in Listed
               PROVE  Position(k) \in 0 .. n - 1
    OBVIOUS
  <2>1. Ahead(k) \subseteq Listed /\ k \notin Ahead(k)
    BY OrderTotal, ListFinite DEF Ahead
  <2>2. Cardinality(Ahead(k)) <= n /\ Cardinality(Ahead(k)) # n /\ Cardinality(Ahead(k)) \in Nat
    BY <1>1, <2>1, ListFinite, FS_Subset
  <2> QED
    BY <1>1, <2>2 DEF Position, Ahead
<1>3. \A j, k \in Listed : Position(j) = Position(k) => j = k
    BY <1>2, AheadProper, OrderTotal, ListFinite
<1>4. rank \in Injection(Listed, 0 .. n - 1)
  <2>1. rank \in [Listed -> 0 .. n - 1] /\ \A j, k \in Listed : rank[j] = rank[k] => j = k
    BY <1>2, <1>3
  <2> HIDE DEF rank
  <2> QED
    BY <2>1, Fun_IsInj
<1>5. IsFiniteSet(0 .. n - 1) /\ Cardinality(0 .. n - 1) = n
    BY <1>1, FS_Interval
<1>6. rank \in Surjection(Listed, 0 .. n - 1)
    BY <1>4, <1>5, FS_Injection
<1>7. \A i \in 0 .. n - 1 : \E k \in Listed : rank[k] = i
  <2> HIDE DEF rank
  <2> QED
    BY <1>6, Zenon DEF Surjection
<1> QED
    BY <1>2, <1>3, <1>7

AtMost(n, limit) == IF n < 0 THEN 0 ELSE IF n < limit THEN n ELSE limit

(* A page is full unless the list ends before it does.                     *)
LEMMA PageFilled ==
    ASSUME TypeOK, NEW skip \in Nat, NEW limit \in Nat
    PROVE  Cardinality({k \in Listed : skip <= Position(k) /\ Position(k) < skip + limit})
              = AtMost(Cardinality(Listed) - skip, limit)
<1> DEFINE n == Cardinality(Listed)
           last == (IF skip + limit <= n THEN skip + limit ELSE n) - 1
           P == {k \in Listed : skip <= Position(k) /\ Position(k) < skip + limit}
           cut == [k \in P |-> Position(k)]
<1>1. n \in Nat /\ P \subseteq Listed /\ IsFiniteSet(P)
    BY ListFinite
<1>2. /\ \A k \in Listed : Position(k) \in 0 .. n - 1
      /\ \A j, k \in Listed : Position(j) = Position(k) => j = k
      /\ \A i \in 0 .. n - 1 : \E k \in Listed : Position(k) = i
    BY PositionsAreRanks
<1>4. cut \in [P -> skip .. last]
    BY <1>1, <1>2
<1>5. \A j, k \in P : cut[j] = cut[k] => j = k
    BY <1>1, <1>2
<1>6. \A i \in skip .. last : \E k \in P : cut[k] = i
  <2> SUFFICES ASSUME NEW i \in skip .. last
               PROVE  \E k \in P : cut[k] = i
    OBVIOUS
  <2>1. i \in 0 .. n - 1 /\ skip <= i /\ i < skip + limit
    BY <1>1
  <2>2. PICK k \in Listed : Position(k) = i
    BY <1>2, <2>1
  <2> QED
    BY <2>1, <2>2
<1>7. ExistsBijection(P, skip .. last)
  <2> HIDE DEF cut, P, last
  <2>1. cut \in Bijection(P, skip .. last)
    BY <1>4, <1>5, <1>6, Fun_IsBij
  <2> QED
    BY <2>1 DEF ExistsBijection
<1>8. last \in Int
    BY <1>1
<1>9. Cardinality(P) = IF skip > last THEN 0 ELSE last - skip + 1
  <2> HIDE DEF P, last
  <2>1. Cardinality(skip .. last) = Cardinality(P)
    BY <1>1, <1>7, FS_Bijection
  <2>2. Cardinality(skip .. last) = IF skip > last THEN 0 ELSE last - skip + 1
    BY <1>8, FS_Interval
  <2> QED
    BY <2>1, <2>2
<1> HIDE DEF P
<1> QED
    BY <1>1, <1>9 DEF AtMost, P

LEMMA SliceTyped ==
    ASSUME NEW n \in Nat \ {0}
    PROVE  Slice(n).skip \in Nat /\ Slice(n).limit = PageSize /\ PageSize \in Nat \ {0}
<1>1. PageSize \in 1 .. 100
    BY BrowseAssumption DEF MaxPageSize
<1>2. bindPage(n, PageSize) = [page |-> n, pageSize |-> PageSize]
    BY <1>1 DEF bindPage, MaxPageSize
<1>3. normalizePage(n, PageSize) = [page |-> n, pageSize |-> PageSize]
    BY <1>1 DEF normalizePage, MaxPageSize
<1>4. Slice(n) = [skip |-> Skipped(n, PageSize), limit |-> PageSize]
    BY <1>2, <1>3 DEF Slice
<1>5. Skipped(n, PageSize) \in Nat
  <2> DEFINE x == (n - 1) * PageSize
  <2>1. x \in Int
    BY <1>1
  <2> HIDE DEF x
  <2>2. Wrap(x) \in Int
    BY <2>1, MaxIntAssumption DEF Wrap
  <2>3. Offset(n, PageSize) \in Int
    BY <2>2 DEF Offset, x
  <2> QED
    BY <2>3 DEF Skipped
<1> QED
    BY <1>1, <1>4, <1>5

(* What a change of one row does to the list.                              *)
LEMMA ListChanges ==
    ASSUME TypeOK, NEW w \in Writers, NEW k \in Ids, NEW new \in RowType, Changes(w, k, new)
    PROVE  /\ Listed' \subseteq Ids /\ Listed' \ {k} = Listed \ {k}
           /\ UNCHANGED <<at, page, total, shown, seen>>
           /\ steady' = steady \ {k}
           /\ departures' = departures + (IF k \in Listed /\ k \notin Listed' THEN 1 ELSE 0)
           /\ drift' = IF at # "find" THEN drift
                       ELSE IF k \notin Listed /\ k \in Listed' THEN drift + 1
                       ELSE IF k \in Listed /\ k \notin Listed' THEN drift - 1
                       ELSE drift
<1>1. \A j \in Ids \ {k} : rows'[j] = rows[j]
    BY DEF Changes, TypeOK
<1>2. Listed' \subseteq Ids /\ Listed' \ {k} = Listed \ {k}
    BY <1>1 DEF Listed, Ids
<1> QED
    BY <1>2 DEF Changes, Record, reading

LEMMA TotalsStep ==
    ASSUME BInv, [Next]_vars
    PROVE  TotalDue' /\ TotalExplained'
<1> USE DEF BInv
<1>0. page \in Nat \ {0} /\ total \in Nat /\ drift \in Int
    BY DEF TypeOK
<1>1. CASE Count
  <2>1. Listed' = Listed /\ at' = "find" /\ total' = Cardinality(Listed) /\ drift' = 0
    BY <1>1 DEF Count, writing, Listed, Ids
  <2> QED
    BY <2>1, ListFinite DEF TotalDue, TotalExplained
<1>2. CASE Find
  <2> DEFINE w == Slice(page)
  <2>1. /\ at = "find" /\ at' = "answer" /\ UNCHANGED <<page, total, drift>>
        /\ shown' = {k \in Listed : w.skip <= Position(k) /\ Position(k) < w.skip + w.limit}
    BY <1>2 DEF Find
  <2>2. w.skip \in Nat /\ w.limit \in Nat
    BY <1>0, SliceTyped
  <2>3. Cardinality(shown') = AtMost(Cardinality(Listed) - w.skip, w.limit)
    BY <2>1, <2>2, PageFilled
  <2>4. Cardinality(Listed) = total + drift
    BY <2>1 DEF TotalDue
  <2>5. UNCHANGED w
    BY <2>1 DEF Slice
  <2> HIDE DEF w
  <2>6. TotalExplained' <=> Cardinality(shown') = AtMost(total + drift - w.skip, w.limit)
    BY <2>1, <2>5 DEF TotalExplained, AtMost, w
  <2>7. Cardinality(shown') = AtMost(total + drift - w.skip, w.limit)
    BY <1>0, <2>2, <2>3, <2>4 DEF AtMost
  <2>8. TotalDue'
    BY <2>1 DEF TotalDue
  <2> QED
    BY <2>6, <2>7, <2>8, Zenon
<1>3. CASE TurnPage
    BY <1>3 DEF TurnPage, TotalDue, TotalExplained
<1>4. ASSUME NEW w \in Writers, NEW k \in Ids, NEW new \in RowType, Changes(w, k, new)
      PROVE  TotalDue' /\ TotalExplained'
  <2>1. /\ Listed' \subseteq Ids /\ Listed' \ {k} = Listed \ {k}
        /\ UNCHANGED <<at, page, total, shown>>
        /\ drift' = IF at # "find" THEN drift
                    ELSE IF k \notin Listed /\ k \in Listed' THEN drift + 1
                    ELSE IF k \in Listed /\ k \notin Listed' THEN drift - 1
                    ELSE drift
    BY <1>4, ListChanges
  <2>2. TotalExplained'
    BY <2>1 DEF TotalExplained, Slice
  <2>3. ASSUME at = "find"
        PROVE  Cardinality(Listed') = total + drift'
    <3>1. IsFiniteSet(Listed) /\ Cardinality(Listed) \in Nat /\ Cardinality(Listed) = total + drift
      BY <2>3, ListFinite DEF TotalDue
    <3>2. CASE k \in Listed /\ k \in Listed'
      <4>1. Listed' = Listed
        BY <2>1, <3>2
      <4> QED
        BY <2>1, <2>3, <3>1, <3>2, <4>1
    <3>3. CASE k \notin Listed /\ k \in Listed'
      <4>1. Listed' = Listed \cup {k}
        BY <2>1, <3>3
      <4>2. Cardinality(Listed') = Cardinality(Listed) + 1
        BY <3>1, <3>3, <4>1, FS_AddElement
      <4>3. drift' = drift + 1 /\ UNCHANGED total
        BY <2>1, <2>3, <3>3
      <4> QED
        BY <1>0, <3>1, <4>2, <4>3
    <3>4. CASE k \in Listed /\ k \notin Listed'
      <4>1. Listed' = Listed \ {k}
        BY <2>1, <3>4
      <4>2. Cardinality(Listed') = Cardinality(Listed) - 1
        BY <3>1, <3>4, <4>1, FS_RemoveElement
      <4>3. drift' = drift - 1 /\ UNCHANGED total
        BY <2>1, <2>3, <3>4
      <4> QED
        BY <1>0, <3>1, <4>2, <4>3
    <3>5. CASE k \notin Listed /\ k \notin Listed'
      <4>1. Listed' = Listed
        BY <2>1, <3>5
      <4> QED
        BY <2>1, <2>3, <3>1, <3>5, <4>1
    <3> QED
      BY <3>2, <3>3, <3>4, <3>5
  <2> QED
    BY <2>1, <2>2, <2>3 DEF TotalDue
<1>5. CASE UNCHANGED <<rows, at, page, total, shown, drift>>
    BY <1>5 DEF TotalDue, TotalExplained, Listed, Ids, Slice
<1> QED
    BY <1>1, <1>2, <1>3, <1>4, <1>5, EveryChange
    DEF Next, Tick, BuildCreate, BuildUpdate, Update, vars, writing, reading

-----------------------------------------------------------------------------
(* The walk through the pages.                                             *)

LEMMA ReachedNext ==
    ASSUME NEW n \in Nat \ {0}
    PROVE  Reached(n - 1) \in Nat /\ Reached(n) = Reached(n - 1) + PageSize
<1>1. PageSize \in Nat
    BY SliceTyped
<1>2. \A a, b \in Nat : a * b \in Nat /\ (a + 1) * b = a * b + b
    OBVIOUS
<1>3. n - 1 \in Nat /\ (n - 1) + 1 = n
    OBVIOUS
<1>4. Reached((n - 1) + 1) = Reached(n - 1) + PageSize /\ Reached(n - 1) \in Nat
    BY <1>1, <1>2, <1>3 DEF Reached
<1> QED
    BY <1>3, <1>4

(* As long as the numbers do not wrap, a page starts where the last ended. *)
LEMMA SliceStarts ==
    ASSUME NEW n \in Nat \ {0}, Reached(n - 1) <= MaxInt
    PROVE  Slice(n).skip = Reached(n - 1)
<1>1. PageSize \in 1 .. 100
    BY BrowseAssumption DEF MaxPageSize
<1>2. Slice(n).skip = Skipped(n, PageSize)
  <2>1. bindPage(n, PageSize) = [page |-> n, pageSize |-> PageSize]
    BY <1>1 DEF bindPage, MaxPageSize
  <2>2. normalizePage(n, PageSize) = [page |-> n, pageSize |-> PageSize]
    BY <1>1 DEF normalizePage, MaxPageSize
  <2> DEFINE bound == [page |-> n, pageSize |-> PageSize]
  <2>3. bound.page = n /\ bound.pageSize = PageSize
    OBVIOUS
  <2> HIDE DEF bound
  <2>4. bindPage(n, PageSize) = bound /\ normalizePage(bound.page, bound.pageSize) = bound
    BY <2>1, <2>2, <2>3 DEF bound
  <2>5. Slice(n) = [skip |-> Skipped(bound.page, bound.pageSize), limit |-> bound.pageSize]
    BY <2>4 DEF Slice
  <2> QED
    BY <2>3, <2>5
<1>3. Reached(n - 1) \in 0 .. MaxInt
  <2>1. n - 1 \in Nat
    OBVIOUS
  <2>2. Reached(n - 1) \in Nat
    BY <2>1, ReachedNext
  <2> QED
    BY <2>2, MaxIntAssumption
<1>4. Wrap(Reached(n - 1)) = Reached(n - 1)
  <2>1. \A a, b \in Int : b > 0 /\ 0 <= a /\ a < b => a % b = a
    OBVIOUS
  <2>2. (Reached(n - 1) + MaxInt + 1) % (2 * MaxInt + 2) = Reached(n - 1) + MaxInt + 1
    BY <1>3, <2>1, MaxIntAssumption
  <2> QED
    BY <1>3, <2>2, MaxIntAssumption DEF Wrap
<1>5. Offset(n, PageSize) = Reached(n - 1)
    BY <1>4 DEF Offset, Reached
<1> QED
    BY <1>2, <1>3, <1>5 DEF Skipped

(* A change of one row moves no other row up the list, but by one place    *)
(* when the changed row leaves it.                                         *)
LEMMA PositionsShift ==
    ASSUME TypeOK, TypeOK', NEW w \in Writers, NEW k \in Ids, NEW new \in RowType, Changes(w, k, new),
           NEW j \in Listed \ {k}
    PROVE  Position(j)' >= Position(j) - (IF k \in Listed /\ k \notin Listed' THEN 1 ELSE 0)
<1>1. Listed' \ {k} = Listed \ {k} /\ j \in Ids
    BY ListChanges, ListFinite
<1>2. \A i \in Ids \ {k} : rows'[i] = rows[i]
    BY DEF Changes, TypeOK
<1>3. rows'[k].updated_at >= rows[k].updated_at
    BY DEF Changes, Successor, TypeOK
<1>4. /\ rows[k].updated_at \in Int /\ rows'[k].updated_at \in Int
      /\ rows[j].updated_at \in Int /\ k \in Int /\ j \in Int
  <2>1. rows[k].updated_at \in 0 .. clock /\ rows[j].updated_at \in 0 .. clock /\ clock \in Int
    BY <1>1, Fields DEF TypeOK
  <2>2. rows'[k].updated_at \in 0 .. clock
    <3>1. rows'[k] = new
      BY DEF Changes, TypeOK
    <3>2. new.updated_at \in 0 .. clock
      BY Zenon DEF RowType
    <3> QED
      BY <3>1, <3>2
  <2> QED
    BY <1>1, <2>1, <2>2 DEF Ids
<1>5. \A i \in Listed \ {k} : Precedes(i, j) <=> Precedes(i, j)'
    BY <1>1, <1>2, ListFinite DEF Precedes
<1>6. Precedes(k, j) => Precedes(k, j)'
    BY <1>1, <1>2, <1>3, <1>4 DEF Precedes
<1>7. /\ Ahead(j) \subseteq Ahead(j)' \cup {k}
      /\ (k \in Listed => k \in Listed') => Ahead(j) \subseteq Ahead(j)'
    BY <1>1, <1>5, <1>6 DEF Ahead
<1>8. /\ IsFiniteSet(Ahead(j)) /\ Cardinality(Ahead(j)) \in Nat
      /\ IsFiniteSet(Ahead(j)') /\ Cardinality(Ahead(j)') \in Nat
  <2>1. Listed \subseteq Ids /\ Listed' \subseteq Ids
    BY ListChanges, ListFinite
  <2>2. Ahead(j) \subseteq Ids /\ Ahead(j)' \subseteq Ids
    BY <2>1 DEF Ahead
  <2> QED
    BY <2>2, IdsFinite
<1>9. Cardinality(Ahead(j)) <= Cardinality(Ahead(j)') + 1
  <2>1. /\ IsFiniteSet(Ahead(j)' \cup {k})
        /\ Cardinality(Ahead(j)' \cup {k}) = IF k \in Ahead(j)' THEN Cardinality(Ahead(j)')
                                                                ELSE Cardinality(Ahead(j)') + 1
    BY <1>8, FS_AddElement
  <2>2. Cardinality(Ahead(j)) <= Cardinality(Ahead(j)' \cup {k})
    BY <1>7, <2>1, FS_Subset
  <2> QED
    BY <1>8, <2>1, <2>2
<1>10. (k \in Listed => k \in Listed') => Cardinality(Ahead(j)) <= Cardinality(Ahead(j)')
    BY <1>7, <1>8, FS_Subset
<1> HIDE DEF Ahead
<1>11. Position(j) = Cardinality(Ahead(j)) /\ Position(j)' = Cardinality(Ahead(j)')
    BY DEF Position, Ahead
<1> QED
    BY <1>8, <1>9, <1>10, <1>11

LEMMA WalkFinite ==
    ASSUME steady \subseteq Listed
    PROVE  /\ IsFiniteSet(steady \ seen) /\ Cardinality(steady \ seen) \in Nat
           /\ IsFiniteSet(Overlooked) /\ Cardinality(Overlooked) \in Nat
<1>1. steady \ seen \subseteq Listed /\ Overlooked \subseteq Listed
    BY DEF Overlooked
<1> QED
    BY <1>1, ListFinite

LEMMA FrontierTyped ==
    ASSUME TypeOK
    PROVE  Frontier \in Nat
<1>1. page \in Nat \ {0} /\ PageSize \in Nat
    BY SliceTyped DEF TypeOK
<1>2. Reached(page - 1) \in Nat /\ Reached(page) \in Nat
    BY <1>1, ReachedNext
<1> QED
    BY <1>2 DEF Frontier

(* A page shows whatever of its places is steady, so none is overlooked    *)
(* that was not before.                                                    *)
LEMMA FindKeepsWalk ==
    ASSUME MaxRecords <= MaxInt, TypeOK, WalkInv, Find
    PROVE  WalkInv'
<1> DEFINE w == Slice(page)
<1>1. page \in Nat \ {0} /\ at = "find" /\ at' = "answer" /\ UNCHANGED <<page, rows>>
    BY DEF TypeOK, Find, writing
<1>2. Reached(page - 1) \in Nat /\ Reached(page) = Reached(page - 1) + PageSize /\ PageSize \in Nat
    BY <1>1, ReachedNext, SliceTyped
<1>3. w.skip = Reached(page - 1) /\ w.limit = PageSize
  <2>1. Reached(page - 1) <= MaxRecords
    BY <1>1 DEF WalkInv, Frontier
  <2>2. Reached(page - 1) <= MaxInt
    BY <1>2, <2>1, BrowseAssumption, MaxIntAssumption
  <2> QED
    BY <1>1, <2>2, SliceStarts, SliceTyped
<1>4. /\ Frontier = Reached(page - 1) /\ Frontier' = Reached(page)
      /\ Listed' = Listed /\ \A k \in Listed : Position(k)' = Position(k)
    BY <1>1 DEF Frontier, Reached, Listed, Ids, Position, Precedes
<1>5. /\ shown' = {k \in Listed : Reached(page - 1) <= Position(k) /\ Position(k) < Reached(page - 1) + PageSize}
      /\ seen' = seen \cup shown'
      /\ steady' = IF page = 1 THEN Listed ELSE steady
      /\ departures' = IF page = 1 THEN 0 ELSE departures
    BY <1>3 DEF Find
<1>6. steady' \subseteq Listed'
    BY <1>4, <1>5 DEF WalkInv
<1>7. /\ Cardinality(Listed) \in Nat /\ Cardinality(Listed) <= MaxRecords
      /\ \A k \in Listed : Position(k) \in 0 .. Cardinality(Listed) - 1
    BY ListFinite, PositionsAreRanks
<1>8. Cardinality(shown') = AtMost(Cardinality(Listed) - Reached(page - 1), PageSize)
    BY <1>2, <1>5, PageFilled
<1>9. Cardinality(Overlooked') <= departures' /\ departures' \in Nat
  <2>1. departures \in Nat /\ Cardinality(Overlooked) <= departures
    BY DEF TypeOK, WalkInv
  <2>2. CASE page = 1
    <3>1. Reached(page - 1) = 0
      BY <1>2, <2>2, SliceTyped DEF Reached
    <3>2. Overlooked' = {}
      BY <1>2, <1>4, <1>5, <1>6, <1>7, <3>1 DEF Overlooked
    <3> QED
      BY <1>5, <2>2, <3>2, FS_EmptySet
  <2>3. CASE page # 1
    <3>1. Overlooked' \subseteq Overlooked
      BY <1>2, <1>4, <1>5, <1>6, <1>7, <2>3 DEF Overlooked
    <3>2. Cardinality(Overlooked') <= Cardinality(Overlooked) /\ Cardinality(Overlooked') \in Nat
      BY <3>1, WalkFinite, FS_Subset, FS_CardinalityType DEF WalkInv
    <3> QED
      BY <1>5, <2>1, <2>3, <3>2, WalkFinite DEF WalkInv
  <2> QED
    BY <2>2, <2>3
<1>10. Cardinality(shown') >= PageSize => Frontier' <= MaxRecords
    BY <1>2, <1>4, <1>7, <1>8, BrowseAssumption, SliceTyped DEF AtMost
<1>11. ASSUME Cardinality(shown') < PageSize
       PROVE  Cardinality(steady' \ seen') <= departures'
  <2>1. Cardinality(Listed) < Reached(page)
    BY <1>2, <1>7, <1>8, <1>11, SliceTyped DEF AtMost
  <2>2. \A k \in Listed : Position(k) < Reached(page)
    BY <1>2, <1>7, <2>1
  <2>3. Overlooked' = steady' \ seen'
    BY <1>4, <1>6, <2>2 DEF Overlooked
  <2> QED
    BY <1>9, <2>3
<1> QED
    BY <1>1, <1>6, <1>9, <1>10, <1>11 DEF WalkInv

LEMMA TurnKeepsWalk ==
    ASSUME TypeOK, WalkInv, TurnPage
    PROVE  WalkInv'
<1>1. /\ page \in Nat \ {0} /\ at = "answer" /\ UNCHANGED <<rows, shown, seen, steady, departures>>
      /\ \/ Cardinality(shown) < PageSize /\ at' = "end" /\ page' = page
         \/ ~ Cardinality(shown) < PageSize /\ at' = "count" /\ page' = page + 1
    BY DEF TypeOK, TurnPage, writing
<1>2. UNCHANGED Listed /\ \A k \in Listed : Position(k)' = Position(k)
    BY <1>1 DEF Listed, Ids, Position, Precedes
<1>3. Frontier' = Frontier
  <2>1. page' = page + 1 => page' - 1 = page
    BY <1>1
  <2> QED
    BY <1>1, <2>1 DEF Frontier
<1>4. Overlooked' = Overlooked
    BY <1>1, <1>2, <1>3 DEF Overlooked, WalkInv
<1>5. Cardinality(shown) \in Nat /\ PageSize \in Nat
  <2>1. shown \subseteq Ids
    BY DEF TypeOK
  <2> QED
    BY <1>1, <2>1, IdsFinite, SliceTyped
<1> QED
    BY <1>1, <1>2, <1>3, <1>4, <1>5 DEF WalkInv

(* A record that leaves the list lets at most one other slip past.         *)
LEMMA ChangeKeepsWalk ==
    ASSUME TypeOK, TypeOK', WalkInv,
           NEW w \in Writers, NEW k \in Ids, NEW new \in RowType, Changes(w, k, new)
    PROVE  WalkInv'
<1> DEFINE leaves == k \in Listed /\ k \notin Listed'
<1>1. /\ Listed' \subseteq Ids /\ Listed' \ {k} = Listed \ {k}
      /\ UNCHANGED <<at, page, total, shown, seen>>
      /\ steady' = steady \ {k}
      /\ departures' = departures + (IF leaves THEN 1 ELSE 0)
    BY ListChanges
<1>2. /\ steady \subseteq Listed /\ departures \in Nat /\ Frontier \in Nat /\ UNCHANGED Frontier
      /\ Cardinality(Overlooked) <= departures
    BY <1>1, FrontierTyped DEF WalkInv, TypeOK, Frontier
<1>3. steady' \subseteq Listed' /\ steady' \subseteq Listed \ {k}
    BY <1>1, <1>2
<1>4. \A j \in steady' : Position(j)' >= Position(j) - (IF leaves THEN 1 ELSE 0)
    BY <1>3, PositionsShift
<1>5. \A j \in steady' : Position(j) \in Int /\ Position(j)' \in Int
  <2>1. \A j \in Listed : Position(j) \in 0 .. Cardinality(Listed) - 1
    BY PositionsAreRanks
  <2>2. \A j : {i \in Listed : Precedes(i, j)}' \in SUBSET Ids
    BY <1>1
  <2> QED
    BY <1>3, <2>1, <2>2, ListFinite, IdsFinite DEF Position
<1>6. /\ IsFiniteSet(Overlooked) /\ Cardinality(Overlooked) \in Nat
      /\ IsFiniteSet(steady \ seen) /\ Cardinality(steady \ seen) \in Nat
    BY <1>2, WalkFinite
<1>7. Cardinality(Overlooked') <= departures'
  <2>1. CASE ~ leaves
    <3>1. Overlooked' \subseteq Overlooked
      BY <1>1, <1>2, <1>4, <1>5, <2>1 DEF Overlooked
    <3>2. Cardinality(Overlooked') <= Cardinality(Overlooked) /\ Cardinality(Overlooked') \in Nat
      BY <1>6, <3>1, FS_Subset, FS_CardinalityType
    <3> QED
      BY <1>1, <1>2, <1>6, <2>1, <3>2
  <2>2. CASE leaves
    <3> DEFINE next == {j \in Listed : Position(j) = Frontier}
    <3>1. Overlooked' \subseteq Overlooked \cup next
      BY <1>1, <1>2, <1>3, <1>4, <1>5, <2>2 DEF Overlooked
    <3>2. PICK x : next \subseteq {x}
      BY PositionsAreRanks
    <3>3. Overlooked' \subseteq Overlooked \cup {x}
      BY <3>1, <3>2
    <3>4. /\ IsFiniteSet(Overlooked \cup {x})
          /\ Cardinality(Overlooked \cup {x}) = IF x \in Overlooked THEN Cardinality(Overlooked)
                                                                    ELSE Cardinality(Overlooked) + 1
      BY <1>6, FS_AddElement
    <3>5. /\ Cardinality(Overlooked') <= Cardinality(Overlooked \cup {x})
          /\ Cardinality(Overlooked') \in Nat
      BY <3>3, <3>4, FS_Subset, FS_CardinalityType
    <3> QED
      BY <1>1, <1>2, <1>6, <2>2, <3>4, <3>5
  <2> QED
    BY <2>1, <2>2
<1>8. Cardinality(steady' \ seen') <= Cardinality(steady \ seen) /\ Cardinality(steady' \ seen') \in Nat
  <2>1. steady' \ seen' \subseteq steady \ seen
    BY <1>1
  <2> QED
    BY <1>6, <2>1, FS_Subset, FS_CardinalityType
<1>9. departures' >= departures /\ departures' \in Nat
    BY <1>1, <1>2
<1> QED
    BY <1>1, <1>2, <1>3, <1>6, <1>7, <1>8, <1>9 DEF WalkInv
LEMMA WalkStep ==
    ASSUME MaxRecords <= MaxInt, BInv, WalkInv, [Next]_vars
    PROVE  WalkInv'
<1>0. TypeOK /\ TypeOK' /\ TimesInOrder /\ LiveNumbered
    BY TypeStep DEF BInv
<1>1. CASE Count
  <2>1. /\ at = "count" /\ at' = "find"
        /\ UNCHANGED <<rows, page, shown, seen, steady, departures>>
    BY <1>1 DEF Count, writing
  <2> QED
    BY <2>1 DEF WalkInv, Overlooked, Frontier, Reached, Listed, Ids, Position, Precedes
<1>2. CASE UNCHANGED <<rows, at, page, shown, seen, steady, departures>>
    BY <1>2 DEF WalkInv, Overlooked, Frontier, Reached, Listed, Ids, Position, Precedes
<1> QED
    BY <1>0, <1>1, <1>2, FindKeepsWalk, TurnKeepsWalk, ChangeKeepsWalk, EveryChange
    DEF Next, Tick, BuildCreate, BuildUpdate, Update, vars, writing, reading

LEMMA WalkInit == Init => WalkInv
<1> SUFFICES ASSUME Init
             PROVE  WalkInv
    OBVIOUS
<1>1. at = "count" /\ page = 1 /\ steady = {} /\ departures = 0
    BY DEF Init
<1>2. Frontier = 0
    BY <1>1, SliceTyped DEF Frontier, Reached
<1>3. Overlooked = {}
    BY <1>1 DEF Overlooked
<1> QED
    BY <1>1, <1>2, <1>3, FS_EmptySet, BrowseAssumption DEF WalkInv

-----------------------------------------------------------------------------
(* The table's side of it: the times of the statements on their way fit    *)
(* the rows; and the reader's: its figures fit the list.                   *)
THEOREM BrowseInvariant == Spec => []BInv
<1>1. BInv /\ [Next]_vars => BInv'
    BY TypeStep, TimesStep, NumberedStep, TotalsStep DEF BInv
<1> QED
    BY <1>1, InitTyped, PTL DEF Spec

(* No record moves down the list by being changed: its time of change      *)
(* never goes back, although it is taken before the change is made.        *)
THEOREM RecordsNeverMoveDown == Spec => RecordsMoveUp
<1>1. BInv /\ [Next]_vars => [\A k \in Ids : rows'[k].updated_at >= rows[k].updated_at]_vars
  <2> SUFFICES ASSUME BInv, [Next]_vars, NEW j \in Ids
               PROVE  rows'[j].updated_at >= rows[j].updated_at
    OBVIOUS
  <2>0. TypeOK /\ TimesInOrder /\ LiveNumbered /\ rows[j].updated_at \in 0 .. clock /\ clock \in Nat
    BY Fields DEF BInv, TypeOK
  <2>1. CASE UNCHANGED rows
    BY <2>0, <2>1
  <2>2. ASSUME NEW w \in Writers, NEW k \in Ids, NEW new \in RowType, Changes(w, k, new)
        PROVE  rows'[j].updated_at >= rows[j].updated_at
    BY <2>0, <2>2 DEF Changes, Successor, TypeOK
  <2> QED
    BY <2>0, <2>1, <2>2, EveryStep
<1> QED
    BY <1>1, BrowseInvariant, PTL DEF Spec, RecordsMoveUp

(* The total of an answer and its rows, which two statements read at two   *)
(* moments, differ by what came and went in between, and by nothing else:  *)
(* for every page number, also one whose offset wraps.                     *)
THEOREM TotalsExplained == Spec => []TotalExplained
<1>1. BInv => TotalExplained
    BY DEF BInv
<1> QED
    BY <1>1, BrowseInvariant, PTL

(* The walk's invariant, in a table whose ids an int can count.            *)
THEOREM WalkInvariant == ASSUME MaxRecords <= MaxInt PROVE Spec => []WalkInv
<1>1. BInv /\ WalkInv /\ [Next]_vars => WalkInv'
    BY WalkStep
<1> QED
    BY <1>1, WalkInit, BrowseInvariant, PTL DEF Spec

(* A walk through the pages overlooks no more of the records that stayed   *)
(* as they were than left the list meanwhile, however many writers create, *)
(* change and delete records between any two statements of the reader.     *)
THEOREM WalksOverlookOnlyForDepartures ==
    ASSUME MaxRecords <= MaxInt PROVE Spec => []OverlookedOnlyForDepartures
<1>1. WalkInv => OverlookedOnlyForDepartures
    BY DEF WalkInv, OverlookedOnlyForDepartures
<1> QED
    BY <1>1, WalkInvariant, PTL

-----------------------------------------------------------------------------
(* A row as the table's other users see it.                                *)
Entry(row) ==
    [state |-> IF row.live THEN "live" ELSE IF row.version = 0 THEN "absent" ELSE "deleted",
     status |-> "any", version |-> row.version,
     fields |-> IF row.version = 0 THEN "none" ELSE IF row.match THEN "match" ELSE "other"]

EntryType ==
    [state : {"live", "absent", "deleted"}, status : {"any"}, version : Nat, fields : {"none", "match", "other"}]

LEMMA TableTyped ==
    ASSUME rows \in [Ids -> RowType]
    PROVE  Table \in [Ids -> EntryType]
    BY DEF Table, EntryType, RowType

(* What an edit makes of an entry, and of the table.                       *)
LEMMA EditedEntry ==
    ASSUME NEW r \in EntryType, NEW f \in {"match", "other"}, NEW n \in Nat
    PROVE  [r EXCEPT !.fields = f, !.version = n]
           = [state |-> r.state, status |-> r.status, version |-> n, fields |-> f]
<1> DEFINE entry == [state |-> r.state, status |-> r.status, version |-> n, fields |-> f]
           one == [r EXCEPT !.fields = f]
           two == [one EXCEPT !.version = n]
<1>1. one \in EntryType /\ one.state = r.state /\ one.status = r.status /\ one.fields = f
    BY DEF EntryType
<1>2. [r EXCEPT !.fields = f, !.version = n] = two
    OBVIOUS
<1>3. /\ two \in EntryType /\ two.state = one.state /\ two.status = one.status
      /\ two.version = n /\ two.fields = one.fields
  <2> HIDE DEF one
  <2> QED
    BY <1>1 DEF EntryType
<1>4. /\ entry \in EntryType /\ entry.state = r.state /\ entry.status = r.status
      /\ entry.version = n /\ entry.fields = f
    BY DEF EntryType
<1> HIDE DEF entry, one, two
<1>5. two = entry
    BY <1>1, <1>3, <1>4 DEF EntryType
<1> QED
    BY <1>2, <1>5 DEF entry

LEMMA EditedTable ==
    ASSUME NEW D, NEW R, NEW T \in [D -> R], NEW k \in D, NEW f, NEW new,
           new = [T[k] EXCEPT !.fields = f, !.version = @ + 1]
    PROVE  [T EXCEPT ![k].fields = f, ![k].version = @ + 1] = [T EXCEPT ![k] = new]
<1> DEFINE U == [T EXCEPT ![k].fields = f, ![k].version = @ + 1]
           V == [T EXCEPT ![k] = new]
<1>1. U[k] = new
    OBVIOUS
<1>2. \A j \in D : U[j] = V[j]
    BY <1>1
<1>3. U = [j \in D |-> U[j]] /\ V = [j \in D |-> V[j]]
    OBVIOUS
<1> HIDE DEF U, V
<1>4. U = V
    BY <1>2, <1>3
<1> QED
    BY <1>4 DEF U, V

(* What a change of one row is in that table.                              *)
LEMMA TableChanges ==
    ASSUME NEW k \in Ids, NEW R, rows \in [Ids -> R], NEW new, rows' = [rows EXCEPT ![k] = new]
    PROVE  Table' = [Table EXCEPT ![k] = Entry(new)]
<1>1. rows'[k] = new /\ \A j \in Ids \ {k} : rows'[j] = rows[j]
    OBVIOUS
<1>2. Ids' = Ids
    BY DEF Ids
<1>3. \A j \in Ids : Table'[j] = [Table EXCEPT ![k] = Entry(new)][j]
    BY <1>1, <1>2 DEF Table, Entry
<1> QED
    BY <1>2, <1>3 DEF Table

(* Every writer's statement is a step of the store or leaves it alone.     *)
LEMMA BrowseSimulates ==
    ASSUME BInv, [Next]_vars
    PROVE  [Atomic!Next]_Table
<1> USE DEF BInv
<1>0. rows \in [Ids -> RowType]
    BY DEF TypeOK
<1>1. ASSUME NEW w \in Writers, Insert(w)
      PROVE  Atomic!Next
  <2>1. PICK k \in Ids : /\ rows[k] = Unused
                         /\ rows' = [rows EXCEPT ![k] = Row(TRUE, task[w].match, 1, task[w].time)]
    BY <1>1 DEF Insert
  <2> DEFINE f == IF task[w].match THEN "match" ELSE "other"
  <2>2. Table' = [Table EXCEPT ![k] = Atomic!Fresh("any", f)]
    <3> DEFINE new == Row(TRUE, task[w].match, 1, task[w].time)
    <3>1. Entry(new) = Atomic!Fresh("any", f)
      BY DEF Entry, Row, Atomic!Fresh
    <3> HIDE DEF new
    <3>2. Table' = [Table EXCEPT ![k] = Entry(new)]
      BY <1>0, <2>1, TableChanges DEF new
    <3> QED
      BY <3>1, <3>2
  <2>3. Table[k] = Atomic!Absent
    BY <2>1 DEF Table, Unused, Row, Atomic!Absent
  <2>4. f \in {"match", "other"}
    OBVIOUS
  <2> HIDE DEF f
  <2>5. Atomic!Insert(k, f)
    BY <2>2, <2>3 DEF Atomic!Insert
  <2> QED
    BY <2>4, <2>5 DEF Atomic!Next
<1>2. ASSUME NEW w \in Writers, Update(w), Fits(w)
      PROVE  Atomic!Next
  <2> DEFINE k == task[w].id
             f == IF task[w].match THEN "match" ELSE "other"
             v == rows[k].version
  <2>1. /\ k \in Ids /\ rows[k].live /\ v = task[w].expected /\ v \in Nat
        /\ rows' = [rows EXCEPT ![k] = Row(TRUE, task[w].match, v + 1, task[w].time)]
    BY <1>2, Fields DEF Update, Fits, TimesInOrder
  <2>2. Table' = [Table EXCEPT ![k] = [state |-> "live", status |-> "any", version |-> v + 1, fields |-> f]]
    <3> DEFINE new == Row(TRUE, task[w].match, v + 1, task[w].time)
    <3>1. v + 1 # 0
      BY <2>1
    <3>2. Entry(new) = [state |-> "live", status |-> "any", version |-> v + 1, fields |-> f]
      <4> HIDE DEF v
      <4> QED
        BY <3>1 DEF Entry, Row
    <3> HIDE DEF new
    <3>3. Table' = [Table EXCEPT ![k] = Entry(new)]
      BY <1>0, <2>1, TableChanges DEF new
    <3> QED
      BY <3>2, <3>3
  <2>3. Table[k] = [state |-> "live", status |-> "any", version |-> v, fields |-> Table[k].fields]
    BY <2>1 DEF Table
  <2>4. Table' = [Table EXCEPT ![k].fields = f, ![k].version = @ + 1]
    <3> DEFINE entry == [state |-> "live", status |-> "any", version |-> v + 1, fields |-> f]
    <3>1. /\ Table \in [Ids -> EntryType] /\ k \in Ids /\ f \in {"match", "other"} /\ v + 1 \in Nat
          /\ Table[k].state = "live" /\ Table[k].status = "any" /\ Table[k].version = v
      BY <1>0, <2>1, <2>3, TableTyped
    <3> HIDE DEF k, v, f
    <3>2. [Table[k] EXCEPT !.fields = f, !.version = v + 1] = entry
      <4>1. Table[k] \in EntryType
        BY <3>1
      <4>2. [Table[k] EXCEPT !.fields = f, !.version = v + 1]
            = [state |-> Table[k].state, status |-> Table[k].status, version |-> v + 1, fields |-> f]
        BY <3>1, <4>1, EditedEntry
      <4> QED
        BY <3>1, <4>2
    <3> HIDE DEF entry
    <3>3. entry = [Table[k] EXCEPT !.fields = f, !.version = @ + 1]
      BY <3>1, <3>2
    <3>4. [Table EXCEPT ![k].fields = f, ![k].version = @ + 1] = [Table EXCEPT ![k] = entry]
      BY <3>1, <3>3, EditedTable
    <3>5. Table' = [Table EXCEPT ![k] = entry]
      BY <2>2 DEF entry
    <3> QED
      BY <3>4, <3>5
  <2>5. f \in {"match", "other"} /\ Atomic!Live(k)
    BY <2>1, <2>3 DEF Atomic!Live
  <2> HIDE DEF f, k
  <2>6. Atomic!Edit(k, f)
    BY <2>4, <2>5 DEF Atomic!Edit
  <2> QED
    BY <2>1, <2>5, <2>6 DEF Atomic!Next
<1>3. ASSUME NEW w \in Writers, Delete(w)
      PROVE  Atomic!Next
  <2>1. PICK k \in Ids : rows[k].live /\ rows' = [rows EXCEPT ![k].live = FALSE]
    BY <1>3 DEF Delete
  <2> DEFINE new == [rows[k] EXCEPT !.live = FALSE]
  <2>2. /\ rows' = [rows EXCEPT ![k] = new] /\ new.version = rows[k].version /\ new.match = rows[k].match
        /\ new.live = FALSE /\ rows[k].version # 0
    BY <1>0, <2>1, Fields DEF RowType, LiveNumbered
  <2> HIDE DEF new
  <2>3. Table' = [Table EXCEPT ![k] = [state |-> "deleted", status |-> "any", version |-> rows[k].version,
                                       fields |-> Table[k].fields]]
    BY <1>0, <2>2, TableChanges DEF Table, Entry
  <2>4. Table[k] = [state |-> "live", status |-> "any", version |-> rows[k].version, fields |-> Table[k].fields]
    BY <2>1, <2>2 DEF Table
  <2>5. Table' = [Table EXCEPT ![k].state = "deleted"]
    <3> DEFINE entry == [state |-> "deleted", status |-> "any", version |-> rows[k].version,
                         fields |-> Table[k].fields]
    <3>1. Table \in [Ids -> EntryType]
      BY <1>0, TableTyped
    <3>2. [Table[k] EXCEPT !.state = "deleted"] = entry
      BY <2>4
    <3>3. Table' = [Table EXCEPT ![k] = entry]
      BY <2>3
    <3> HIDE DEF entry
    <3> QED
      BY <3>1, <3>2, <3>3
  <2>6. Atomic!Live(k)
    BY <2>4 DEF Atomic!Live
  <2> QED
    BY <2>5, <2>6 DEF Atomic!Next, Atomic!Remove
<1>4. CASE UNCHANGED rows
    BY <1>4 DEF Table, Ids
<1> QED
    BY <1>1, <1>2, <1>3, <1>4
    DEF Next, Tick, Count, Find, TurnPage, BuildCreate, BuildUpdate, Update, vars, writing

(* The table the client leafs through keeps what VersionedRecords promises:*)
(* an update put together on a version that is gone when it arrives does   *)
(* nothing, and every other statement changes the record as it then is.    *)
THEOREM BrowseSharesTheStore == Spec => ImplementsVersionedRecords
<1>1. Init => Atomic!Init
  <2> SUFFICES ASSUME Init
               PROVE  Atomic!Init
    OBVIOUS
  <2>1. PICK f \in [Ids -> {Unused} \cup {Row(TRUE, m, 1, 1) : m \in BOOLEAN}] : rows = f
    BY DEF Init
  <2>2. ASSUME NEW k \in Ids
        PROVE  Table[k] \in {Atomic!Absent} \union {Atomic!Fresh(s, g) : s \in {"any"}, g \in {"match", "other"}}
    <3>1. CASE rows[k] = Unused
      BY <3>1 DEF Table, Unused, Row, Atomic!Absent
    <3>2. CASE rows[k] # Unused
      <4>1. PICK m \in BOOLEAN : rows[k] = Row(TRUE, m, 1, 1)
        BY <2>1, <3>2
      <4>2. Table[k] = Atomic!Fresh("any", IF m THEN "match" ELSE "other")
        BY <4>1 DEF Table, Row, Atomic!Fresh
      <4> QED
        BY <4>2
    <3> QED
      BY <3>1, <3>2
  <2> QED
    BY <2>2 DEF Atomic!Init, Table
<1> QED
    BY <1>1, BrowseSimulates, BrowseInvariant, PTL DEF Spec, ImplementsVersionedRecords, Atomic!Spec

=============================================================================
