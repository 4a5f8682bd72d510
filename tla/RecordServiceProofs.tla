------------------------- MODULE RecordServiceProofs -------------------------
(***************************************************************************)
(* The invariants of RecordService for any number of records and requests, *)
(* and its refinement of VersionedRecords, for clients that send back      *)
(* versions they were given (Lookahead = 0).                               *)
(***************************************************************************)
EXTENDS RecordService, TLAPS

-----------------------------------------------------------------------------
(* The inductive invariant: its parts, then their conjunction.             *)

(* A request that went past its validation carries valid fields.           *)
InputOK ==
    \A r \in Requests :
        /\ pc[r] \notin {"idle", "done"} => call[r].op # "none"
        /\ pc[r] \in {"write", "audit", "reread"} => ~ (Refused(r) /\ call[r].op = "update")

(* What a request read and has not yet written back is a valid row.        *)
SnapOK ==
    \A r \in Requests :
        pc[r] = "write" =>
            /\ call[r].op # "create"
            /\ snap[r].state = "live"
            /\ snap[r].fields \in Fields
            /\ call[r].op = "transition" => EdgeAllowed(snap[r].status, call[r].target)

Versioned(r) == call[r].op \in {"update", "transition"}

(* Versions only grow: what a client, and then the service, has seen of a  *)
(* record is no newer than the record, and as long as the version is the   *)
(* same so are its status and fields.                                      *)
VersionOrder ==
    \A r \in Requests :
        /\ pc[r] # "idle" /\ Versioned(r) => call[r].expected \in 1 .. Newest(call[r].key)
        /\ pc[r] = "write" =>
              /\ Versioned(r) => call[r].expected <= snap[r].version
              /\ snap[r].version <= Row(r).version
              /\ snap[r].version = Row(r).version =>
                    /\ snap[r].status = Row(r).status
                    /\ snap[r].fields = Row(r).fields
        /\ pc[r] \in {"audit", "reread"} /\ Versioned(r) => Row(r).version > call[r].expected

(* The history names every version a record has had.                       *)
HistoryOK ==
    /\ \A c \in commits : c.version <= rows[c.key].version
    /\ \A k \in Records :
          /\ \A v \in 2 .. rows[k].version :
                \E c \in commits : c.key = k /\ c.version = v
          /\ rows[k].state = "deleted" => \E c \in commits : c.key = k /\ c.op = "delete"

(* What the audit entry of a request will say is what it did.              *)
EntryDue(r, c) ==
    /\ c.req = r /\ c.key = call[r].key /\ c.op = call[r].op
    /\ c.op = "create" => c.from = NoStatus /\ c.to = InitialStatus
    /\ c.op = "update" => c.from = snap[r].status /\ c.to = snap[r].status
    /\ c.op = "transition" => c.from = snap[r].status /\ c.to = call[r].target

Progress ==
    /\ \A c \in commits : pc[c.req] \notin {"idle", "start", "write"}
    /\ \A r \in Requests :
          /\ pc[r] # "done" => resp[r] = "none"
          /\ pc[r] = "audit" => \E c \in commits : EntryDue(r, c)
          /\ pc[r] = "reread" => /\ Versioned(r) /\ Wrote(r)
                                 /\ call[r].op = "transition" => Audited(r)

TypeInv == TypeOK /\ InputOK /\ SnapOK

IInv == /\ TypeInv /\ VersionOrder /\ HistoryOK /\ Progress
        /\ OneWinner /\ AuditFaithful /\ ReplyTellsTruth /\ ConflictHasWinner /\ ReadYourWrites

-----------------------------------------------------------------------------
LEMMA InputTyped ==
    ASSUME NEW c \in Input
    PROVE  /\ c \in CallType
           /\ c.op # "none"
           /\ c.op \in {"update", "transition"} => c.expected \in ExpectedVersions(c.key)
<1>1. CASE c \in CreateInput \cup DeleteInput
  <2>1. c.op \in {"create", "delete"}
    BY <1>1 DEF CreateInput, DeleteInput
  <2>2. {FALSE} \subseteq BOOLEAN
    BY Zenon
  <2>3. c.confirmed \in BOOLEAN
    BY <1>1, <2>2 DEF CreateInput, DeleteInput
  <2>4. /\ c.key \in Records /\ c.expected = 0 /\ c.target \in Statuses /\ c.fields \in Fields \cup {Blank}
        /\ c = [op |-> c.op, key |-> c.key, expected |-> c.expected, target |-> c.target,
                fields |-> c.fields, confirmed |-> c.confirmed]
    BY <1>1, GraphAssumption DEF CreateInput, DeleteInput
  <2>5. c \in CallType
    BY <2>1, <2>3, <2>4 DEF CallType, Ops
  <2> QED
    BY <2>1, <2>5
<1>2. ASSUME NEW k \in Records, c \in UpdateInput(k) \cup TransitionInput(k)
      PROVE  /\ c \in CallType /\ c.op # "none"
             /\ c.expected \in ExpectedVersions(c.key)
  <2>1. ExpectedVersions(k) \subseteq Nat
    BY DEF ExpectedVersions
  <2>2. {FALSE} \subseteq BOOLEAN /\ Confirmations \subseteq BOOLEAN
    BY Zenon DEF Confirmations
  <2>3. c.confirmed \in BOOLEAN
    BY <1>2, <2>2 DEF UpdateInput, TransitionInput
  <2>4. /\ c.op \in {"update", "transition"} /\ c.key = k /\ c.expected \in ExpectedVersions(k)
        /\ c.target \in Statuses /\ c.fields \in Fields \cup {Blank}
        /\ c = [op |-> c.op, key |-> c.key, expected |-> c.expected, target |-> c.target,
                fields |-> c.fields, confirmed |-> c.confirmed]
    BY <1>2, GraphAssumption DEF UpdateInput, TransitionInput
  <2>5. c \in CallType
    BY <2>1, <2>3, <2>4 DEF CallType, Ops
  <2> QED
    BY <2>4, <2>5
<1> QED
    BY <1>1, <1>2 DEF Input

LEMMA TypeInit == Init => TypeInv
BY RecordsAssumption, GraphAssumption, FieldsAssumption
DEF Init, TypeInv, TypeOK, TableTyped, LogTyped, RequestsTyped, InputOK, SnapOK, Absent, Fresh, NoCall,
    RowType, CallType, PcType, Codes, Ops

LocalInv == RequestsTyped /\ InputOK /\ SnapOK

(* The two ways a handler's step ends leave the requests well-formed.      *)
LEMMA ReplyTyped ==
    ASSUME NEW r \in Requests, NEW code \in Codes, NEW version \in Nat,
           LocalInv, Reply(r, code, version), UNCHANGED call
    PROVE  LocalInv'
<1>1. Absent \in RowType
    BY GraphAssumption DEF Absent, RowType
<1>2. RequestsTyped'
    BY <1>1 DEF LocalInv, RequestsTyped, Reply, PcType
<1>3. InputOK' /\ SnapOK'
    BY DEF LocalInv, RequestsTyped, Reply, InputOK, SnapOK, Refused
<1> QED
    BY <1>2, <1>3 DEF LocalInv

LEMMA AdvanceTyped ==
    ASSUME NEW r \in Requests, NEW next \in {"write", "audit", "reread"}, NEW item \in RowType,
           LocalInv, Advance(r, next, item), UNCHANGED call,
           call[r].op # "none",
           ~ (Refused(r) /\ call[r].op = "update"),
           next = "write" =>
              /\ call[r].op # "create"
              /\ item.state = "live"
              /\ item.fields \in Fields
              /\ call[r].op = "transition" => EdgeAllowed(item.status, call[r].target)
    PROVE  LocalInv'
<1>1. RequestsTyped'
    BY DEF LocalInv, RequestsTyped, Advance, PcType
<1>2. InputOK' /\ SnapOK'
    BY DEF LocalInv, RequestsTyped, Advance, InputOK, SnapOK, Refused
<1> QED
    BY <1>1, <1>2 DEF LocalInv

LEMMA ProceedTyped ==
    ASSUME NEW r \in Requests, NEW next \in {"audit", "reread"},
           LocalInv, Proceed(r, next), UNCHANGED call,
           pc[r] \in {"write", "audit"} \/ call[r].op = "create"
    PROVE  LocalInv'
<1>1. snap[r] \in RowType /\ call[r].op # "none" /\ ~ (Refused(r) /\ call[r].op = "update")
    BY DEF LocalInv, RequestsTyped, InputOK
<1> QED
    BY <1>1, AdvanceTyped, ReplyTyped DEF Proceed, Codes

LEMMA CommitTyped ==
    ASSUME NEW r \in Requests, LogTyped, RequestsTyped, UNCHANGED audit, call[r].op # "none",
           NEW from \in Statuses \cup {NoStatus}, NEW to \in Statuses \cup {DeletedMark},
           NEW version \in Nat \ {0}, Commit(r, from, to, version)
    PROVE  LogTyped'
BY DEF LogTyped, RequestsTyped, Commit, CommitType, CallType

LEMMA AuditTyped ==
    ASSUME NEW r \in Requests, LogTyped, RequestsTyped, UNCHANGED commits, call[r].op # "none",
           NEW before \in Statuses \cup {NoStatus}, NEW after \in Statuses \cup {DeletedMark},
           AppendAudit(r, before, after)
    PROVE  LogTyped'
BY DEF LogTyped, RequestsTyped, AppendAudit, Entry, AuditType, CallType

LEMMA StoreTyped ==
    ASSUME NEW r \in Requests, TableTyped, RequestsTyped, Matches(r),
           NEW status \in Statuses, NEW fields \in Fields, StoreUpdate(r, status, fields)
    PROVE  TableTyped'
BY DEF TableTyped, RequestsTyped, StoreUpdate, Matches, Live, Row, RowType, CallType

LEMMA QuietReply ==
    ASSUME NEW r \in Requests, NEW code \in Codes, NEW version \in Nat,
           TypeInv, Reply(r, code, version), UNCHANGED <<rows, audit, call, commits>>
    PROVE  TypeInv'
<1>1. LocalInv'
    BY ReplyTyped DEF TypeInv, TypeOK, LocalInv
<1>2. TableTyped' /\ LogTyped'
    BY DEF TypeInv, TypeOK, TableTyped, LogTyped
<1> QED
    BY <1>1, <1>2 DEF TypeInv, TypeOK, LocalInv

LEMMA TypeStep == TypeInv /\ [Next]_vars => TypeInv'
<1> SUFFICES ASSUME TypeInv, [Next]_vars
             PROVE  TypeInv'
    OBVIOUS
<1>0. /\ TableTyped /\ LogTyped /\ RequestsTyped /\ InputOK /\ SnapOK /\ LocalInv
      /\ \A r \in Requests : call[r].key \in Records /\ Row(r) \in RowType
    BY DEF TypeInv, TypeOK, LocalInv, TableTyped, RequestsTyped, CallType, Row
<1> DEFINE Kept == UNCHANGED <<rows, audit, call, commits>>
<1>1. CASE UNCHANGED vars
    BY <1>0, <1>1 DEF vars, TypeInv, TypeOK, TableTyped, LogTyped, RequestsTyped, InputOK, SnapOK, Refused
<1>2. ASSUME NEW r \in Requests, Submit(r)
      PROVE  TypeInv'
  <2>1. RequestsTyped' /\ InputOK' /\ SnapOK'
    BY <1>0, <1>2, InputTyped DEF Submit, RequestsTyped, PcType, InputOK, SnapOK, Refused
  <2>2. TableTyped' /\ LogTyped'
    BY <1>0, <1>2 DEF Submit, TableTyped, LogTyped
  <2> QED
    BY <2>1, <2>2 DEF TypeInv, TypeOK
<1>3. ASSUME NEW r \in Requests, InsertRecord(r)
      PROVE  TypeInv'
  <2>1. CASE Kept /\ (Reply(r, "business_rule", 0) \/ Reply(r, "internal_error", 0))
    BY <2>1, QuietReply DEF Codes
  <2>2. CASE /\ ~ Refused(r) /\ Row(r) = Absent
             /\ rows' = [rows EXCEPT ![call[r].key] = Fresh(InitialStatus, call[r].fields)]
             /\ Commit(r, NoStatus, InitialStatus, 1)
             /\ Proceed(r, "audit")
    <3>1. call[r].op = "create" /\ UNCHANGED <<audit, call>>
      BY <1>3 DEF InsertRecord
    <3>2. TableTyped'
      BY <1>0, <2>2, GraphAssumption DEF TableTyped, RequestsTyped, CallType, RowType, Fresh, Refused
    <3>3. LogTyped'
      <4>1. NoStatus \in Statuses \cup {NoStatus} /\ InitialStatus \in Statuses \cup {DeletedMark}
        BY GraphAssumption
      <4>2. LogTyped /\ RequestsTyped /\ Commit(r, NoStatus, InitialStatus, 1)
        BY <1>0, <2>2 DEF TypeInv, TypeOK
      <4> QED
        BY <3>1, <4>1, <4>2, CommitTyped
    <3>4. LocalInv'
      BY <1>0, <2>2, <3>1, ProceedTyped
    <3> QED
      BY <3>2, <3>3, <3>4 DEF TypeInv, TypeOK, LocalInv
  <2> QED
    BY <1>3, <2>1, <2>2 DEF InsertRecord
<1>4. ASSUME NEW r \in Requests, LoadForUpdate(r) \/ LoadForTransition(r) \/ LoadForDelete(r)
      PROVE  TypeInv'
  <2>1. Kept
    BY <1>4 DEF LoadForUpdate, LoadForTransition, LoadForDelete
  <2>2. CASE Reply(r, "not_found", 0) \/ Reply(r, "business_rule", 0)
    BY <2>1, <2>2, QuietReply DEF Codes
  <2>3. CASE Advance(r, "write", Row(r))
    <3>1. /\ Row(r).state = "live" /\ Row(r).fields \in Fields
          /\ call[r].op \in {"update", "transition", "delete"}
          /\ ~ (Refused(r) /\ call[r].op = "update")
          /\ call[r].op = "transition" => EdgeAllowed(Row(r).status, call[r].target)
      BY <1>0, <1>4, <2>3 DEF LoadForUpdate, LoadForTransition, LoadForDelete, Live, Row, TableTyped,
                              Reply, Advance, RequestsTyped
    <3>2. LocalInv'
      BY <1>0, <2>1, <2>3, <3>1, AdvanceTyped
    <3> QED
      BY <1>0, <2>1, <3>2 DEF TypeInv, TypeOK, TableTyped, LogTyped, LocalInv
  <2> QED
    BY <1>4, <2>2, <2>3 DEF LoadForUpdate, LoadForTransition, LoadForDelete
<1>5. ASSUME NEW r \in Requests, WriteUpdate(r) \/ WriteTransition(r)
      PROVE  TypeInv'
  <2>1. UNCHANGED <<audit, call>> /\ pc[r] = "write" /\ call[r].op # "none"
    BY <1>5 DEF WriteUpdate, WriteTransition
  <2>2. CASE ~ Matches(r)
    BY <1>5, <2>2, QuietReply DEF WriteUpdate, WriteTransition, Codes
  <2>3. CASE Matches(r)
    <3>1. PICK status \in Statuses, fields \in Fields, to \in Statuses :
            /\ StoreUpdate(r, status, fields)
            /\ Commit(r, Row(r).status, to, call[r].expected + 1)
            /\ Proceed(r, "audit")
      BY <1>0, <1>5, <2>3 DEF WriteUpdate, WriteTransition, SnapOK, InputOK, Refused, RequestsTyped, RowType, CallType
    <3>2. TableTyped'
      BY <1>0, <2>3, <3>1, StoreTyped
    <3>3. call[r].expected + 1 \in Nat \ {0} /\ Row(r).status \in Statuses
      BY <1>0 DEF RequestsTyped, CallType, RowType
    <3>4. LogTyped'
      BY <1>0, <2>1, <3>1, <3>3, CommitTyped
    <3>5. LocalInv'
      BY <1>0, <2>1, <3>1, ProceedTyped
    <3> QED
      BY <3>2, <3>4, <3>5 DEF TypeInv, TypeOK, LocalInv
  <2> QED
    BY <2>2, <2>3
<1>6. ASSUME NEW r \in Requests, SoftDelete(r)
      PROVE  TypeInv'
  <2>1. CASE ~ Live(call[r].key)
    BY <1>6, <2>1, QuietReply DEF SoftDelete, Codes
  <2>2. CASE Live(call[r].key)
    <3>1. Row(r).version \in Nat \ {0} /\ Row(r).status \in Statuses
      BY <1>0, <2>2 DEF TableTyped, RowType, Row, Live
    <3>2. TableTyped'
      BY <1>0, <1>6, <2>2 DEF SoftDelete, TableTyped, RowType, Live
    <3>3. LogTyped'
      BY <1>0, <1>6, <2>2, <3>1, CommitTyped DEF SoftDelete
    <3>4. LocalInv'
      BY <1>0, <1>6, <2>2, ProceedTyped DEF SoftDelete
    <3> QED
      BY <3>2, <3>3, <3>4 DEF TypeInv, TypeOK, LocalInv
  <2> QED
    BY <2>1, <2>2
<1>7. ASSUME NEW r \in Requests,
             AuditCreate(r) \/ AuditUpdate(r) \/ AuditTransition(r) \/ AuditDelete(r)
      PROVE  TypeInv'
  <2>1. /\ UNCHANGED <<rows, call, commits>> /\ pc[r] = "audit"
        /\ snap[r] \in RowType /\ snap[r].status \in Statuses /\ call[r].target \in Statuses
        /\ call[r].op # "none" /\ ~ (Refused(r) /\ call[r].op = "update")
    BY <1>0, <1>7 DEF AuditCreate, AuditUpdate, AuditTransition, AuditDelete, RequestsTyped, RowType, CallType, InputOK
  <2>2. LogTyped'
    <3>1. CASE UNCHANGED audit
      BY <1>0, <2>1, <3>1 DEF LogTyped
    <3>2. CASE \E before \in Statuses \cup {NoStatus}, after \in Statuses \cup {DeletedMark} :
                    AppendAudit(r, before, after)
      BY <1>0, <2>1, <3>2, AuditTyped
    <3> QED
      BY <1>7, <2>1, <3>1, <3>2, GraphAssumption DEF AuditCreate, AuditUpdate, AuditTransition, AuditDelete
  <2>3. CASE Reply(r, "ok", 1) \/ Reply(r, "ok", 0) \/ Reply(r, "internal_error", 0)
    <3>1. LocalInv'
      BY <1>0, <2>1, <2>3, ReplyTyped DEF Codes
    <3> QED
      BY <1>0, <2>1, <2>2, <3>1 DEF TypeInv, TypeOK, TableTyped, LocalInv
  <2>4. CASE Advance(r, "reread", snap[r])
    <3>1. LocalInv'
      BY <1>0, <2>1, <2>4, AdvanceTyped
    <3> QED
      BY <1>0, <2>1, <2>2, <3>1 DEF TypeInv, TypeOK, TableTyped, LocalInv
  <2> QED
    BY <1>7, <2>3, <2>4 DEF AuditCreate, AuditUpdate, AuditTransition, AuditDelete, Proceed
<1>8. ASSUME NEW r \in Requests, Reread(r) \/ StatementFails(r)
      PROVE  TypeInv'
  <2>1. Row(r).version \in Nat
    BY <1>0 DEF RowType
  <2> QED
    BY <1>8, <2>1, QuietReply DEF Reread, StatementFails, Codes
<1>9. ASSUME Crash
      PROVE  TypeInv'
  <2>1. Absent \in RowType
    BY GraphAssumption DEF Absent, RowType
  <2>2. RequestsTyped'
    BY <1>0, <1>9, <2>1 DEF Crash, RequestsTyped, PcType, Codes
  <2>3. InputOK' /\ SnapOK'
    BY <1>0, <1>9 DEF Crash, InFlight, InputOK, SnapOK, Refused, RequestsTyped, PcType
  <2> QED
    BY <1>0, <1>9, <2>2, <2>3 DEF Crash, TypeInv, TypeOK, TableTyped, LogTyped
<1> QED
    BY <1>1, <1>2, <1>3, <1>4, <1>5, <1>6, <1>7, <1>8, <1>9 DEF Next, Serve

(* Rows, audit entries, answers and program counters always have the types *)
(* of the program's data, and no row holds fields that the services'       *)
(* validation refuses.                                                     *)
THEOREM TypeCorrect == Spec => []TypeOK
<1>1. TypeInv => TypeOK
    BY DEF TypeInv
<1> QED
    BY <1>1, TypeInit, TypeStep, PTL DEF Spec

-----------------------------------------------------------------------------
(* What a step does to the requests, and to the table and its history.     *)

Others(r) ==
    \A q \in Requests \ {r} :
        /\ pc'[q] = pc[q] /\ call'[q] = call[q] /\ snap'[q] = snap[q]
        /\ resp'[q] = resp[q] /\ seen'[q] = seen[q]

LEMMA OthersUntouched ==
    ASSUME NEW r \in Requests, TypeInv, Submit(r) \/ Serve(r)
    PROVE  Others(r)
<1> USE DEF TypeInv, TypeOK, RequestsTyped, Others
<1>1. CASE Submit(r)
    BY <1>1 DEF Submit
<1>2. ASSUME NEW code, NEW version, Reply(r, code, version), UNCHANGED call
      PROVE  Others(r)
    BY <1>2 DEF Reply
<1>3. ASSUME NEW next, NEW item, Advance(r, next, item), UNCHANGED call
      PROVE  Others(r)
    BY <1>3 DEF Advance
<1>4. ASSUME NEW next, Proceed(r, next), UNCHANGED call
      PROVE  Others(r)
    BY <1>2, <1>3, <1>4 DEF Proceed
<1>5. CASE InsertRecord(r) \/ AuditCreate(r) \/ LoadForUpdate(r) \/ WriteUpdate(r) \/ AuditUpdate(r)
    BY <1>2, <1>3, <1>4, <1>5 DEF InsertRecord, AuditCreate, LoadForUpdate, WriteUpdate, AuditUpdate
<1>6. CASE LoadForTransition(r) \/ WriteTransition(r) \/ AuditTransition(r)
    BY <1>2, <1>3, <1>4, <1>6 DEF LoadForTransition, WriteTransition, AuditTransition
<1>7. CASE \/ LoadForDelete(r) \/ SoftDelete(r) \/ AuditDelete(r) \/ Reread(r) \/ StatementFails(r)
    BY <1>2, <1>3, <1>4, <1>7 DEF LoadForDelete, SoftDelete, AuditDelete, Reread, StatementFails
<1> QED
    BY <1>1, <1>5, <1>6, <1>7 DEF Serve

(* A request writes a new version of its record, or deletes it.            *)
Writes(r) ==
    /\ pc[r] \in {"start", "write"} /\ pc'[r] \in {"audit", "done"}
    /\ call[r].op \in Ops
    /\ UNCHANGED <<audit, call>>
    /\ \E new \in RowType :
          /\ rows' = [rows EXCEPT ![call[r].key] = new]
          /\ \E from, to : Commit(r, from, to, new.version)
          /\ \/ /\ call[r].op # "delete"
                /\ new.version = Row(r).version + 1
                /\ new.state = "live"
             \/ /\ call[r].op = "delete"
                /\ new.version = Row(r).version
                /\ new.state = "deleted"
                /\ new.status = Row(r).status /\ new.fields = Row(r).fields

LEMMA ProceedLeaves ==
    ASSUME NEW r \in Requests, TypeInv, NEW next \in {"audit", "reread"}, Proceed(r, next)
    PROVE  pc'[r] \in {next, "done"}
BY DEF TypeInv, TypeOK, RequestsTyped, Proceed, Advance, Reply

LEMMA TableStep ==
    ASSUME NEW r \in Requests, TypeInv, Serve(r)
    PROVE  UNCHANGED <<rows, commits>> \/ Writes(r)
<1>0. /\ TableTyped /\ RequestsTyped /\ InputOK /\ SnapOK
      /\ call[r] \in CallType /\ call[r].key \in Records /\ Row(r) \in RowType /\ snap[r] \in RowType
    BY DEF TypeInv, TypeOK, TableTyped, RequestsTyped, CallType, Row
<1>1. CASE InsertRecord(r)
  <2>1. CASE ~ UNCHANGED <<rows, commits>>
    <3>1. /\ pc[r] = "start" /\ call[r].op = "create" /\ UNCHANGED <<audit, call>>
          /\ Row(r) = Absent /\ ~ Refused(r)
          /\ rows' = [rows EXCEPT ![call[r].key] = Fresh(InitialStatus, call[r].fields)]
          /\ Commit(r, NoStatus, InitialStatus, 1)
          /\ Proceed(r, "audit")
      BY <1>1, <2>1 DEF InsertRecord
    <3>2. /\ Fresh(InitialStatus, call[r].fields) \in RowType
          /\ Fresh(InitialStatus, call[r].fields).version = Row(r).version + 1
          /\ Fresh(InitialStatus, call[r].fields).version = 1
          /\ Fresh(InitialStatus, call[r].fields).state = "live"
      BY <1>0, <3>1, GraphAssumption DEF Fresh, Absent, RowType, CallType
    <3> QED
      BY <3>1, <3>2, ProceedLeaves DEF Writes, Ops
  <2> QED
    BY <2>1
<1>2. CASE WriteUpdate(r) \/ WriteTransition(r)
  <2>1. CASE ~ UNCHANGED <<rows, commits>>
    <3>1. /\ pc[r] = "write" /\ call[r].op \in {"update", "transition"} /\ UNCHANGED <<audit, call>>
          /\ Matches(r) /\ Proceed(r, "audit")
          /\ \E status \in Statuses, fields \in Fields : StoreUpdate(r, status, fields)
          /\ \E from, to : Commit(r, from, to, call[r].expected + 1)
      BY <1>0, <1>2, <2>1 DEF WriteUpdate, WriteTransition, SnapOK, InputOK, Refused, RowType, CallType
    <3>2. PICK status \in Statuses, fields \in Fields : StoreUpdate(r, status, fields)
      BY <3>1
    <3> DEFINE new == [state |-> Row(r).state, status |-> status,
                       version |-> call[r].expected + 1, fields |-> fields]
    <3>3. new \in RowType /\ new.version = Row(r).version + 1 /\ new.state = "live"
      BY <1>0, <3>1 DEF Matches, Live, Row, RowType, CallType
    <3>4. rows' = [rows EXCEPT ![call[r].key] = new] /\ new.version = call[r].expected + 1
      BY <1>0, <3>2 DEF StoreUpdate, Row, TableTyped
    <3> HIDE DEF new
    <3> QED
      BY <3>1, <3>3, <3>4, ProceedLeaves DEF Writes, Ops
  <2> QED
    BY <2>1
<1>3. CASE SoftDelete(r)
  <2>1. CASE ~ UNCHANGED <<rows, commits>>
    <3>1. /\ pc[r] = "write" /\ call[r].op = "delete" /\ UNCHANGED <<audit, call>>
          /\ rows' = [rows EXCEPT ![call[r].key].state = "deleted"]
          /\ Commit(r, Row(r).status, DeletedMark, Row(r).version)
          /\ Proceed(r, "audit")
      BY <1>3, <2>1 DEF SoftDelete
    <3> DEFINE new == [Row(r) EXCEPT !.state = "deleted"]
    <3>2. /\ new \in RowType /\ new.version = Row(r).version /\ new.state = "deleted"
          /\ new.status = Row(r).status /\ new.fields = Row(r).fields
      BY <1>0 DEF RowType
    <3>3. rows' = [rows EXCEPT ![call[r].key] = new]
      BY <1>0, <3>1 DEF Row, TableTyped
    <3> HIDE DEF new
    <3> QED
      BY <3>1, <3>2, <3>3, ProceedLeaves DEF Writes, Ops
  <2> QED
    BY <2>1
<1>4. CASE LoadForUpdate(r) \/ LoadForTransition(r) \/ LoadForDelete(r) \/ Reread(r) \/ StatementFails(r)
    BY <1>4 DEF LoadForUpdate, LoadForTransition, LoadForDelete, Reread, StatementFails
<1>5. CASE AuditCreate(r) \/ AuditUpdate(r) \/ AuditTransition(r) \/ AuditDelete(r)
    BY <1>5 DEF AuditCreate, AuditUpdate, AuditTransition, AuditDelete
<1> QED
    BY <1>1, <1>2, <1>3, <1>4, <1>5 DEF Serve

(* Where a request goes next.                                              *)
LEMMA Flow ==
    ASSUME NEW r \in Requests, TypeInv, Serve(r)
    PROVE  /\ UNCHANGED call
           /\ pc[r] \notin {"idle", "done"}
           /\ pc'[r] = "done" \/ resp'[r] = resp[r]
           /\ \/ pc'[r] = "done"
              \/ /\ pc[r] = "start" /\ pc'[r] = "write"
                 /\ Live(call[r].key) /\ Row(r).version > 0
                 /\ snap'[r] = Row(r) /\ UNCHANGED <<rows, audit, commits>>
              \/ /\ pc[r] \in {"start", "write"} /\ pc'[r] = "audit" /\ snap'[r] = snap[r]
                 /\ Versioned(r) => Matches(r) /\ Row(r)'.version = call[r].expected + 1
              \/ /\ pc[r] = "audit" /\ pc'[r] = "reread" /\ snap'[r] = snap[r]
                 /\ Versioned(r) /\ UNCHANGED <<rows, commits>>
                 /\ AuditUpdate(r) \/ AuditTransition(r)
<1>0. /\ TableTyped /\ RequestsTyped /\ call[r].key \in Records
    BY DEF TypeInv, TypeOK, TableTyped, RequestsTyped, CallType
<1> USE DEF Versioned, RequestsTyped
<1>1. CASE InsertRecord(r)
    BY <1>0, <1>1 DEF InsertRecord, Proceed, Reply, Advance
<1>2. CASE LoadForUpdate(r) \/ LoadForTransition(r) \/ LoadForDelete(r)
  <2>1. Live(call[r].key) => Row(r).version > 0
    BY <1>0 DEF TableTyped, Live, Row, RowType
  <2> QED
    BY <1>0, <1>2, <2>1 DEF LoadForUpdate, LoadForTransition, LoadForDelete, Reply, Advance
<1>3. CASE WriteUpdate(r) \/ WriteTransition(r)
  <2>1. CASE ~ Matches(r)
    BY <1>0, <1>3, <2>1 DEF WriteUpdate, WriteTransition, Reply
  <2>2. CASE Matches(r)
    <3>1. /\ UNCHANGED call /\ pc[r] = "write" /\ Proceed(r, "audit")
          /\ \E status, fields : StoreUpdate(r, status, fields)
      BY <1>3, <2>2 DEF WriteUpdate, WriteTransition
    <3>2. Row(r)'.version = call[r].expected + 1
      BY <1>0, <3>1 DEF StoreUpdate, TableTyped, Row
    <3> QED
      BY <1>0, <2>2, <3>1, <3>2 DEF Proceed, Reply, Advance
  <2> QED
    BY <2>1, <2>2
<1>4. CASE SoftDelete(r) \/ AuditDelete(r) \/ AuditCreate(r)
    BY <1>0, <1>4 DEF SoftDelete, AuditDelete, AuditCreate, Proceed, Reply, Advance
<1>5. CASE AuditUpdate(r) \/ AuditTransition(r)
    BY <1>0, <1>5 DEF AuditUpdate, AuditTransition, Proceed, Reply, Advance
<1>6. CASE Reread(r) \/ StatementFails(r)
    BY <1>0, <1>6 DEF Reread, StatementFails, Reply
<1> QED
    BY <1>1, <1>2, <1>3, <1>4, <1>5, <1>6 DEF Serve

-----------------------------------------------------------------------------
(* The version of a record never decreases, and a record keeps its status  *)
(* and fields as long as it keeps its version.                             *)
NotOlder(k) ==
    /\ rows'[k].version >= rows[k].version
    /\ rows'[k].version = rows[k].version =>
          rows'[k].status = rows[k].status /\ rows'[k].fields = rows[k].fields

LEMMA RowsMonotone ==
    ASSUME TypeInv, [Next]_vars, NEW k \in Records
    PROVE  NotOlder(k)
<1>0. /\ rows \in [Records -> RowType] /\ rows[k].version \in Nat
      /\ \A r \in Requests : call[r].key \in Records
    BY DEF TypeInv, TypeOK, TableTyped, RequestsTyped, CallType, RowType
<1>1. CASE UNCHANGED rows
    BY <1>0, <1>1 DEF NotOlder
<1>2. ASSUME NEW r \in Requests, Writes(r)
      PROVE  NotOlder(k)
    BY <1>0, <1>2 DEF Writes, NotOlder, Row, RowType
<1> QED
    BY <1>1, <1>2, TableStep DEF Next, Crash, Submit, vars

LEMMA VersionOrderStep ==
    ASSUME Lookahead = 0, TypeInv, VersionOrder, [Next]_vars
    PROVE  VersionOrder'
<1>0. /\ TableTyped /\ RequestsTyped /\ rows' \in [Records -> RowType]
      /\ \A k \in Records : /\ rows[k].version \in Nat /\ rows'[k].version \in Nat
                            /\ Newest(k)' >= Newest(k) /\ Newest(k) \in Nat /\ Newest(k)' \in Nat
                            /\ NotOlder(k)
      /\ \A r \in Requests : call[r].key \in Records /\ call[r].expected \in Nat /\ snap[r].version \in Nat
  <2>1. TypeInv'
    BY TypeStep
  <2>2. TableTyped /\ TableTyped' /\ RequestsTyped
    BY <2>1 DEF TypeInv, TypeOK
  <2> QED
    BY <2>2, RowsMonotone DEF TableTyped, RequestsTyped, NotOlder, Newest, RowType, CallType
<1> DEFINE OK(q) ==
        /\ pc[q] # "idle" /\ Versioned(q) => call[q].expected \in 1 .. Newest(call[q].key)
        /\ pc[q] = "write" =>
              /\ Versioned(q) => call[q].expected <= snap[q].version
              /\ snap[q].version <= Row(q).version
              /\ snap[q].version = Row(q).version =>
                    /\ snap[q].status = Row(q).status
                    /\ snap[q].fields = Row(q).fields
        /\ pc[q] \in {"audit", "reread"} /\ Versioned(q) => Row(q).version > call[q].expected
<1>1. ASSUME NEW q \in Requests,
             pc'[q] = pc[q] \/ (pc'[q] = "done" /\ pc[q] # "idle"), call'[q] = call[q],
             snap'[q] = snap[q] \/ pc'[q] # "write"
      PROVE  OK(q)'
  <2>1. OK(q) /\ call[q].key \in Records /\ Row(q)' = rows'[call[q].key] /\ Row(q) = rows[call[q].key]
    BY <1>0, <1>1 DEF VersionOrder, Row
  <2> QED
    BY <1>0, <1>1, <2>1 DEF NotOlder, Versioned
<1>2. ASSUME NEW r \in Requests, Submit(r) \/ Serve(r)
      PROVE  OK(r)'
  <2>0. OK(r) /\ call[r].key \in Records
    BY <1>0 DEF VersionOrder
  <2>1. CASE Submit(r)
    <3>1. /\ pc'[r] = "start" /\ UNCHANGED rows /\ call'[r] \in Input
      BY <1>0, <2>1 DEF Submit, RequestsTyped
    <3>2. call'[r].key \in Records /\ (Versioned(r)' => call'[r].expected \in ExpectedVersions(call'[r].key))
      BY <3>1, InputTyped DEF Versioned, CallType
    <3>3. \A k \in Records : ExpectedVersions(k) = 1 .. Newest(k) /\ Newest(k)' = Newest(k)
      BY <1>0, <3>1 DEF ExpectedVersions, Newest
    <3> QED
      BY <3>1, <3>2, <3>3
  <2>2. CASE Serve(r)
    <3>1. CASE pc'[r] = "done"
      BY <1>1, <2>2, <3>1, Flow
    <3>2. CASE pc[r] = "start" /\ pc'[r] = "write"
      BY <1>0, <2>0, <2>2, <3>2, Flow DEF Row, Newest, Versioned
    <3>3. CASE pc[r] \in {"start", "write"} /\ pc'[r] = "audit"
      BY <1>0, <2>0, <2>2, <3>3, Flow DEF Row, Newest, Versioned
    <3>4. CASE pc[r] = "audit" /\ pc'[r] = "reread"
      BY <1>0, <2>0, <2>2, <3>4, Flow DEF Row, Newest, Versioned
    <3> QED
      BY <2>2, <3>1, <3>2, <3>3, <3>4, Flow
  <2> QED
    BY <1>2, <2>1, <2>2
<1>3. ASSUME NEW q \in Requests
      PROVE  OK(q)'
  <2>1. CASE UNCHANGED vars
    BY <1>1, <2>1 DEF vars
  <2>2. CASE Crash
    <3>1. /\ pc'[q] = pc[q] \/ (pc'[q] = "done" /\ pc[q] # "idle")
          /\ call'[q] = call[q] /\ pc'[q] # "write"
      BY <1>0, <2>2 DEF Crash, InFlight
    <3> QED
      BY <1>1, <3>1
  <2>3. CASE \E r \in Requests : Submit(r) \/ Serve(r)
    BY <1>1, <1>2, <2>3, OthersUntouched DEF Others
  <2> QED
    BY <2>1, <2>2, <2>3 DEF Next
<1> QED
    BY <1>3 DEF VersionOrder

-----------------------------------------------------------------------------
(* A write extends the history by the version it makes.                    *)

LEMMA HistoryStep ==
    ASSUME TypeInv, HistoryOK, OneWinner, [Next]_vars
    PROVE  HistoryOK' /\ OneWinner'
<1>0. /\ rows \in [Records -> RowType]
      /\ \A k \in Records : rows[k].version \in Nat
      /\ commits \subseteq CommitType
      /\ \A c \in commits : c.key \in Records /\ c.version \in Nat
      /\ \A r \in Requests : call[r].key \in Records
    BY DEF TypeInv, TypeOK, TableTyped, LogTyped, RequestsTyped, RowType, CallType, CommitType
<1>1. CASE UNCHANGED <<rows, commits>>
    BY <1>1 DEF HistoryOK, OneWinner
<1>2. ASSUME NEW r \in Requests, Writes(r)
      PROVE  HistoryOK' /\ OneWinner'
  <2> DEFINE k == call[r].key
  <2>1. PICK new \in RowType :
          /\ rows' = [rows EXCEPT ![k] = new]
          /\ \E from, to : Commit(r, from, to, new.version)
          /\ \/ /\ call[r].op # "delete"
                /\ new.version = rows[k].version + 1
                /\ new.state = "live"
             \/ /\ call[r].op = "delete"
                /\ new.version = rows[k].version
                /\ new.state = "deleted"
    BY <1>2 DEF Writes, Row
  <2> PICK from, to : Commit(r, from, to, new.version)
    BY <2>1
  <2> DEFINE c == [req |-> r, key |-> k, op |-> call[r].op, from |-> from, to |-> to, version |-> new.version]
  <2>2. /\ commits' = commits \cup {c}
        /\ c.key = k /\ c.op = call[r].op /\ c.version = new.version
    BY DEF Commit
  <2>3. /\ k \in Records /\ new.version \in Nat
        /\ rows'[k] = new /\ \A j \in Records \ {k} : rows'[j] = rows[j]
        /\ rows[k].version \in Nat
    BY <1>0, <2>1 DEF RowType
  <2> HIDE DEF c, k
  <2>4. \A d \in commits' : d.version <= rows'[d.key].version
    BY <1>0, <2>1, <2>2, <2>3 DEF HistoryOK
  <2>5. ASSUME NEW j \in Records
        PROVE  /\ \A v \in 2 .. rows'[j].version : \E d \in commits' : d.key = j /\ d.version = v
               /\ rows'[j].state = "deleted" => \E d \in commits' : d.key = j /\ d.op = "delete"
    <3>1. CASE j # k
      BY <2>2, <2>3, <3>1 DEF HistoryOK
    <3>2. CASE j = k
      BY <2>1, <2>2, <2>3, <3>2 DEF HistoryOK
    <3> QED
      BY <3>1, <3>2
  <2>6. OneWinner'
    BY <1>0, <2>1, <2>2, <2>3 DEF OneWinner, HistoryOK
  <2> QED
    BY <2>4, <2>5, <2>6 DEF HistoryOK
<1> QED
    BY <1>1, <1>2, TableStep DEF Next, Crash, Submit, vars

-----------------------------------------------------------------------------
(* The history and the audit log only grow, and a step adds to them what   *)
(* the request that takes it did.                                          *)
LEMMA LogsGrow ==
    ASSUME NEW r \in Requests, TypeInv, Serve(r)
    PROVE  /\ commits \subseteq commits' /\ audit \subseteq audit'
           /\ \A c \in commits' \ commits : c.req = r
           /\ \A a \in audit' \ audit : a.req = r
<1>1. CASE Writes(r)
    BY <1>1 DEF Writes, Commit
<1>2. CASE UNCHANGED <<rows, commits>>
    BY <1>2 DEF Serve, InsertRecord, AuditCreate, LoadForUpdate, WriteUpdate, AuditUpdate, LoadForTransition,
                WriteTransition, AuditTransition, LoadForDelete, SoftDelete, AuditDelete, Reread, StatementFails,
                AppendAudit, Entry
<1> QED
    BY <1>1, <1>2, TableStep

(* The part of Progress about one request.                                 *)
Due(q) ==
    /\ pc[q] # "done" => resp[q] = "none"
    /\ pc[q] = "audit" => \E c \in commits : EntryDue(q, c)
    /\ pc[q] = "reread" => /\ Versioned(q) /\ Wrote(q)
                           /\ call[q].op = "transition" => Audited(q)

(* The compare-and-set succeeds only on the row that was read.             *)
LEMMA UpToDate ==
    ASSUME NEW r \in Requests, TypeInv, VersionOrder, pc[r] = "write", Versioned(r), Matches(r)
    PROVE  snap[r].status = Row(r).status /\ snap[r].fields = Row(r).fields
<1>1. /\ Row(r).version \in Nat /\ snap[r].version \in Nat /\ call[r].expected \in Nat
      /\ Row(r).version = call[r].expected
    BY DEF TypeInv, TypeOK, TableTyped, RequestsTyped, RowType, CallType, Row, Matches
<1>2. call[r].expected <= snap[r].version /\ snap[r].version <= Row(r).version
    BY DEF VersionOrder
<1>3. snap[r].version = Row(r).version
    BY <1>1, <1>2
<1> QED
    BY <1>3 DEF VersionOrder

LEMMA EntryBecomesDue ==
    ASSUME NEW r \in Requests, TypeInv, VersionOrder, Serve(r), pc[r] # "audit", pc'[r] = "audit"
    PROVE  \E c \in commits' : EntryDue(r, c)'
<1>0. /\ RequestsTyped /\ UNCHANGED call /\ pc[r] \in {"start", "write"} /\ snap'[r] = snap[r]
    BY Flow DEF TypeInv, TypeOK
<1>1. ASSUME NEW from, NEW to, NEW version, Commit(r, from, to, version)
      PROVE  \E c \in commits' : /\ c.req = r /\ c.key = call[r].key /\ c.op = call[r].op
                                 /\ c.from = from /\ c.to = to
  <2> DEFINE c == [req |-> r, key |-> call[r].key, op |-> call[r].op,
                   from |-> from, to |-> to, version |-> version]
  <2>1. c \in commits'
    BY <1>1 DEF Commit
  <2>2. c.req = r /\ c.key = call[r].key /\ c.op = call[r].op /\ c.from = from /\ c.to = to
    OBVIOUS
  <2> QED
    BY <2>1, <2>2
<1>2. CASE InsertRecord(r)
  <2>1. call[r].op = "create" /\ Commit(r, NoStatus, InitialStatus, 1)
    BY <1>0, <1>2 DEF InsertRecord, Reply, RequestsTyped
  <2> QED
    BY <1>0, <1>1, <2>1 DEF EntryDue
<1>3. CASE WriteUpdate(r)
  <2>1. call[r].op = "update" /\ Matches(r) /\ Commit(r, Row(r).status, snap[r].status, call[r].expected + 1)
    BY <1>0, <1>3 DEF WriteUpdate, Reply, RequestsTyped
  <2>2. Row(r).status = snap[r].status
    BY <1>3, <2>1, UpToDate DEF WriteUpdate, Versioned
  <2> QED
    BY <1>0, <1>1, <2>1, <2>2 DEF EntryDue
<1>4. CASE WriteTransition(r)
  <2>1. call[r].op = "transition" /\ Matches(r) /\ Commit(r, Row(r).status, call[r].target, call[r].expected + 1)
    BY <1>0, <1>4 DEF WriteTransition, Reply, RequestsTyped
  <2>2. Row(r).status = snap[r].status
    BY <1>4, <2>1, UpToDate DEF WriteTransition, Versioned
  <2> QED
    BY <1>0, <1>1, <2>1, <2>2 DEF EntryDue
<1>5. CASE SoftDelete(r)
  <2>1. call[r].op = "delete" /\ Commit(r, Row(r).status, DeletedMark, Row(r).version)
    BY <1>0, <1>5 DEF SoftDelete, Reply, RequestsTyped
  <2> QED
    BY <1>0, <1>1, <2>1 DEF EntryDue
<1>6. CASE LoadForUpdate(r) \/ LoadForTransition(r) \/ LoadForDelete(r)
    BY <1>0, <1>6 DEF LoadForUpdate, LoadForTransition, LoadForDelete, Reply, Advance, RequestsTyped
<1>7. CASE AuditCreate(r) \/ AuditUpdate(r) \/ AuditTransition(r) \/ AuditDelete(r)
    BY <1>7 DEF AuditCreate, AuditUpdate, AuditTransition, AuditDelete
<1>8. CASE Reread(r) \/ StatementFails(r)
    BY <1>0, <1>8 DEF Reread, StatementFails, Reply, RequestsTyped
<1> QED
    BY <1>2, <1>3, <1>4, <1>5, <1>6, <1>7, <1>8 DEF Serve

LEMMA ProgressStep ==
    ASSUME TypeInv, VersionOrder, Progress, [Next]_vars
    PROVE  Progress'
<1>0. RequestsTyped /\ LogTyped /\ \A c \in commits : c.req \in Requests
    BY DEF TypeInv, TypeOK, LogTyped, CommitType
<1>1. ASSUME NEW q \in Requests, Due(q),
             pc'[q] = pc[q], call'[q] = call[q], snap'[q] = snap[q], resp'[q] = resp[q],
             commits \subseteq commits', audit \subseteq audit'
      PROVE  Due(q)'
    BY <1>1 DEF Due, EntryDue, Versioned, Wrote, Audited
<1>2. ASSUME NEW r \in Requests, Submit(r)
      PROVE  Progress'
  <2>1. /\ pc[r] = "idle" /\ pc'[r] = "start" /\ UNCHANGED <<commits, audit, resp>> /\ Others(r)
    BY <1>0, <1>2, OthersUntouched DEF Submit, RequestsTyped
  <2>2. Due(r)'
    BY <2>1 DEF Due, Progress
  <2>3. \A q \in Requests \ {r} : Due(q)'
    BY <1>1, <2>1 DEF Others, Due, Progress
  <2>4. \A c \in commits' : pc'[c.req] \notin {"idle", "start", "write"}
    BY <1>0, <2>1 DEF Progress, Others
  <2> QED
    BY <2>2, <2>3, <2>4 DEF Progress, Due
<1>3. ASSUME NEW r \in Requests, Serve(r)
      PROVE  Progress'
  <2>1. /\ Others(r) /\ UNCHANGED call /\ pc[r] \notin {"idle", "done"}
        /\ commits \subseteq commits' /\ audit \subseteq audit'
    BY <1>3, OthersUntouched, LogsGrow, Flow
  <2>2. \A q \in Requests \ {r} : Due(q)'
    BY <1>1, <2>1 DEF Others, Due, Progress
  <2>3. \A c \in commits' : pc'[c.req] \notin {"idle", "start", "write"}
    <3>1. CASE UNCHANGED <<rows, commits>>
      BY <1>0, <1>3, <2>1, <3>1, Flow DEF Progress, Others
    <3>2. CASE Writes(r)
      BY <1>0, <1>3, <2>1, <3>2, LogsGrow DEF Writes, Progress, Others
    <3> QED
      BY <1>3, <3>1, <3>2, TableStep
  <2>4. Due(r)'
    <3>1. CASE pc'[r] = "done"
      BY <3>1 DEF Due
    <3>2. CASE pc'[r] = "write"
      BY <1>3, <3>2, Flow DEF Due, Progress
    <3>3. CASE pc'[r] = "audit"
      BY <1>3, <3>3, Flow, EntryBecomesDue DEF Due, Progress
    <3>4. CASE pc'[r] = "reread"
      <4>1. /\ pc[r] = "audit" /\ Versioned(r) /\ UNCHANGED commits /\ resp'[r] = resp[r]
        BY <1>3, <3>4, Flow
      <4>2. Wrote(r)' /\ Versioned(r)' /\ resp'[r] = "none"
        BY <2>1, <4>1 DEF Progress, EntryDue, Wrote, Versioned
      <4>3. call[r].op = "transition" => Audited(r)'
        <5>1. AuditUpdate(r) \/ AuditTransition(r)
          BY <1>3, <3>4, <4>1, Flow
        <5>2. ASSUME AuditTransition(r)
              PROVE  Audited(r)'
          <6>1. Entry(r, snap[r].status, call[r].target) \in audit'
            BY <5>2 DEF AuditTransition, AppendAudit
          <6>2. Entry(r, snap[r].status, call[r].target).req = r
            BY DEF Entry
          <6> QED
            BY <6>1, <6>2 DEF Audited
        <5> QED
          BY <5>1, <5>2 DEF AuditUpdate
      <4> QED
        BY <2>1, <3>4, <4>2, <4>3 DEF Due
    <3> QED
      BY <1>3, <3>1, <3>2, <3>3, <3>4, Flow
  <2> QED
    BY <2>2, <2>3, <2>4 DEF Progress, Due
<1>4. ASSUME Crash
      PROVE  Progress'
    BY <1>0, <1>4 DEF Crash, InFlight, Progress, RequestsTyped, EntryDue, Versioned, Wrote, Audited
<1>5. CASE UNCHANGED vars
    BY <1>5 DEF vars, Progress, EntryDue, Versioned, Wrote, Audited
<1> QED
    BY <1>2, <1>3, <1>4, <1>5 DEF Next

-----------------------------------------------------------------------------
(* The properties that the parts above imply at each step.                 *)

LEMMA AuditFaithfulStep ==
    ASSUME TypeInv, Progress, AuditFaithful, [Next]_vars
    PROVE  AuditFaithful'
<1>0. TypeInv'
    BY TypeStep
<1>1. ASSUME commits \subseteq commits', audit' \subseteq audit
      PROVE  AuditFaithful'
    BY <1>1 DEF AuditFaithful
<1>2. ASSUME NEW r \in Requests, NEW before, NEW after, AppendAudit(r, before, after), UNCHANGED commits,
             call[r].op # "delete" =>
                \E c \in commits : /\ c.req = r /\ c.key = call[r].key /\ c.op = call[r].op
                                   /\ c.from = before /\ c.to = after
      PROVE  AuditFaithful'
  <2> DEFINE e == Entry(r, before, after)
  <2>1. /\ e.req = r /\ e.key = call[r].key /\ e.action = call[r].op
        /\ e.before = before /\ e.after = after
    BY DEF Entry
  <2>2. audit' = audit \cup {e}
    BY <1>2 DEF AppendAudit
  <2> HIDE DEF e
  <2> QED
    BY <1>2, <2>1, <2>2 DEF AuditFaithful
<1>3. ASSUME NEW r \in Requests, Serve(r), ~ UNCHANGED audit
      PROVE  AuditFaithful'
  <2>1. pc[r] = "audit" => \E c \in commits : EntryDue(r, c)
    BY DEF Progress
  <2>2. CASE AuditCreate(r)
    BY <1>2, <1>3, <2>1, <2>2 DEF AuditCreate, EntryDue
  <2>3. CASE AuditUpdate(r)
    BY <1>2, <1>3, <2>1, <2>3 DEF AuditUpdate, EntryDue
  <2>4. CASE AuditTransition(r)
    BY <1>2, <1>3, <2>1, <2>4 DEF AuditTransition, EntryDue
  <2>5. CASE AuditDelete(r)
    BY <1>2, <1>3, <2>1, <2>5 DEF AuditDelete
  <2> QED
    BY <1>3, <2>2, <2>3, <2>4, <2>5 DEF Serve, InsertRecord, LoadForUpdate, WriteUpdate, LoadForTransition,
       WriteTransition, LoadForDelete, SoftDelete, Reread, StatementFails
<1> QED
    BY <1>1, <1>3, LogsGrow DEF Next, Crash, Submit, vars

(* What the three properties of answers say of one request.                *)
Answered(q) ==
    /\ resp[q] = "ok" => /\ Wrote(q)
                         /\ call[q].op \in {"transition", "delete"} => Audited(q)
                         /\ Versioned(q) => seen[q] >= call[q].expected + 1
    /\ resp[q] \in {"version_conflict", "business_rule"} => ~ Wrote(q)
    /\ resp[q] = "version_conflict" =>
          \E c \in commits : /\ c.req # q /\ c.key = call[q].key
                             /\ c.op = "delete" \/ c.version = call[q].expected + 1

LEMMA AnsweredAll ==
    (\A q \in Requests : Answered(q)) <=> (ReplyTellsTruth /\ ConflictHasWinner /\ ReadYourWrites)
BY DEF Answered, ReplyTellsTruth, ConflictHasWinner, ReadYourWrites, Versioned

LEMMA ConflictStep ==
    ASSUME NEW r \in Requests, TypeInv, VersionOrder, HistoryOK, Progress,
           pc[r] = "write", Versioned(r), ~ Matches(r)
    PROVE  \E c \in commits : /\ c.req # r /\ c.key = call[r].key
                              /\ c.op = "delete" \/ c.version = call[r].expected + 1
<1> DEFINE k == call[r].key
<1>1. /\ k \in Records /\ rows[k] \in RowType
      /\ rows[k].version \in Nat /\ snap[r].version \in Nat /\ call[r].expected \in Nat \ {0}
      /\ call[r].expected <= rows[k].version
  <2>1. /\ TableTyped /\ RequestsTyped /\ k \in Records
        /\ snap[r].version \in Nat /\ call[r].expected \in Nat
    BY DEF TypeInv, TypeOK, RequestsTyped, RowType, CallType
  <2>2. rows[k] \in RowType /\ rows[k].version \in Nat
    BY <2>1 DEF TableTyped, RowType
  <2>3. call[r].expected \in 1 .. Newest(k) /\ call[r].expected <= snap[r].version
        /\ snap[r].version <= rows[k].version
    BY DEF VersionOrder, Row
  <2> QED
    BY <2>1, <2>2, <2>3
<1>2. \A c \in commits : c.req # r
    BY DEF Progress
<1>3. CASE Live(k)
  <2>1. call[r].expected + 1 \in 2 .. rows[k].version
    BY <1>1, <1>3 DEF Matches, Row
  <2> QED
    BY <1>1, <1>2, <2>1 DEF HistoryOK
<1>4. CASE ~ Live(k)
  <2>1. rows[k].state = "deleted"
    BY <1>1, <1>4 DEF TypeInv, TypeOK, TableTyped, RowType, Live
  <2> QED
    BY <1>1, <1>2, <2>1 DEF HistoryOK
<1> QED
    BY <1>3, <1>4

LEMMA AnswerStep ==
    ASSUME NEW r \in Requests, TypeInv, VersionOrder, HistoryOK, Progress, Serve(r)
    PROVE  Answered(r)'
<1>0. /\ RequestsTyped /\ UNCHANGED call /\ pc[r] \notin {"idle", "done"} /\ resp[r] = "none"
      /\ pc'[r] = "done" \/ resp'[r] = "none"
      /\ commits \subseteq commits' /\ audit \subseteq audit'
      /\ pc[r] \in {"start", "write"} => ~ Wrote(r)
      /\ pc[r] = "audit" => Wrote(r)
    BY Flow, LogsGrow DEF TypeInv, TypeOK, Progress, Wrote, EntryDue
<1>1. ASSUME resp'[r] \notin {"ok", "version_conflict", "business_rule"}
      PROVE  Answered(r)'
    BY <1>1 DEF Answered
<1>2. ASSUME pc[r] \in {"start", "write"}, UNCHANGED commits, resp'[r] = "business_rule"
      PROVE  Answered(r)'
    BY <1>0, <1>2 DEF Answered, Wrote
<1>3. ASSUME NEW code, NEW version, Reply(r, code, version)
      PROVE  resp'[r] = code /\ seen'[r] = version
    BY <1>0, <1>3 DEF Reply, RequestsTyped
<1>4. ASSUME NEW next, Proceed(r, next)
      PROVE  resp'[r] \in {"none", "internal_error"}
    BY <1>0, <1>4 DEF Proceed, Advance, Reply, RequestsTyped
<1>5. CASE InsertRecord(r) \/ LoadForUpdate(r) \/ LoadForTransition(r) \/ LoadForDelete(r)
    BY <1>0, <1>1, <1>2, <1>3, <1>4, <1>5
    DEF InsertRecord, LoadForUpdate, LoadForTransition, LoadForDelete, Advance
<1>6. CASE WriteUpdate(r) \/ WriteTransition(r)
  <2>1. pc[r] = "write" /\ Versioned(r)
    BY <1>6 DEF WriteUpdate, WriteTransition, Versioned
  <2>2. CASE Matches(r)
    BY <1>1, <1>4, <1>6, <2>2 DEF WriteUpdate, WriteTransition
  <2>3. CASE ~ Matches(r)
    <3>1. UNCHANGED commits /\ resp'[r] = "version_conflict"
      BY <1>3, <1>6, <2>3 DEF WriteUpdate, WriteTransition
    <3> QED
      BY <1>0, <2>1, <2>3, <3>1, ConflictStep DEF Answered, Wrote
  <2> QED
    BY <2>2, <2>3
<1>7. CASE SoftDelete(r)
    BY <1>1, <1>3, <1>4, <1>7 DEF SoftDelete
<1>8. CASE AuditCreate(r)
  <2>1. resp'[r] = "ok" /\ call[r].op = "create" /\ Wrote(r)'
    BY <1>0, <1>3, <1>8 DEF AuditCreate, Wrote
  <2> QED
    BY <1>0, <2>1 DEF Answered, Versioned
<1>9. CASE AuditDelete(r)
  <2>1. /\ resp'[r] \in {"ok", "internal_error"} /\ call[r].op = "delete" /\ Wrote(r)'
        /\ Entry(r, snap[r].status, DeletedMark) \in audit'
    BY <1>0, <1>3, <1>9 DEF AuditDelete, AppendAudit, Wrote
  <2>2. Entry(r, snap[r].status, DeletedMark).req = r
    BY DEF Entry
  <2> QED
    BY <1>0, <2>1, <2>2 DEF Answered, Versioned, Audited
<1>10. CASE AuditUpdate(r) \/ AuditTransition(r)
    BY <1>0, <1>1, <1>3, <1>4, <1>10 DEF AuditUpdate, AuditTransition, Advance
<1>11. CASE Reread(r)
  <2>1. /\ pc[r] = "reread" /\ UNCHANGED <<commits, audit>>
        /\ resp'[r] = "not_found" \/ (resp'[r] = "ok" /\ seen'[r] = Row(r).version)
    BY <1>3, <1>11 DEF Reread
  <2>2. /\ Versioned(r) /\ Wrote(r)
        /\ call[r].op = "transition" => Audited(r)
    BY <2>1 DEF Progress
  <2>3. Row(r).version >= call[r].expected + 1
    <3>1. Row(r).version > call[r].expected
      BY <2>1, <2>2 DEF VersionOrder
    <3>2. Row(r).version \in Nat /\ call[r].expected \in Nat
      BY DEF TypeInv, TypeOK, TableTyped, RequestsTyped, RowType, CallType, Row
    <3> QED
      BY <3>1, <3>2
  <2> QED
    BY <1>0, <2>1, <2>2, <2>3 DEF Answered, Versioned, Wrote, Audited
<1>12. CASE StatementFails(r)
    BY <1>1, <1>3, <1>12 DEF StatementFails
<1> QED
    BY <1>5, <1>6, <1>7, <1>8, <1>9, <1>10, <1>11, <1>12 DEF Serve

LEMMA AnsweredStep ==
    ASSUME TypeInv, VersionOrder, HistoryOK, Progress, [Next]_vars,
           ReplyTellsTruth, ConflictHasWinner, ReadYourWrites
    PROVE  (ReplyTellsTruth /\ ConflictHasWinner /\ ReadYourWrites)'
<1>0. RequestsTyped /\ \A q \in Requests : Answered(q)
    BY AnsweredAll DEF TypeInv, TypeOK
<1>1. ASSUME NEW q \in Requests, resp'[q] = resp[q], call'[q] = call[q], seen'[q] = seen[q],
             commits \subseteq commits', audit \subseteq audit', \A c \in commits' \ commits : c.req # q
      PROVE  Answered(q)'
    BY <1>0, <1>1 DEF Answered, Wrote, Audited, Versioned
<1>2. ASSUME NEW r \in Requests, Submit(r), NEW q \in Requests
      PROVE  Answered(q)'
  <2>1. /\ UNCHANGED <<resp, seen, commits, audit>> /\ Others(r) /\ resp[r] = "none"
    BY <1>2, OthersUntouched DEF Submit, Progress
  <2>2. CASE q = r
    BY <2>1, <2>2 DEF Answered
  <2>3. CASE q # r
    BY <1>1, <2>1, <2>3 DEF Others
  <2> QED
    BY <2>2, <2>3
<1>3. ASSUME NEW r \in Requests, Serve(r), NEW q \in Requests
      PROVE  Answered(q)'
  <2>1. CASE q = r
    BY <1>3, <2>1, AnswerStep
  <2>2. CASE q # r
    BY <1>1, <1>3, <2>2, OthersUntouched, LogsGrow DEF Others
  <2> QED
    BY <2>1, <2>2
<1>4. ASSUME Crash, NEW q \in Requests
      PROVE  Answered(q)'
  <2>1. /\ UNCHANGED <<call, seen, commits, audit>>
        /\ resp'[q] = resp[q] \/ resp'[q] = "dropped"
    BY <1>4 DEF Crash
  <2>2. CASE resp'[q] = resp[q]
    BY <1>1, <2>1, <2>2
  <2>3. CASE resp'[q] = "dropped"
    BY <2>3 DEF Answered
  <2> QED
    BY <2>1, <2>2, <2>3
<1>5. ASSUME UNCHANGED vars, NEW q \in Requests
      PROVE  Answered(q)'
    BY <1>1, <1>5 DEF vars
<1>6. \A q \in Requests : Answered(q)'
    BY <1>2, <1>3, <1>4, <1>5 DEF Next
<1>7. (\A q \in Requests : Answered(q))' <=> (ReplyTellsTruth /\ ConflictHasWinner /\ ReadYourWrites)'
    BY AnsweredAll, PTL
<1> QED
    BY <1>6, <1>7

LEMMA IInvInit == Init => IInv
<1> SUFFICES ASSUME Init
             PROVE  IInv
    OBVIOUS
<1>1. TypeInv
    BY TypeInit
<1>2. VersionOrder /\ Progress /\ OneWinner /\ AuditFaithful /\ ReplyTellsTruth /\ ConflictHasWinner /\ ReadYourWrites
    BY DEF Init, VersionOrder, Progress, OneWinner, AuditFaithful, ReplyTellsTruth, ConflictHasWinner, ReadYourWrites
<1>3. HistoryOK
  <2>1. ASSUME NEW k \in Records
        PROVE  rows[k].version \in {0, 1} /\ rows[k].state # "deleted"
    BY DEF Init, Absent, Fresh
  <2> QED
    BY <2>1 DEF HistoryOK, Init
<1> QED
    BY <1>1, <1>2, <1>3 DEF IInv

LEMMA IInvStep ==
    ASSUME Lookahead = 0, IInv, [Next]_vars
    PROVE  IInv'
BY TypeStep, VersionOrderStep, HistoryStep, ProgressStep, AuditFaithfulStep, AnsweredStep DEF IInv

(* The parts above make an inductive invariant.                            *)
THEOREM IInvAlways == ASSUME Lookahead = 0 PROVE Spec => []IInv
BY IInvInit, IInvStep, PTL DEF Spec

(* Of the requests prepared on one version of a record at most one takes   *)
(* effect, however their reads and writes interleave with failures.        *)
THEOREM AtMostOneWinner == ASSUME Lookahead = 0 PROVE Spec => []OneWinner
<1>1. IInv => OneWinner
    BY DEF IInv
<1> QED
    BY <1>1, IInvAlways, PTL

(* The audit entry of a creation, an update or a transition, written after *)
(* the change from a row read before it, is what the change really did.    *)
THEOREM AuditIsFaithful == ASSUME Lookahead = 0 PROVE Spec => []AuditFaithful
<1>1. IInv => AuditFaithful
    BY DEF IInv
<1> QED
    BY <1>1, IInvAlways, PTL

(* No answer is wrong about the change, whatever fails on the way.         *)
THEOREM RepliesTellTheTruth == ASSUME Lookahead = 0 PROVE Spec => []ReplyTellsTruth
<1>1. IInv => ReplyTellsTruth
    BY DEF IInv
<1> QED
    BY <1>1, IInvAlways, PTL

(* A version conflict is always the doing of another request.              *)
THEOREM ConflictsHaveWinners == ASSUME Lookahead = 0 PROVE Spec => []ConflictHasWinner
<1>1. IInv => ConflictHasWinner
    BY DEF IInv
<1> QED
    BY <1>1, IInvAlways, PTL

(* The record a successful change answers with is not older than it.       *)
THEOREM AnswersAreFresh == ASSUME Lookahead = 0 PROVE Spec => []ReadYourWrites
<1>1. IInv => ReadYourWrites
    BY DEF IInv
<1> QED
    BY <1>1, IInvAlways, PTL

-----------------------------------------------------------------------------
(* Where no statement fails: the entry is due until it is written.         *)
EntryKept ==
    \A c \in commits :
        /\ c.op = call[c.req].op
        /\ c.op \in {"transition", "delete"} /\ pc[c.req] \in {"reread", "done"} => Audited(c.req)

LEMMA WritesLeadToAudit ==
    ASSUME NEW r \in Requests, ~ MayFail, TypeInv, Serve(r), ~ UNCHANGED commits
    PROVE  /\ pc'[r] = "audit" /\ UNCHANGED call
           /\ \A c \in commits' \ commits : c.req = r /\ c.op = call[r].op
<1>1. /\ UNCHANGED call
      /\ Advance(r, "audit", snap[r])
      /\ \E from, to, version : Commit(r, from, to, version)
    BY DEF Serve, InsertRecord, WriteUpdate, WriteTransition, SoftDelete, Proceed, LoadForUpdate, LoadForTransition,
       LoadForDelete, AuditCreate, AuditUpdate, AuditTransition, AuditDelete, Reread, StatementFails
<1> QED
    BY <1>1 DEF Advance, Commit, TypeInv, TypeOK, RequestsTyped

LEMMA EntryWritten ==
    ASSUME NEW r \in Requests, ~ MayFail, TypeInv, Serve(r), pc[r] = "audit",
           call[r].op \in {"transition", "delete"}
    PROVE  Audited(r)'
<1>1. ASSUME NEW before, NEW after, AppendAudit(r, before, after)
      PROVE  Audited(r)'
  <2>1. Entry(r, before, after) \in audit' /\ Entry(r, before, after).req = r
    BY <1>1 DEF AppendAudit, Entry
  <2> QED
    BY <2>1 DEF Audited
<1>2. AuditTransition(r) \/ AuditDelete(r)
    BY DEF Serve, InsertRecord, WriteUpdate, WriteTransition, SoftDelete, LoadForUpdate, LoadForTransition,
       LoadForDelete, AuditCreate, AuditUpdate, Reread, StatementFails
<1> QED
    BY <1>1, <1>2 DEF AuditTransition, AuditDelete

LEMMA EntryKeptStep ==
    ASSUME ~ MayFail, TypeInv, Progress, EntryKept, [Next]_vars
    PROVE  EntryKept'
<1>0. RequestsTyped /\ commits \subseteq CommitType
    BY DEF TypeInv, TypeOK, LogTyped
<1>1. ASSUME NEW r \in Requests, Submit(r)
      PROVE  EntryKept'
  <2>1. pc[r] = "idle" /\ UNCHANGED <<audit, commits>>
    BY <1>1 DEF Submit
  <2>2. \A c \in commits : c.req \in Requests /\ c.req # r
    BY <1>0, <2>1 DEF Progress, CommitType
  <2>3. \A q \in Requests \ {r} : pc'[q] = pc[q] /\ call'[q] = call[q]
    BY <1>1, OthersUntouched DEF Others
  <2> QED
    BY <2>1, <2>2, <2>3 DEF EntryKept, Audited
<1>2. ASSUME NEW r \in Requests, Serve(r), NEW c \in commits'
      PROVE  /\ c.op = call'[c.req].op
             /\ c.op \in {"transition", "delete"} /\ pc'[c.req] \in {"reread", "done"} => Audited(c.req)'
  <2>1. UNCHANGED call /\ audit \subseteq audit'
    BY <1>2, Flow, LogsGrow
  <2>2. CASE c \notin commits
    BY <1>2, <2>2, WritesLeadToAudit
  <2>3. CASE c \in commits /\ c.req # r
    <3>1. c.req \in Requests /\ pc'[c.req] = pc[c.req]
      BY <1>0, <1>2, <2>3, OthersUntouched DEF Others, CommitType
    <3> QED
      BY <2>1, <2>3, <3>1 DEF EntryKept, Audited
  <2>4. CASE c \in commits /\ c.req = r
    <3>1. pc[r] \in {"audit", "reread"} /\ c.op = call[r].op
      <4>1. pc[r] \notin {"idle", "start", "write"} /\ c.op = call[r].op
        BY <2>4 DEF Progress, EntryKept
      <4>2. pc[r] \notin {"idle", "done"} /\ pc[r] \in PcType
        BY <1>0, <1>2, Flow DEF RequestsTyped
      <4> QED
        BY <4>1, <4>2 DEF PcType
    <3>2. pc[r] = "reread" /\ c.op \in {"transition", "delete"} => Audited(r)'
      BY <2>1, <2>4 DEF EntryKept, Audited
    <3> QED
      BY <1>2, <2>1, <2>4, <3>1, <3>2, EntryWritten
  <2> QED
    BY <2>2, <2>3, <2>4
<1>3. CASE UNCHANGED vars
    BY <1>3 DEF vars, EntryKept, Audited
<1> QED
    BY <1>1, <1>2, <1>3 DEF Next, Crash, EntryKept

(* Where no statement fails and the server runs on, a status change whose  *)
(* request has ended is in the log.                                        *)
THEOREM EveryStatusChangeAudited ==
    ASSUME Lookahead = 0, ~ MayFail
    PROVE  Spec => []StatusChangesAudited
<1>1. Init => EntryKept
    BY DEF Init, EntryKept
<1>2. IInv /\ EntryKept /\ [Next]_vars => EntryKept'
    BY EntryKeptStep DEF IInv
<1>3. EntryKept => StatusChangesAudited
    BY DEF EntryKept, StatusChangesAudited
<1> QED
    BY <1>1, <1>2, <1>3, IInvAlways, PTL DEF Spec

-----------------------------------------------------------------------------
(* The refinement: each statement is a step of VersionedRecords or leaves  *)
(* the table alone.                                                        *)
LEMMA StepSimulates ==
    ASSUME IInv, [Next]_vars
    PROVE  [Atomic!Next]_rows
<1>0. /\ TypeInv /\ VersionOrder /\ TableTyped /\ RequestsTyped /\ InputOK /\ SnapOK
      /\ \A r \in Requests : /\ call[r].key \in Records /\ call[r] \in CallType
                             /\ snap[r] \in RowType /\ Row(r) \in RowType
    BY DEF IInv, TypeInv, TypeOK, TableTyped, RequestsTyped, CallType, Row
<1>1. ASSUME NEW r \in Requests, InsertRecord(r), ~ UNCHANGED rows
      PROVE  Atomic!Next
  <2>1. /\ rows[call[r].key] = Atomic!Absent /\ call[r].fields \in Fields
        /\ rows' = [rows EXCEPT ![call[r].key] = Atomic!Fresh(InitialStatus, call[r].fields)]
    BY <1>0, <1>1 DEF InsertRecord, Row, Refused, Absent, Fresh, Atomic!Absent, Atomic!Fresh, CallType
  <2> QED
    BY <1>0, <2>1 DEF Atomic!Next, Atomic!Insert
<1>2. ASSUME NEW r \in Requests, WriteUpdate(r), ~ UNCHANGED rows
      PROVE  Atomic!Next
  <2>1. /\ pc[r] = "write" /\ call[r].op = "update" /\ Matches(r)
        /\ StoreUpdate(r, snap[r].status, call[r].fields)
    BY <1>2 DEF WriteUpdate
  <2>2. snap[r].status = Row(r).status /\ call[r].fields \in Fields
    BY <1>0, <2>1, UpToDate DEF Versioned, InputOK, Refused, CallType
  <2>3. rows' = [rows EXCEPT ![call[r].key].fields = call[r].fields, ![call[r].key].version = @ + 1]
    BY <1>0, <2>1, <2>2 DEF StoreUpdate, Matches, Row, RowType, TableTyped
  <2> QED
    BY <1>0, <2>1, <2>2, <2>3 DEF Atomic!Next, Atomic!Edit, Atomic!Live, Matches, Live
<1>3. ASSUME NEW r \in Requests, WriteTransition(r), ~ UNCHANGED rows
      PROVE  Atomic!Next
  <2>1. /\ pc[r] = "write" /\ call[r].op = "transition" /\ Matches(r)
        /\ StoreUpdate(r, call[r].target, snap[r].fields)
    BY <1>3 DEF WriteTransition
  <2>2. /\ snap[r].status = Row(r).status /\ snap[r].fields = Row(r).fields
        /\ call[r].target \in Statuses /\ call[r].target \in Graph[Row(r).status]
    BY <1>0, <2>1, UpToDate DEF Versioned, SnapOK, EdgeAllowed, CallType
  <2>3. rows' = [rows EXCEPT ![call[r].key].status = call[r].target, ![call[r].key].version = @ + 1]
    BY <1>0, <2>1, <2>2 DEF StoreUpdate, Matches, Row, RowType, TableTyped
  <2>4. Atomic!Move(call[r].key, call[r].target)
    BY <2>1, <2>2, <2>3 DEF Atomic!Move, Atomic!Live, Matches, Live, Row
  <2>5. call[r].key \in Records
    BY <1>0, <2>1 DEF CallType
  <2> QED
    BY <2>2, <2>4, <2>5 DEF Atomic!Next
<1>4. ASSUME NEW r \in Requests, SoftDelete(r), ~ UNCHANGED rows
      PROVE  Atomic!Next
    BY <1>0, <1>4 DEF SoftDelete, Live, Atomic!Next, Atomic!Remove, Atomic!Live
<1>5. ASSUME NEW r \in Requests, Submit(r) \/ Serve(r), ~ UNCHANGED rows
      PROVE  Atomic!Next
    BY <1>1, <1>2, <1>3, <1>4, <1>5 DEF Submit, Serve, AuditCreate, LoadForUpdate, AuditUpdate,
       LoadForTransition, AuditTransition, LoadForDelete, AuditDelete, Reread, StatementFails
<1> QED
    BY <1>5 DEF Next, Crash, vars

(* Separate read, check, compare-and-set and audit statements make up a    *)
(* table whose every change is one indivisible step of VersionedRecords:   *)
(* no edit brings back an old status, and every status change follows the  *)
(* graph from the status the record really had.                            *)
THEOREM Refinement == ASSUME Lookahead = 0 PROVE Spec => ImplementsVersionedRecords
<1>1. Init => Atomic!Init
    BY DEF Init, Absent, Fresh, Atomic!Init, Atomic!Absent, Atomic!Fresh
<1>2. IInv /\ [Next]_vars => [Atomic!Next]_rows
    BY StepSimulates
<1> QED
    BY <1>1, <1>2, IInvAlways, PTL DEF Spec, ImplementsVersionedRecords, Atomic!Spec

(* A live record's status changes along an edge of the graph from the      *)
(* status it really had, when clients send back versions they were given;  *)
(* with versions they guessed it need not (see the pipelined writes).      *)
THEOREM StatusesFollowGraph == ASSUME Lookahead = 0 PROVE Spec => StatusFollowsGraph
<1> DEFINE Follows == \A k \in Records : Live(k) /\ rows'[k].status # rows[k].status
                                           => EdgeAllowed(rows[k].status, rows'[k].status)
<1>1. ASSUME IInv, Atomic!Next
      PROVE  Follows
  <2> SUFFICES ASSUME NEW k \in Records, Live(k), rows'[k].status # rows[k].status
               PROVE  EdgeAllowed(rows[k].status, rows'[k].status)
    OBVIOUS
  <2>0. rows \in [Records -> RowType]
    BY <1>1 DEF IInv, TypeInv, TypeOK, TableTyped
  <2>1. PICK j \in Records : \/ \E f \in Fields : Atomic!Insert(j, f) \/ Atomic!Edit(j, f)
                             \/ \E s \in Statuses : Atomic!Move(j, s)
                             \/ Atomic!Remove(j)
    BY <1>1 DEF Atomic!Next
  <2>2. ASSUME NEW f \in Fields, Atomic!Insert(j, f)
        PROVE  FALSE
    <3>1. j # k
      BY <2>2 DEF Atomic!Insert, Atomic!Absent, Live
    <3> QED
      BY <2>0, <2>2, <3>1 DEF Atomic!Insert
  <2>3. ASSUME NEW f \in Fields, Atomic!Edit(j, f)
        PROVE  FALSE
    <3>1. rows'[k].status = rows[k].status
      <4>1. CASE j = k
        BY <2>0, <2>3, <4>1 DEF Atomic!Edit, RowType
      <4>2. CASE j # k
        BY <2>0, <2>3, <4>2 DEF Atomic!Edit
      <4> QED
        BY <4>1, <4>2
    <3> QED
      BY <3>1
  <2>4. CASE Atomic!Remove(j)
    BY <2>0, <2>4 DEF Atomic!Remove, RowType
  <2>5. ASSUME NEW s \in Statuses, Atomic!Move(j, s)
        PROVE  EdgeAllowed(rows[k].status, rows'[k].status)
    <3>1. j = k
      BY <2>0, <2>5 DEF Atomic!Move
    <3>2. rows'[k].status = s /\ s \in Graph[rows[k].status]
      BY <2>0, <2>5, <3>1 DEF Atomic!Move, RowType
    <3> QED
      BY <3>2 DEF EdgeAllowed
  <2> QED
    BY <2>1, <2>2, <2>3, <2>4, <2>5
<1>2. UNCHANGED rows => Follows
    OBVIOUS
<1>3. IInv /\ [Next]_vars => [Follows]_vars
    BY <1>1, <1>2, StepSimulates
<1> QED
    BY <1>3, IInvAlways, PTL DEF Spec, StatusFollowsGraph

=============================================================================
