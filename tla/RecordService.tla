---------------------------- MODULE RecordService ----------------------------
(***************************************************************************)
(* One aggregate of the incident desk: the service (service/*.go), the     *)
(* generic Store it writes through (repository/base.go) and the audit log  *)
(* it appends to (service/security.go).  The four services share this      *)
(* code; they differ in status graph, initial status and, for mitigation   *)
(* actions, a second confirmation.                                         *)
(*                                                                         *)
(* Every HTTP request runs in a goroutine of its own, and every database   *)
(* statement of a handler commits by itself, so an action below is one     *)
(* statement together with the code up to the next one.  A request's local *)
(* variables are `call' (its decoded input) and `snap' (the row it read).  *)
(***************************************************************************)
EXTENDS Naturals

CONSTANTS
    EntityType,        \* the name audit entries carry, e.g. "FaultEvent"
    Records,           \* codes; a code is bound to one row for ever
    Requests,          \* the requests of a behaviour, each served once
    Statuses, Graph, InitialStatus, SeedStatuses,
    NeedsConfirmation, \* mitigation actions only: `confirmed' must be true
    Fields, Blank,     \* business fields the service accepts / refuses
    Lookahead,         \* how far beyond a version that exists a client may
                       \* go in expectedVersion: 0 for one that only sends
                       \* back versions it was given
    MayFail            \* statements may fail, and the server may crash

ASSUME RecordsAssumption == Records # {}
ASSUME GraphAssumption ==
    /\ Graph \in [Statuses -> SUBSET Statuses]
    /\ InitialStatus \in Statuses
    /\ SeedStatuses \subseteq Statuses
ASSUME FieldsAssumption == Blank \notin Fields
ASSUME SwitchAssumption ==
    /\ NeedsConfirmation \in BOOLEAN
    /\ MayFail \in BOOLEAN
    /\ Lookahead \in Nat

VARIABLES
    rows,     \* the table, soft-deleted rows included
    audit,    \* the audit log
    pc,       \* next statement of each request
    call,     \* decoded input of each request
    snap,     \* the row each request works on
    resp,     \* what its client was answered
    seen,     \* the version in the answer's body
    commits   \* history: the writes that took effect, with the status they
              \* really replaced

vars == <<rows, audit, pc, call, snap, resp, seen, commits>>

-----------------------------------------------------------------------------

Absent == [state |-> "absent", status |-> InitialStatus, version |-> 0, fields |-> Blank]

Fresh(status, fields) ==
    [state |-> "live", status |-> status, version |-> 1, fields |-> fields]

(* gorm adds "deleted_at IS NULL" to every statement on an aggregate.      *)
Live(k) == rows[k].state = "live"

Newest(k) == IF rows[k].version = 0 THEN 1 ELSE rows[k].version

NoCall == [op |-> "none", key |-> CHOOSE k \in Records : TRUE, expected |-> 0,
           target |-> InitialStatus, fields |-> Blank, confirmed |-> FALSE]

(* The inputs a client may send now.  binding:"required" rules out         *)
(* expectedVersion = 0.                                                    *)
ExpectedVersions(k) == 1 .. Newest(k) + Lookahead

CreateInput == [op : {"create"}, key : Records, expected : {0}, target : {InitialStatus},
                fields : Fields \cup {Blank}, confirmed : {FALSE}]
UpdateInput(k) == [op : {"update"}, key : {k}, expected : ExpectedVersions(k),
                   target : {InitialStatus}, fields : Fields \cup {Blank}, confirmed : {FALSE}]
(* Only mitigation actions look at the confirmation.                       *)
Confirmations == IF NeedsConfirmation THEN BOOLEAN ELSE {FALSE}

TransitionInput(k) == [op : {"transition"}, key : {k}, expected : ExpectedVersions(k),
                       target : Statuses, fields : {Blank}, confirmed : Confirmations]
DeleteInput == [op : {"delete"}, key : Records, expected : {0}, target : {InitialStatus},
                fields : {Blank}, confirmed : {FALSE}]

Input == CreateInput \cup DeleteInput \cup
         UNION {UpdateInput(k) \cup TransitionInput(k) : k \in Records}

Row(r) == rows[call[r].key]

(***************************************************************************)
(* The end of a handler (with the code of handleError), and going on to    *)
(* the next statement with the given row in hand.                          *)
(***************************************************************************)
Reply(r, code, version) ==
    /\ pc' = [pc EXCEPT ![r] = "done"]
    /\ resp' = [resp EXCEPT ![r] = code]
    /\ seen' = [seen EXCEPT ![r] = version]
    /\ snap' = [snap EXCEPT ![r] = Absent]

Advance(r, next, item) ==
    /\ pc' = [pc EXCEPT ![r] = next]
    /\ snap' = [snap EXCEPT ![r] = item]
    /\ UNCHANGED <<resp, seen>>

(* Mutant: a statement whose outcome was lost is sent again.               *)
ProceedOrRetry(r, next) ==
    \/ Advance(r, next, snap[r])
    \/ MayFail /\ UNCHANGED <<pc, snap, resp, seen>>

(* A statement that took effect: the service goes on, or an error (a lost  *)
(* connection, a cancelled request context) reaches it in place of the     *)
(* result and it gives up.                                                 *)
Proceed(r, next) ==
    \/ Advance(r, next, snap[r])
    \/ MayFail /\ Reply(r, "internal_error", 0)

Commit(r, from, to, version) ==
    commits' = commits \cup {[req |-> r, key |-> call[r].key, op |-> call[r].op,
                              from |-> from, to |-> to, version |-> version]}

Entry(r, before, after) ==
    [req |-> r, action |-> call[r].op, type |-> EntityType, key |-> call[r].key,
     before |-> before, after |-> after]

(* What an audit entry says stood before a creation and stands after a     *)
(* deletion.                                                               *)
NoStatus == ""
DeletedMark == "deleted"

AppendAudit(r, before, after) == audit' = audit \cup {Entry(r, before, after)}

EdgeAllowed(from, to) == to \in Graph[from]

(* Mutant: an update or a creation that forgets to validate.               *)
RefusesNothing(r) == FALSE

(* validateXBusinessFields: a blank name, facility or owner.               *)
Refused(r) == call[r].fields = Blank

ConfirmationMissing(r) == NeedsConfirmation /\ ~ call[r].confirmed

-----------------------------------------------------------------------------
(* Mutants: an update by id alone; one that reaches soft-deleted rows.     *)
MatchesAnyVersion(r) == Live(call[r].key)
MatchesUnscoped(r) == Row(r).version = call[r].expected

(* WHERE id = ? AND version = ? of Store.Update.                           *)
Matches(r) == Live(call[r].key) /\ Row(r).version = call[r].expected

(* Store.Update writes every column of the item but id, code, created_at   *)
(* and deleted_at: status and business fields both come from the row that  *)
(* was read, except for what the caller changed in it.                     *)
StoreUpdate(r, status, fields) ==
    rows' = [rows EXCEPT ![call[r].key] = [state |-> @.state, status |-> status,
                                           version |-> call[r].expected + 1, fields |-> fields]]

Init ==
    /\ rows \in [Records -> {Absent} \cup {Fresh(s, f) : s \in SeedStatuses, f \in Fields}]
    /\ audit = {}
    /\ pc = [r \in Requests |-> "idle"]
    /\ call = [r \in Requests |-> NoCall]
    /\ snap = [r \in Requests |-> Absent]
    /\ resp = [r \in Requests |-> "none"]
    /\ seen = [r \in Requests |-> 0]
    /\ commits = {}

Submit(r) ==
    /\ pc[r] = "idle"
    /\ \E c \in Input : call' = [call EXCEPT ![r] = c]
    /\ pc' = [pc EXCEPT ![r] = "start"]
    /\ UNCHANGED <<rows, audit, snap, resp, seen, commits>>

InsertRecord(r) ==
    /\ pc[r] = "start" /\ call[r].op = "create"
    /\ \/ /\ Refused(r)
          /\ Reply(r, "business_rule", 0)
          /\ UNCHANGED <<rows, commits>>
       \/ /\ ~ Refused(r)
          /\ Row(r) # Absent           \* the unique index covers deleted rows
          /\ Reply(r, "internal_error", 0)
          /\ UNCHANGED <<rows, commits>>
       \/ /\ ~ Refused(r)
          /\ Row(r) = Absent
          /\ rows' = [rows EXCEPT ![call[r].key] = Fresh(InitialStatus, call[r].fields)]
          /\ Commit(r, NoStatus, InitialStatus, 1)
          /\ Proceed(r, "audit")
    /\ UNCHANGED <<audit, call>>

LoadForUpdate(r) ==
    /\ pc[r] = "start" /\ call[r].op = "update"
    /\ \/ ~ Live(call[r].key) /\ Reply(r, "not_found", 0)
       \/ /\ Live(call[r].key)
          /\ Refused(r)
          /\ Reply(r, "business_rule", 0)
       \/ /\ Live(call[r].key)
          /\ ~ Refused(r)
          /\ Advance(r, "write", Row(r))
    /\ UNCHANGED <<rows, audit, call, commits>>

WriteUpdate(r) ==
    /\ pc[r] = "write" /\ call[r].op = "update"
    /\ \/ /\ ~ Matches(r)
          /\ Reply(r, "version_conflict", 0)
          /\ UNCHANGED <<rows, commits>>
       \/ /\ Matches(r)
          /\ StoreUpdate(r, snap[r].status, call[r].fields)
          /\ Commit(r, Row(r).status, snap[r].status, call[r].expected + 1)
          /\ Proceed(r, "audit")
    /\ UNCHANGED <<audit, call>>

LoadForTransition(r) ==
    /\ pc[r] = "start" /\ call[r].op = "transition"
    /\ \/ ConfirmationMissing(r) /\ Reply(r, "business_rule", 0)
       \/ /\ ~ ConfirmationMissing(r)
          /\ ~ Live(call[r].key)
          /\ Reply(r, "not_found", 0)
       \/ /\ ~ ConfirmationMissing(r)
          /\ Live(call[r].key)
          /\ ~ EdgeAllowed(Row(r).status, call[r].target)
          /\ Reply(r, "business_rule", 0)
       \/ /\ ~ ConfirmationMissing(r)
          /\ Live(call[r].key)
          /\ EdgeAllowed(Row(r).status, call[r].target)
          /\ Advance(r, "write", Row(r))
    /\ UNCHANGED <<rows, audit, call, commits>>

(* Mutant: a transition that leaves its audit entry out.                   *)
WriteTransitionSilently(r) ==
    /\ pc[r] = "write" /\ call[r].op = "transition"
    /\ \/ /\ ~ Matches(r)
          /\ Reply(r, "version_conflict", 0)
          /\ UNCHANGED <<rows, commits>>
       \/ /\ Matches(r)
          /\ StoreUpdate(r, call[r].target, snap[r].fields)
          /\ Commit(r, Row(r).status, call[r].target, call[r].expected + 1)
          /\ Proceed(r, "reread")
    /\ UNCHANGED <<audit, call>>

WriteTransition(r) ==
    /\ pc[r] = "write" /\ call[r].op = "transition"
    /\ \/ /\ ~ Matches(r)
          /\ Reply(r, "version_conflict", 0)
          /\ UNCHANGED <<rows, commits>>
       \/ /\ Matches(r)
          /\ StoreUpdate(r, call[r].target, snap[r].fields)
          /\ Commit(r, Row(r).status, call[r].target, call[r].expected + 1)
          /\ Proceed(r, "audit")
    /\ UNCHANGED <<audit, call>>

LoadForDelete(r) ==
    /\ pc[r] = "start" /\ call[r].op = "delete"
    /\ \/ ~ Live(call[r].key) /\ Reply(r, "not_found", 0)
       \/ Live(call[r].key) /\ Advance(r, "write", Row(r))
    /\ UNCHANGED <<rows, audit, call, commits>>

(* Store.Delete names the id alone: any live version is deleted.           *)
SoftDelete(r) ==
    /\ pc[r] = "write" /\ call[r].op = "delete"
    /\ \/ /\ ~ Live(call[r].key)
          /\ Reply(r, "not_found", 0)
          /\ UNCHANGED <<rows, commits>>
       \/ /\ Live(call[r].key)
          /\ rows' = [rows EXCEPT ![call[r].key].state = "deleted"]
          /\ Commit(r, Row(r).status, DeletedMark, Row(r).version)
          /\ Proceed(r, "audit")
    /\ UNCHANGED <<audit, call>>

(* Create and Update discard the error of Audit.                           *)
AuditCreate(r) ==
    /\ pc[r] = "audit" /\ call[r].op = "create"
    /\ AppendAudit(r, NoStatus, InitialStatus) \/ (MayFail /\ audit' = audit)
    /\ Reply(r, "ok", 1)
    /\ UNCHANGED <<rows, call, commits>>

AuditUpdate(r) ==
    /\ pc[r] = "audit" /\ call[r].op = "update"
    /\ AppendAudit(r, snap[r].status, snap[r].status) \/ (MayFail /\ audit' = audit)
    /\ Advance(r, "reread", snap[r])
    /\ UNCHANGED <<rows, call, commits>>

(* Transition and Delete return it.                                        *)
AuditTransition(r) ==
    /\ pc[r] = "audit" /\ call[r].op = "transition"
    /\ AppendAudit(r, snap[r].status, call[r].target)
    /\ Proceed(r, "reread")
    /\ UNCHANGED <<rows, call, commits>>

AuditDelete(r) ==
    /\ pc[r] = "audit" /\ call[r].op = "delete"
    /\ AppendAudit(r, snap[r].status, DeletedMark)
    /\ Reply(r, "ok", 0) \/ (MayFail /\ Reply(r, "internal_error", 0))
    /\ UNCHANGED <<rows, call, commits>>

(* Mutant: the answer carries the row as it was before the write.          *)
AnswerFromMemory(r) ==
    /\ pc[r] = "reread"
    /\ Reply(r, "ok", snap[r].version)
    /\ UNCHANGED <<rows, audit, call, commits>>

(* The row in the answer is read again, after the write.                   *)
Reread(r) ==
    /\ pc[r] = "reread"
    /\ \/ Live(call[r].key) /\ Reply(r, "ok", Row(r).version)
       \/ ~ Live(call[r].key) /\ Reply(r, "not_found", 0)
    /\ UNCHANGED <<rows, audit, call, commits>>

(* A statement that fails without effect, where its error is returned.     *)
StatementFails(r) ==
    /\ MayFail
    /\ \/ pc[r] = "start" /\ ~ (call[r].op = "create" /\ Refused(r))
                          /\ ~ (call[r].op = "transition" /\ ConfirmationMissing(r))
       \/ pc[r] \in {"write", "reread"}
       \/ pc[r] = "audit" /\ call[r].op \in {"transition", "delete"}
    /\ Reply(r, "internal_error", 0)
    /\ UNCHANGED <<rows, audit, call, commits>>

InFlight(r) == pc[r] \notin {"idle", "done"}

(* The process dies (or main's shutdown timeout runs out): what was        *)
(* committed stays, the requests in flight are never answered.             *)
Crash ==
    /\ MayFail
    /\ \E r \in Requests : InFlight(r)
    /\ pc' = [r \in Requests |-> IF InFlight(r) THEN "done" ELSE pc[r]]
    /\ resp' = [r \in Requests |-> IF InFlight(r) THEN "dropped" ELSE resp[r]]
    /\ snap' = [r \in Requests |-> Absent]
    /\ UNCHANGED <<rows, audit, call, seen, commits>>

Serve(r) ==
    \/ InsertRecord(r) \/ AuditCreate(r)
    \/ LoadForUpdate(r) \/ WriteUpdate(r) \/ AuditUpdate(r)
    \/ LoadForTransition(r) \/ WriteTransition(r) \/ AuditTransition(r)
    \/ LoadForDelete(r) \/ SoftDelete(r) \/ AuditDelete(r)
    \/ Reread(r) \/ StatementFails(r)

Next == Crash \/ \E r \in Requests : Submit(r) \/ Serve(r)

Spec == Init /\ [][Next]_vars

-----------------------------------------------------------------------------
Ops == {"create", "update", "transition", "delete"}
RowType == [state : {"absent", "live", "deleted"}, status : Statuses,
            version : Nat, fields : Fields \cup {Blank}]
CallType == [op : Ops \cup {"none"}, key : Records, expected : Nat, target : Statuses,
             fields : Fields \cup {Blank}, confirmed : BOOLEAN]
CommitType == [req : Requests, key : Records, op : Ops, from : Statuses \cup {NoStatus},
               to : Statuses \cup {DeletedMark}, version : Nat \ {0}]
AuditType == [req : Requests, action : Ops, type : {EntityType}, key : Records,
              before : Statuses \cup {NoStatus}, after : Statuses \cup {DeletedMark}]

PcType == {"idle", "start", "write", "audit", "reread", "done"}
Codes == {"none", "ok", "not_found", "version_conflict", "business_rule", "internal_error", "dropped"}

TableTyped ==
    /\ rows \in [Records -> RowType]
    /\ \A k \in Records : /\ rows[k].version = 0 <=> rows[k].state = "absent"
                          /\ rows[k].version = 0 \/ rows[k].fields \in Fields
LogTyped == audit \subseteq AuditType /\ commits \subseteq CommitType
RequestsTyped ==
    /\ pc \in [Requests -> PcType]
    /\ call \in [Requests -> CallType]
    /\ snap \in [Requests -> RowType]
    /\ resp \in [Requests -> Codes]
    /\ seen \in [Requests -> Nat]

(* The variables have the types of the program's data; a row has version 0 *)
(* if and only if it was never created, and otherwise holds fields that    *)
(* passed the service's validation.                                        *)
TypeOK == TableTyped /\ LogTyped /\ RequestsTyped

Wrote(r) == \E c \in commits : c.req = r
Audited(r) == \E a \in audit : a.req = r

(* Read, check, compare-and-set and audit are separate statements, yet all *)
(* that ever happens to the table is a sequence of indivisible creations,  *)
(* edits, moves along the graph and removals of the record as it is: no    *)
(* edit undoes a concurrent status change and no status change goes        *)
(* through on a check of a status that is gone.                            *)
Atomic == INSTANCE VersionedRecords WITH table <- rows
ImplementsVersionedRecords == Atomic!Spec

(* Of the requests that were prepared on one version of a record, and of   *)
(* the duplicates of one request, at most one takes effect.                *)
OneWinner ==
    \A c, d \in commits :
        c.key = d.key /\ c.version = d.version /\ c.op # "delete" /\ d.op # "delete" => c = d

(* Whatever was read before the write, the entry of a create, an update or *)
(* a transition names the status its own write really replaced and the one *)
(* it left behind.                                                         *)
AuditFaithful ==
    \A a \in audit :
        a.action # "delete" =>
            \E c \in commits : /\ c.req = a.req /\ c.key = a.key /\ c.op = a.action
                               /\ c.from = a.before /\ c.to = a.after

(* An answer is never wrong about the change, whatever failed on the way:  *)
(* "ok" means it was made, and for a transition or a deletion also         *)
(* recorded; a conflict or a broken rule means that nothing was changed.   *)
ReplyTellsTruth ==
    \A r \in Requests :
        /\ resp[r] = "ok" => /\ Wrote(r)
                             /\ call[r].op \in {"transition", "delete"} => Audited(r)
        /\ resp[r] \in {"version_conflict", "business_rule"} => ~ Wrote(r)

(* Nobody loses to nobody: a client that sent back a version it was given  *)
(* gets a conflict only if another request advanced the record past that   *)
(* version, or deleted it.                                                 *)
ConflictHasWinner ==
    \A r \in Requests :
        resp[r] = "version_conflict" =>
            \E c \in commits : /\ c.req # r /\ c.key = call[r].key
                               /\ c.op = "delete" \/ c.version = call[r].expected + 1

(* The record in a successful answer is read after the write, and by a     *)
(* statement of its own: it is the written version or a later one.         *)
ReadYourWrites ==
    \A r \in Requests :
        resp[r] = "ok" /\ call[r].op \in {"update", "transition"} => seen[r] >= call[r].expected + 1

(* Once a request that changed a status has ended, its entry is there.     *)
StatusChangesAudited ==
    \A c \in commits : c.op \in {"transition", "delete"} /\ pc[c.req] = "done" => Audited(c.req)

(* A live record's status changes along an edge of the server's graph.     *)
StatusFollowsGraph ==
    [][\A k \in Records :
          Live(k) /\ rows'[k].status # rows[k].status
              => EdgeAllowed(rows[k].status, rows'[k].status)]_vars

(* The entry of a deletion names the status the record had when it was     *)
(* deleted.                                                                *)
DeletionAuditFaithful ==
    \A a \in audit :
        a.action = "delete" =>
            \E c \in commits : c.req = a.req /\ c.op = "delete" /\ c.from = a.before

(* A change that took effect is recorded sooner or later, or its client    *)
(* never hears that it succeeded; only creations and edits may go on       *)
(* without their entry, when it cannot be written.                         *)
EventuallyAccounted ==
    \A r \in Requests :
        Wrote(r) ~> \/ Audited(r)
                    \/ resp[r] \in {"internal_error", "dropped"}
                    \/ MayFail /\ call[r].op \in {"create", "update"} /\ pc[r] = "done"

=============================================================================
