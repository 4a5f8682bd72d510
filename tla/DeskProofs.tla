----------------------------- MODULE DeskProofs -----------------------------
(***************************************************************************)
(* Desk for any number of users, requests and records: every behaviour of  *)
(* it is one of RecordService; whoever the log names had the role; the     *)
(* pages list what happened one after the other in that order; and where   *)
(* no entry is lost they read as the path the record's status has taken.   *)
(***************************************************************************)
EXTENDS Desk, RecordServiceProofs, FiniteSetTheorems

-----------------------------------------------------------------------------
(* The inductive invariant: its parts, then their conjunction.             *)

(* The table of users as it is now is part of its own history.             *)
HeldNow == \A u \in Users : Holds(u, account[u], clock) \in held

(* A login holds on to what it has read.                                   *)
RowsFound ==
    \A r \in Requests : found[r] # NoRow => found[r] \in held /\ found[r].moment <= clock

(* A token says what its user's account said at a moment that was, when it *)
(* was issued, no longer ago than a login may take.                        *)
Vouches(h, t) ==
    /\ h.user = t.user /\ h.role = t.role
    /\ h.moment <= t.issued /\ t.issued <= h.moment + LoginTimeout

TokensGenuine ==
    \A r \in Requests :
        token[r] # NoToken =>
            /\ \E h \in held : Vouches(h, token[r])
            /\ token[r].expires = token[r].issued + TokenTTL
            /\ token[r].issued <= clock

(* A request is in its handler with a token that sufficed when it arrived. *)
Passed ==
    \A r \in Requests :
        pc[r] # "idle" =>
            /\ token[r] # NoToken
            /\ Permitted(token[r].role, call[r].op)
            /\ token[r].issued <= arrived[r]
            /\ arrived[r] < token[r].expires

(* An entry is its own request's, which has had it stamped.                *)
EntryOwn ==
    \A a \in audit :
        /\ a.req \in Requests
        /\ a.action = call[a.req].op
        /\ pc[a.req] # "idle"
        /\ stamp[a.req] # 0

(* A stamp is taken once, by a request that is still busy, and is later    *)
(* than every stamp before it.                                             *)
StampsInOrder ==
    \A r \in Requests :
        /\ stamp[r] < clock
        /\ pc[r] = "idle" => stamp[r] = 0
        /\ \A q \in past[r] :
              /\ pc[q] = "done"
              /\ stamp[r] # 0 => stamp[q] < stamp[r]

DInv == DeskTypeOK /\ HeldNow /\ RowsFound /\ TokensGenuine /\ Passed /\ EntryOwn /\ StampsInOrder

-----------------------------------------------------------------------------
(* What the desk adds leaves the statements of the handlers as they are.   *)
LEMMA DeskStepServes == [DeskNext]_allVars => [Next]_vars
<1>1. ASSUME NEW r \in Requests,
             FindUser(r) \/ Login(r) \/ LoseLogin(r) \/ Enter(r) \/ TurnAway(r) \/ Stamp(r) \/ Handle(r)
      PROVE  [Next]_vars
    BY <1>1 DEF FindUser, Login, LoseLogin, Enter, TurnAway, Stamp, Handle, Next
<1> QED
    BY <1>1 DEF DeskNext, Tick, ChangeAccount, ServerStops, Next, allVars

(* A desk with users, tokens and clocks is still the service: whatever is  *)
(* proved of RecordService holds behind the gate.                          *)
THEOREM DeskImplementsService == DeskSpec => Spec
<1>1. DeskInit => Init
    BY DEF DeskInit
<1> QED
    BY <1>1, DeskStepServes, PTL DEF DeskSpec, Spec

LEMMA DeskTypeAlways == DeskSpec => []TypeInv
<1>1. DeskInit => TypeInv
    BY TypeInit DEF DeskInit
<1>2. TypeInv /\ [DeskNext]_allVars => TypeInv'
    BY TypeStep, DeskStepServes
<1> QED
    BY <1>1, <1>2, PTL DEF DeskSpec

(* The entry of a statement is its own request's.                          *)
LEMMA OwnEntry ==
    ASSUME NEW r \in Requests, TypeInv, Serve(r)
    PROVE  \A a \in audit' \ audit : pc[r] = "audit" /\ a.req = r /\ a.action = call[r].op
<1>1. ASSUME NEW before, NEW after, AppendAudit(r, before, after)
      PROVE  \A a \in audit' \ audit : a.req = r /\ a.action = call[r].op
    BY <1>1 DEF AppendAudit, Entry
<1>2. CASE AuditCreate(r) \/ AuditUpdate(r) \/ AuditTransition(r) \/ AuditDelete(r)
    BY <1>1, <1>2 DEF AuditCreate, AuditUpdate, AuditTransition, AuditDelete
<1>3. CASE UNCHANGED audit
    BY <1>3
<1> QED
    BY <1>2, <1>3 DEF Serve, InsertRecord, LoadForUpdate, WriteUpdate, LoadForTransition,
       WriteTransition, LoadForDelete, SoftDelete, Reread, StatementFails

LEMMA DInvInit == DeskInit => DInv
<1> SUFFICES ASSUME DeskInit
             PROVE  DInv
    OBVIOUS
<1>1. DeskTypeOK
    BY DEF DeskInit, DeskTypeOK, HeldType, TokenType, GateType, Holds
<1>2. HeldNow /\ RowsFound /\ TokensGenuine /\ Passed /\ EntryOwn /\ StampsInOrder
    BY DEF DeskInit, Init, HeldNow, RowsFound, TokensGenuine, Passed, EntryOwn, StampsInOrder
<1> QED
    BY <1>1, <1>2 DEF DInv

(* A statement moves a request on, and touches no other.                   *)
LEMMA ServeMovesOn ==
    ASSUME NEW r \in Requests, TypeInv, Serve(r)
    PROVE  /\ UNCHANGED call
           /\ pc[r] \notin {"idle", "done"} /\ pc'[r] # "idle"
           /\ \A q \in Requests \ {r} : pc'[q] = pc[q]
<1>1. \A q \in Requests \ {r} : pc'[q] = pc[q]
    BY OthersUntouched DEF Others
<1> QED
    BY <1>1, Flow

LEMMA DeskTypeStep == ASSUME DeskTypeOK, [DeskNext]_allVars PROVE DeskTypeOK'
<1> USE DEF DeskTypeOK
<1>0. /\ clock + 1 \in Nat \ {0}
      /\ account' \in [Users -> Standings] =>
            \A c \in Nat : HeldAt(c) \subseteq HeldType
    BY DEF HeldAt, Holds, HeldType
<1>1. CASE Tick
    BY <1>0, <1>1 DEF Tick
<1>2. CASE ChangeAccount
  <2>1. account' \in [Users -> Standings] /\ clock' = clock
    BY <1>2 DEF ChangeAccount
  <2>2. held' = held \cup HeldAt(clock)
    BY <1>2 DEF ChangeAccount
  <2>3. changes' \in Nat
    BY <1>2 DEF ChangeAccount
  <2> QED
    BY <1>0, <1>2, <2>1, <2>2, <2>3 DEF ChangeAccount
<1>3. ASSUME NEW r \in Requests, Login(r)
      PROVE  DeskTypeOK'
  <2>1. found[r] \in HeldType
    BY <1>3 DEF Login
  <2>2. Issue(found[r].user, found[r].role, clock) \in TokenType
    BY <2>1, TokenAssumption DEF Issue, TokenType, HeldType
  <2>3. token' \in [Requests -> TokenType]
    BY <1>3, <2>2 DEF Login
  <2>4. found' \in [Requests -> HeldType \cup {NoRow}]
    BY <1>3 DEF Login
  <2> QED
    BY <1>3, <2>3, <2>4 DEF Login
<1>4. ASSUME NEW r \in Requests, Enter(r)
      PROVE  DeskTypeOK'
  <2>1. {q \in Requests : pc[q] = "done"} \in SUBSET Requests
    OBVIOUS
  <2>2. past' \in [Requests -> SUBSET Requests]
    BY <1>4, <2>1 DEF Enter
  <2>3. gate' \in [Requests -> GateType] /\ arrived' \in [Requests -> Nat]
    BY <1>4 DEF Enter, GateType
  <2> QED
    BY <1>4, <2>2, <2>3 DEF Enter
<1>5. ASSUME NEW r \in Requests, TurnAway(r)
      PROVE  DeskTypeOK'
    BY <1>5 DEF TurnAway, GateType
<1>6. ASSUME NEW r \in Requests, Stamp(r)
      PROVE  DeskTypeOK'
    BY <1>0, <1>6 DEF Stamp
<1>7. ASSUME NEW r \in Requests, FindUser(r)
      PROVE  DeskTypeOK'
  <2>1. PICK u \in Users : found' = [found EXCEPT ![r] = Holds(u, account[u], clock)]
    BY <1>7 DEF FindUser
  <2>2. Holds(u, account[u], clock) \in HeldType
    BY DEF Holds, HeldType
  <2>3. found' \in [Requests -> HeldType \cup {NoRow}]
    BY <2>1, <2>2
  <2> QED
    BY <1>7, <2>3 DEF FindUser
<1>8. ASSUME NEW r \in Requests, LoseLogin(r)
      PROVE  DeskTypeOK'
    BY <1>8 DEF LoseLogin
<1>9. CASE ServerStops
    BY <1>9 DEF ServerStops
<1>10. CASE UNCHANGED deskVars
    BY <1>10 DEF deskVars
<1> QED
    BY <1>1, <1>2, <1>3, <1>4, <1>5, <1>6, <1>7, <1>8, <1>9, <1>10 DEF DeskNext, Handle, allVars

LEMMA HeldStep ==
    ASSUME DeskTypeOK, HeldNow, [DeskNext]_allVars
    PROVE  HeldNow' /\ held \subseteq held' /\ clock' >= clock /\ clock' \in Nat /\ clock \in Nat
<1> USE DEF DeskTypeOK, HeldNow
<1>1. CASE Tick
    BY <1>1 DEF Tick, HeldAt
<1>2. CASE ChangeAccount
    BY <1>2 DEF ChangeAccount, HeldAt
<1>3. CASE \E r \in Requests : Stamp(r)
    BY <1>3 DEF Stamp, HeldAt
<1>4. CASE UNCHANGED <<clock, account, held>>
    BY <1>4
<1> QED
    BY <1>1, <1>2, <1>3, <1>4 DEF DeskNext, FindUser, Login, LoseLogin, Enter, TurnAway, Handle, ServerStops, deskVars, allVars

LEMMA FoundStep ==
    ASSUME DeskTypeOK, HeldNow, RowsFound, [DeskNext]_allVars
    PROVE  RowsFound'
<1>0. held \subseteq held' /\ clock' >= clock /\ clock' \in Nat /\ clock \in Nat
    BY HeldStep
<1>1. \A r \in Requests : found[r] # NoRow => found[r].moment \in Nat
    BY DEF DeskTypeOK, HeldType
<1>2. ASSUME NEW r \in Requests, FindUser(r)
      PROVE  RowsFound'
  <2>1. PICK u \in Users : found' = [found EXCEPT ![r] = Holds(u, account[u], clock)]
    BY <1>2 DEF FindUser
  <2>2. Holds(u, account[u], clock) \in held /\ Holds(u, account[u], clock).moment = clock
    BY DEF HeldNow, Holds
  <2>3. UNCHANGED <<held, clock>>
    BY <1>2 DEF FindUser
  <2>4. /\ found'[r] = Holds(u, account[u], clock)
        /\ \A q \in Requests \ {r} : found'[q] = found[q]
    BY <2>1 DEF DeskTypeOK
  <2> QED
    BY <1>0, <2>2, <2>3, <2>4 DEF RowsFound
<1>3. ASSUME \A r \in Requests : found'[r] \in {found[r], NoRow}
      PROVE  RowsFound'
    BY <1>0, <1>1, <1>3 DEF RowsFound
<1>4. ASSUME NEW r \in Requests, Login(r) \/ LoseLogin(r)
      PROVE  RowsFound'
    BY <1>3, <1>4 DEF Login, LoseLogin, DeskTypeOK
<1>5. CASE ServerStops
    BY <1>3, <1>5 DEF ServerStops
<1>6. CASE UNCHANGED found
    BY <1>3, <1>6
<1> QED
    BY <1>2, <1>4, <1>5, <1>6 DEF DeskNext, Tick, ChangeAccount, Enter, TurnAway, Stamp, Handle, deskVars, allVars

LEMMA TokensStep ==
    ASSUME DeskTypeOK, HeldNow, RowsFound, TokensGenuine, [DeskNext]_allVars
    PROVE  TokensGenuine'
<1>0. held \subseteq held' /\ clock' >= clock /\ clock' \in Nat /\ clock \in Nat
    BY HeldStep
<1>1. ASSUME NEW r \in Requests, Login(r)
      PROVE  TokensGenuine'
  <2>1. /\ token'[r] = Issue(found[r].user, found[r].role, clock)
        /\ \A q \in Requests \ {r} : token'[q] = token[q]
    BY <1>1 DEF Login, DeskTypeOK
  <2>2. UNCHANGED <<held, clock>>
    BY <1>1 DEF Login
  <2>3. found[r] \in held /\ found[r].moment <= clock /\ clock <= found[r].moment + LoginTimeout
    BY <1>1 DEF Login, InTime, RowsFound
  <2>4. Vouches(found[r], token'[r])
    BY <2>1, <2>3 DEF Vouches, Issue
  <2>5. token'[r].expires = token'[r].issued + TokenTTL /\ token'[r].issued = clock
    BY <2>1 DEF Issue
  <2> QED
    BY <1>0, <2>1, <2>2, <2>3, <2>4, <2>5 DEF TokensGenuine
<1>2. CASE UNCHANGED token
  <2>1. \A r \in Requests : token[r] # NoToken => token[r].issued \in Nat
    BY DEF DeskTypeOK, TokenType
  <2> QED
    BY <1>0, <1>2, <2>1 DEF TokensGenuine
<1> QED
    BY <1>1, <1>2 DEF DeskNext, Tick, ChangeAccount, FindUser, LoseLogin, Enter, TurnAway, Stamp, Handle, ServerStops, deskVars, allVars

LEMMA PassedStep ==
    ASSUME TypeInv, DeskTypeOK, TokensGenuine, Passed, [DeskNext]_allVars
    PROVE  Passed'
<1>0. RequestsTyped
    BY DEF TypeInv, TypeOK
<1>1. ASSUME NEW r \in Requests, Login(r)
      PROVE  Passed'
    BY <1>0, <1>1 DEF Login, LoggingIn, Passed, vars, DeskTypeOK
<1>2. ASSUME NEW r \in Requests, Enter(r)
      PROVE  Passed'
  <2>1. /\ token[r].user # "" /\ clock < token[r].expires
        /\ Permitted(token[r].role, call'[r].op)
        /\ UNCHANGED token /\ arrived'[r] = clock
    BY <1>2 DEF Enter, Authenticate, DeskTypeOK
  <2>2. token[r] # NoToken /\ token[r].issued <= clock
    <3>1. NoToken.user = ""
      BY DEF NoToken
    <3>2. token[r] # NoToken
      BY <2>1, <3>1
    <3> QED
      BY <3>2 DEF TokensGenuine
  <2>3. \A q \in Requests \ {r} : pc'[q] = pc[q] /\ call'[q] = call[q] /\ arrived'[q] = arrived[q]
    BY <1>0, <1>2 DEF Enter, Submit, RequestsTyped, DeskTypeOK
  <2> QED
    BY <2>1, <2>2, <2>3 DEF Passed
<1>3. ASSUME NEW r \in Requests, Handle(r)
      PROVE  Passed'
  <2>1. /\ UNCHANGED <<call, token, arrived>>
        /\ \A q \in Requests : pc'[q] # "idle" => pc[q] # "idle"
    BY <1>3, ServeMovesOn DEF Handle, deskVars
  <2> QED
    BY <2>1 DEF Passed
<1>4. CASE ServerStops
    BY <1>0, <1>4 DEF ServerStops, Crash, InFlight, Passed, RequestsTyped
<1>5. CASE UNCHANGED <<vars, token, arrived>>
    BY <1>5 DEF Passed, vars
<1> QED
    BY <1>1, <1>2, <1>3, <1>4, <1>5 DEF DeskNext, Tick, ChangeAccount, FindUser, LoseLogin, TurnAway, Stamp, deskVars, allVars

LEMMA EntryStep ==
    ASSUME TypeInv, DeskTypeOK, EntryOwn, [DeskNext]_allVars
    PROVE  EntryOwn'
<1>0. RequestsTyped
    BY DEF TypeInv, TypeOK
<1>1. ASSUME NEW r \in Requests, Handle(r), NEW a \in audit'
      PROVE  /\ a.req \in Requests /\ a.action = call'[a.req].op
             /\ pc'[a.req] # "idle" /\ stamp'[a.req] # 0
  <2>1. Serve(r) /\ UNCHANGED <<call, stamp>> /\ (pc[r] = "audit" => stamp[r] # 0)
    BY <1>1, ServeMovesOn DEF Handle, deskVars
  <2>2. \A q \in Requests : pc[q] # "idle" => pc'[q] # "idle"
    BY <2>1, ServeMovesOn
  <2>3. pc'[r] # "idle"
    BY <2>1, ServeMovesOn
  <2>4. CASE a \in audit
    BY <2>1, <2>2, <2>4 DEF EntryOwn
  <2>5. CASE a \notin audit
    BY <2>1, <2>3, <2>5, OwnEntry
  <2> QED
    BY <2>4, <2>5
<1>2. ASSUME NEW r \in Requests, Enter(r)
      PROVE  EntryOwn'
    BY <1>0, <1>2 DEF Enter, Submit, RequestsTyped, EntryOwn
<1>3. ASSUME NEW r \in Requests, Stamp(r)
      PROVE  EntryOwn'
    BY <1>3 DEF Stamp, vars, EntryOwn, DeskTypeOK
<1>4. CASE ServerStops
    BY <1>0, <1>4 DEF ServerStops, Crash, InFlight, EntryOwn, RequestsTyped
<1>5. CASE UNCHANGED <<vars, stamp>>
    BY <1>5 DEF EntryOwn, vars
<1> QED
    BY <1>1, <1>2, <1>3, <1>4, <1>5
    DEF EntryOwn, DeskNext, Tick, ChangeAccount, FindUser, Login, LoseLogin, TurnAway, deskVars, allVars

LEMMA StampsStep ==
    ASSUME TypeInv, DeskTypeOK, StampsInOrder, [DeskNext]_allVars
    PROVE  StampsInOrder'
<1>0. RequestsTyped /\ clock \in Nat /\ stamp \in [Requests -> Nat] /\ past \in [Requests -> SUBSET Requests]
    BY DEF TypeInv, TypeOK, DeskTypeOK
<1>1. ASSUME NEW r \in Requests, Enter(r)
      PROVE  StampsInOrder'
  <2>1. /\ UNCHANGED <<clock, stamp>> /\ stamp[r] = 0 /\ pc[r] = "idle"
        /\ past'[r] = {q \in Requests : pc[q] = "done"}
        /\ \A q \in Requests \ {r} : past'[q] = past[q]
        /\ pc' = [pc EXCEPT ![r] = "start"]
    BY <1>0, <1>1 DEF Enter, Submit, StampsInOrder
  <2>2. \A q \in Requests : pc[q] = "done" => pc'[q] = "done"
    BY <1>0, <2>1 DEF RequestsTyped
  <2>3. \A q \in Requests : pc'[q] = "idle" => pc[q] = "idle"
    BY <1>0, <2>1 DEF RequestsTyped
  <2>4. \A p \in Requests : \A q \in past'[p] : q \in Requests /\ pc'[q] = "done" /\ (stamp[p] # 0 => stamp[q] < stamp[p])
    BY <1>0, <2>1, <2>2 DEF StampsInOrder
  <2> QED
    BY <1>0, <2>1, <2>3, <2>4 DEF StampsInOrder
<1>2. ASSUME NEW r \in Requests, Stamp(r)
      PROVE  StampsInOrder'
  <2>1. /\ UNCHANGED <<pc, past>> /\ clock' = clock + 1 /\ pc[r] = "audit"
        /\ stamp' = [stamp EXCEPT ![r] = clock]
    BY <1>2 DEF Stamp, vars
  <2>2. \A q \in Requests : r \notin past[q]
    BY <2>1 DEF StampsInOrder
  <2> QED
    BY <1>0, <2>1, <2>2 DEF StampsInOrder
<1>3. ASSUME UNCHANGED <<stamp, past>>, clock' >= clock, clock' \in Nat,
             \A q \in Requests : /\ pc[q] = "done" => pc'[q] = "done"
                                 /\ pc'[q] = "idle" => pc[q] = "idle"
      PROVE  StampsInOrder'
    BY <1>0, <1>3 DEF StampsInOrder
<1>4. ASSUME NEW r \in Requests, Handle(r)
      PROVE  StampsInOrder'
  <2>1. UNCHANGED <<stamp, past, clock>> /\ Serve(r)
    BY <1>4 DEF Handle, deskVars
  <2>2. \A q \in Requests : /\ pc[q] = "done" => pc'[q] = "done"
                            /\ pc'[q] = "idle" => pc[q] = "idle"
    BY <2>1, ServeMovesOn
  <2> QED
    BY <1>0, <1>3, <2>1, <2>2
<1>5. CASE ServerStops
    BY <1>0, <1>3, <1>5 DEF ServerStops, Crash, InFlight, RequestsTyped
<1>6. CASE UNCHANGED <<vars, stamp, past>> /\ clock' >= clock /\ clock' \in Nat
    BY <1>3, <1>6 DEF vars
<1> QED
    BY <1>0, <1>1, <1>2, <1>4, <1>5, <1>6
    DEF DeskNext, Tick, ChangeAccount, FindUser, Login, LoseLogin, TurnAway, deskVars, allVars

(* The invariant is inductive, beside the types of the service's data.     *)
THEOREM DeskInvariant == DeskSpec => []DInv
<1>1. TypeInv /\ DInv /\ [DeskNext]_allVars => DInv'
    BY DeskTypeStep, HeldStep, FoundStep, TokensStep, PassedStep, EntryStep, StampsStep DEF DInv
<1> QED
    BY <1>1, DInvInit, DeskTypeAlways, PTL DEF DeskSpec

(* Whoever the audit log names had, within the time of a login and the     *)
(* lifetime of a token before the request, a role that suffices for what   *)
(* was done, however accounts change in the meantime.                      *)
THEOREM ActorsHadTheRole == DeskSpec => []ActorsHeldRole
<1>1. DInv => ActorsHeldRole
  <2> SUFFICES ASSUME DInv, NEW a \in audit
               PROVE  \E h \in held : /\ h.user = Actor(a) /\ Permitted(h.role, a.action)
                                      /\ h.moment <= arrived[a.req]
                                      /\ arrived[a.req] < h.moment + LoginTimeout + TokenTTL
    BY DEF ActorsHeldRole
  <2> DEFINE t == token[a.req]
  <2>1. a.req \in Requests /\ a.action = call[a.req].op /\ pc[a.req] # "idle"
    BY DEF DInv, EntryOwn
  <2>2. t # NoToken /\ Permitted(t.role, a.action) /\ t.issued <= arrived[a.req] /\ arrived[a.req] < t.expires
    BY <2>1 DEF DInv, Passed
  <2>3. (\E h \in held : Vouches(h, t)) /\ t.expires = t.issued + TokenTTL
    BY <2>1, <2>2 DEF DInv, TokensGenuine
  <2>4. PICK h \in held : Vouches(h, t)
    BY <2>3
  <2>5. h.user = Actor(a) /\ h.role = t.role /\ h.moment <= t.issued /\ t.issued <= h.moment + LoginTimeout
    BY <2>4 DEF Vouches, Actor
  <2>6. t.issued \in Nat /\ arrived[a.req] \in Nat /\ h.moment \in Nat
    BY <2>1, <2>2 DEF DInv, DeskTypeOK, TokenType, HeldType
  <2>7. LoginTimeout \in Nat /\ TokenTTL \in Nat
    BY DeskBoundsAssumption, TokenAssumption
  <2> HIDE DEF t
  <2>8. h.moment <= arrived[a.req] /\ arrived[a.req] < h.moment + LoginTimeout + TokenTTL
    BY <2>2, <2>3, <2>5, <2>6, <2>7
  <2> QED
    BY <2>2, <2>5, <2>8
<1> QED
    BY <1>1, DeskInvariant, PTL

(* Of two requests that did not overlap the later one's entry is listed    *)
(* above the earlier one's.                                                *)
THEOREM HistoryKeepsOrder == DeskSpec => []HistoryInOrder
<1>1. DInv => HistoryInOrder
    BY DEF DInv, DeskTypeOK, EntryOwn, StampsInOrder, HistoryInOrder, Before, Above
<1> QED
    BY <1>1, DeskInvariant, PTL

-----------------------------------------------------------------------------
(* The path.  What the entry of a request will say, by what it has read.   *)
BeforeOf(r) == IF call[r].op = "create" THEN NoStatus ELSE snap[r].status
AfterOf(r) ==
    CASE call[r].op = "create" -> InitialStatus
      [] call[r].op = "transition" -> call[r].target
      [] call[r].op = "delete" -> DeletedMark
      [] OTHER -> snap[r].status

(* Its write took effect and its entry is due.                             *)
Owes(r, k) == Touches(r, k) /\ pc[r] = "audit"

(* Entries are of requests that changed a record which is there.           *)
EntriesSettled ==
    /\ IsFiniteSet(audit)
    /\ \A a \in audit : a.key = call[a.req].key /\ rows[a.key].state # "absent"
    /\ \A r \in Requests :
          /\ pc[r] \in {"idle", "start", "write", "audit"} => ~ Audited(r)
          /\ pc[r] = "audit" => /\ rows[call[r].key].state # "absent"
                                /\ \E c \in commits : c.req = r /\ c.key = call[r].key

IsTop(a, k) == ~ \E b \in Entries(k) : Above(b, a)
Continues(b, a, k) ==
    /\ Above(b, a) /\ b.before = a.after
    /\ ~ \E c \in Entries(k) : Above(b, c) /\ Above(c, a)

(* Nothing comes between the read, the write and the entry of a request:   *)
(* each entry is followed by one that starts where it ended; the top one   *)
(* ended where the record is, or was before the change whose entry is due. *)
Path(k) ==
    /\ \A a \in Entries(k) :
          \/ \E b \in Entries(k) : Continues(b, a, k)
          \/ /\ IsTop(a, k)
             /\ (\A r \in Requests : ~ Owes(r, k)) => a.after = StatusNow(k)
             /\ \A r \in Requests : Owes(r, k) => a.after = BeforeOf(r)
    /\ \A r \in Requests :
          /\ Touches(r, k) /\ pc[r] = "write" => snap[r] = rows[k]
          /\ Owes(r, k) => /\ StatusNow(k) = AfterOf(r)
                           /\ call[r].op = "create" => Entries(k) = {}

PathsKept == \A k \in Records : OneByOne(k) /\ Complete(k) => Path(k)

HistoryInv == DInv /\ EntriesSettled /\ PathsKept

(* What a request at its entry writes, and what it leaves alone.           *)
LEMMA EntrySays ==
    ASSUME NEW r \in Requests, TypeInv, Serve(r), pc[r] = "audit"
    PROVE  /\ UNCHANGED <<rows, commits>> /\ pc'[r] \in {"reread", "done"}
           /\ \/ audit' = audit \cup {Entry(r, BeforeOf(r), AfterOf(r))}
              \/ audit' = audit /\ (pc'[r] = "reread" => call[r].op = "update")
<1>0. RequestsTyped
    BY DEF TypeInv, TypeOK
<1>1. CASE AuditCreate(r)
    BY <1>0, <1>1 DEF AuditCreate, AppendAudit, Reply, RequestsTyped, BeforeOf, AfterOf
<1>2. CASE AuditUpdate(r)
    BY <1>0, <1>2 DEF AuditUpdate, AppendAudit, Advance, RequestsTyped, BeforeOf, AfterOf
<1>3. CASE AuditTransition(r)
    BY <1>0, <1>3 DEF AuditTransition, AppendAudit, Proceed, Reply, Advance, RequestsTyped, BeforeOf, AfterOf
<1>4. CASE AuditDelete(r)
    BY <1>0, <1>4 DEF AuditDelete, AppendAudit, Reply, RequestsTyped, BeforeOf, AfterOf
<1>5. CASE StatementFails(r)
    BY <1>0, <1>5 DEF StatementFails, Reply, RequestsTyped
<1> QED
    BY <1>1, <1>2, <1>3, <1>4, <1>5 DEF Serve, InsertRecord, LoadForUpdate, WriteUpdate, LoadForTransition,
       WriteTransition, LoadForDelete, SoftDelete, Reread

(* A write leaves the record as its entry will say, and found it so if the *)
(* row that was read was still the record's.                               *)
LEMMA WriteSays ==
    ASSUME NEW r \in Requests, TypeInv, Serve(r), pc[r] # "audit", pc'[r] = "audit"
    PROVE  LET k == call[r].key IN
           /\ audit' = audit /\ snap'[r] = snap[r] /\ \E c \in commits' : c.req = r /\ c.key = k
           /\ rows'[k].state # "absent" /\ StatusNow(k)' = AfterOf(r)
           /\ IF call[r].op = "create" THEN rows[k].state = "absent" ELSE pc[r] = "write" /\ (snap[r] = rows[k] => StatusNow(k) = BeforeOf(r))
<1>0. /\ TableTyped /\ RequestsTyped /\ UNCHANGED call /\ pc[r] \in {"start", "write"} /\ snap'[r] = snap[r]
      /\ call[r].key \in Records
    BY Flow DEF TypeInv, TypeOK, RequestsTyped, CallType
<1>1. ASSUME NEW from, NEW to, NEW version, Commit(r, from, to, version)
      PROVE  \E c \in commits' : c.req = r /\ c.key = call[r].key
  <2> DEFINE c == [req |-> r, key |-> call[r].key, op |-> call[r].op,
                   from |-> from, to |-> to, version |-> version]
  <2>1. c \in commits' /\ c.req = r /\ c.key = call[r].key
    BY <1>1 DEF Commit
  <2> QED
    BY <2>1
<1>2. CASE InsertRecord(r)
  <2>1. /\ call[r].op = "create" /\ Commit(r, NoStatus, InitialStatus, 1) /\ UNCHANGED audit
        /\ Row(r) = Absent /\ rows' = [rows EXCEPT ![call[r].key] = Fresh(InitialStatus, call[r].fields)]
    BY <1>0, <1>2 DEF InsertRecord, Reply, RequestsTyped
  <2>2. rows[call[r].key].state = "absent"
    BY <2>1 DEF Row, Absent
  <2>3. rows'[call[r].key].state = "live" /\ rows'[call[r].key].status = InitialStatus
    <3>1. rows'[call[r].key] = Fresh(InitialStatus, call[r].fields)
      BY <1>0, <2>1 DEF TableTyped
    <3> QED
      BY <3>1 DEF Fresh
  <2>4. StatusNow(call[r].key)' = InitialStatus /\ AfterOf(r) = InitialStatus
    BY <1>0, <2>1, <2>3 DEF StatusNow, Live, AfterOf
  <2>5. \E c \in commits' : c.req = r /\ c.key = call[r].key
    BY <1>1, <2>1
  <2> QED
    BY <1>0, <2>1, <2>2, <2>3, <2>4, <2>5
<1>3. CASE WriteUpdate(r)
  <2>1. /\ call[r].op = "update" /\ Matches(r) /\ Commit(r, Row(r).status, snap[r].status, call[r].expected + 1)
        /\ StoreUpdate(r, snap[r].status, call[r].fields) /\ UNCHANGED audit /\ pc[r] = "write"
    BY <1>0, <1>3 DEF WriteUpdate, Reply, RequestsTyped
  <2>2. rows'[call[r].key].state = "live" /\ rows'[call[r].key].status = snap[r].status
    BY <1>0, <2>1 DEF StoreUpdate, TableTyped, Matches, Live, Row
  <2> QED
    BY <1>0, <1>1, <2>1, <2>2 DEF Matches, Row, StatusNow, Live, BeforeOf, AfterOf
<1>4. CASE WriteTransition(r)
  <2>1. /\ call[r].op = "transition" /\ Matches(r) /\ UNCHANGED audit /\ pc[r] = "write"
        /\ Commit(r, Row(r).status, call[r].target, call[r].expected + 1)
        /\ StoreUpdate(r, call[r].target, snap[r].fields)
    BY <1>0, <1>4 DEF WriteTransition, Reply, RequestsTyped
  <2>2. rows'[call[r].key].state = "live" /\ rows'[call[r].key].status = call[r].target
    BY <1>0, <2>1 DEF StoreUpdate, TableTyped, Matches, Live, Row
  <2> QED
    BY <1>0, <1>1, <2>1, <2>2 DEF Matches, Row, StatusNow, Live, BeforeOf, AfterOf
<1>5. CASE SoftDelete(r)
  <2>1. /\ call[r].op = "delete" /\ Live(call[r].key) /\ UNCHANGED audit /\ pc[r] = "write"
        /\ Commit(r, Row(r).status, DeletedMark, Row(r).version)
        /\ rows' = [rows EXCEPT ![call[r].key].state = "deleted"]
    BY <1>0, <1>5 DEF SoftDelete, Reply, RequestsTyped
  <2>2. rows'[call[r].key].state = "deleted"
    BY <1>0, <2>1 DEF TableTyped, RowType
  <2> QED
    BY <1>0, <1>1, <2>1, <2>2 DEF Row, StatusNow, Live, BeforeOf, AfterOf
<1>6. CASE LoadForUpdate(r) \/ LoadForTransition(r) \/ LoadForDelete(r)
    BY <1>0, <1>6 DEF LoadForUpdate, LoadForTransition, LoadForDelete, Reply, Advance, RequestsTyped
<1>7. CASE AuditCreate(r) \/ AuditUpdate(r) \/ AuditTransition(r) \/ AuditDelete(r)
    BY <1>7 DEF AuditCreate, AuditUpdate, AuditTransition, AuditDelete
<1>8. CASE Reread(r) \/ StatementFails(r)
    BY <1>0, <1>8 DEF Reread, StatementFails, Reply, RequestsTyped
<1> QED
    BY <1>2, <1>3, <1>4, <1>5, <1>6, <1>7, <1>8 DEF Serve

(* Only a request at its entry writes one, and it is about its record.     *)
LEMMA EntriesGrow ==
    ASSUME NEW r \in Requests, TypeInv, Serve(r)
    PROVE  \/ audit' = audit
           \/ pc[r] = "audit" /\ audit' = audit \cup {Entry(r, BeforeOf(r), AfterOf(r))}
<1>1. CASE pc[r] = "audit"
    BY <1>1, EntrySays
<1>2. CASE pc[r] # "audit"
    BY <1>2, OwnEntry, LogsGrow
<1> QED
    BY <1>1, <1>2

(* A row that is there stays there.                                        *)
LEMMA RowsStay ==
    ASSUME NEW r \in Requests, TypeInv, Serve(r), NEW k \in Records, rows[k].state # "absent"
    PROVE  rows'[k].state # "absent"
<1>1. CASE UNCHANGED rows
    BY <1>1
<1>2. CASE Writes(r)
    BY <1>2 DEF Writes, TypeInv, TypeOK, TableTyped
<1> QED
    BY <1>1, <1>2, TableStep

LEMMA SettledStep ==
    ASSUME TypeInv, EntryOwn, EntriesSettled, [DeskNext]_allVars
    PROVE  EntriesSettled'
<1>0. TableTyped /\ RequestsTyped
    BY DEF TypeInv, TypeOK
<1>1. ASSUME NEW r \in Requests, Enter(r)
      PROVE  EntriesSettled'
  <2>1. /\ UNCHANGED <<rows, audit, commits>> /\ pc[r] = "idle" /\ pc'[r] = "start"
        /\ \A q \in Requests \ {r} : pc'[q] = pc[q] /\ call'[q] = call[q]
    BY <1>0, <1>1 DEF Enter, Submit, RequestsTyped
  <2>2. \A a \in audit : a.req \in Requests \ {r}
    BY <2>1 DEF EntryOwn
  <2> QED
    BY <2>1, <2>2 DEF EntriesSettled, Audited
<1>2. ASSUME NEW r \in Requests, Handle(r)
      PROVE  EntriesSettled'
  <2>1. /\ Serve(r) /\ UNCHANGED call /\ pc[r] # "idle" /\ pc[r] # "done"
        /\ \A q \in Requests \ {r} : pc'[q] = pc[q]
    BY <1>2, ServeMovesOn DEF Handle
  <2>2. \A k \in Records : rows[k].state # "absent" => rows'[k].state # "absent"
    BY <2>1, RowsStay
  <2>3. call[r].key \in Records /\ \A a \in audit : a.key \in Records
    BY DEF TypeInv, TypeOK, RequestsTyped, CallType, LogTyped, AuditType
  <2>4. commits \subseteq commits' /\ audit \subseteq audit' /\ \A a \in audit' \ audit : a.req = r
    BY <2>1, LogsGrow
  <2>5. IsFiniteSet(audit')
    BY <2>1, EntriesGrow, FS_AddElement DEF EntriesSettled
  <2>6. \A a \in audit' : a.key = call[a.req].key /\ rows'[a.key].state # "absent"
    BY <2>1, <2>2, <2>3, EntriesGrow DEF EntriesSettled, Entry
  <2>7. ASSUME NEW q \in Requests \ {r}
        PROVE  /\ pc'[q] \in {"idle", "start", "write", "audit"} => ~ Audited(q)'
               /\ pc'[q] = "audit" => /\ rows'[call'[q].key].state # "absent"
                                     /\ \E c \in commits' : c.req = q /\ c.key = call'[q].key
    <3>1. call[q].key \in Records
      BY DEF TypeInv, TypeOK, RequestsTyped, CallType
    <3> QED
      BY <2>1, <2>2, <2>4, <3>1 DEF EntriesSettled, Audited
  <2>8. pc'[r] \in {"idle", "start", "write", "audit"} => ~ Audited(r)'
    BY <2>1, <2>4, EntriesGrow, EntrySays, Flow DEF EntriesSettled, Audited
  <2>9. pc'[r] = "audit" => /\ rows'[call'[r].key].state # "absent"
                           /\ \E c \in commits' : c.req = r /\ c.key = call'[r].key
    BY <2>1, WriteSays, EntrySays
  <2> QED
    BY <2>1, <2>5, <2>6, <2>7, <2>8, <2>9 DEF EntriesSettled, Audited
<1>3. CASE ServerStops
    BY <1>0, <1>3 DEF ServerStops, Crash, InFlight, EntriesSettled, RequestsTyped, Audited
<1>4. CASE UNCHANGED vars
    BY <1>4 DEF vars, EntriesSettled, Audited
<1> QED
    BY <1>1, <1>2, <1>3, <1>4 DEF DeskNext, Tick, ChangeAccount, FindUser, Login, LoseLogin, TurnAway, Stamp, deskVars, allVars

(* Of requests that came one by one only the last is not done.             *)
LEMMA OneBusy ==
    ASSUME StampsInOrder, NEW k \in Records, OneByOne(k), NEW r \in Requests, Touches(r, k), pc[r] # "done"
    PROVE  \A q \in Requests \ {r} : Touches(q, k) => pc[q] = "done" /\ q \in past[r]
BY DEF OneByOne, Before, Touches, StampsInOrder

(* What came one by one, and is complete, was so a step before.            *)
LEMMA OneByOneBefore ==
    ASSUME TypeInv, DeskTypeOK, [DeskNext]_allVars, NEW k \in Records, OneByOne(k)'
    PROVE  OneByOne(k)
<1>0. RequestsTyped /\ past \in [Requests -> SUBSET Requests]
    BY DEF TypeInv, TypeOK, DeskTypeOK
<1>1. \A q \in Requests : pc[q] # "idle" => pc'[q] # "idle" /\ call'[q] = call[q] /\ past'[q] = past[q]
  <2>1. ASSUME NEW r \in Requests, Enter(r)
        PROVE  \A q \in Requests : pc[q] # "idle" => pc'[q] # "idle" /\ call'[q] = call[q] /\ past'[q] = past[q]
    BY <1>0, <2>1 DEF Enter, Submit, RequestsTyped
  <2>2. ASSUME NEW r \in Requests, Handle(r)
        PROVE  \A q \in Requests : pc[q] # "idle" => pc'[q] # "idle" /\ call'[q] = call[q] /\ past'[q] = past[q]
    BY <2>2, ServeMovesOn DEF Handle, deskVars
  <2>3. CASE ServerStops
    BY <1>0, <2>3 DEF ServerStops, Crash, InFlight, RequestsTyped
  <2>4. CASE UNCHANGED <<vars, past>>
    BY <2>4 DEF vars
  <2> QED
    BY <2>1, <2>2, <2>3, <2>4 DEF DeskNext, Tick, ChangeAccount, FindUser, Login, LoseLogin, TurnAway, Stamp, deskVars, allVars
<1>2. \A q \in Requests : Touches(q, k) => Touches(q, k)'
    BY <1>1 DEF Touches
<1>3. \A p, q \in Requests : Touches(q, k) /\ Before(p, q)' => Before(p, q)
    BY <1>1 DEF Before, Touches
<1> QED
    BY <1>2, <1>3 DEF OneByOne

LEMMA CompleteBefore ==
    ASSUME TypeInv, [DeskNext]_allVars, NEW k \in Records, Complete(k)'
    PROVE  Complete(k)
<1> SUFFICES ASSUME NEW c \in commits, c.key = k, pc[c.req] = "done"
             PROVE  Audited(c.req)
    BY DEF Complete
<1>0. RequestsTyped /\ c.req \in Requests
    BY DEF TypeInv, TypeOK, LogTyped, CommitType
<1>1. ASSUME NEW r \in Requests, Enter(r)
      PROVE  Audited(c.req)
    BY <1>0, <1>1 DEF Enter, Submit, RequestsTyped, Complete, Audited
<1>2. ASSUME NEW r \in Requests, Handle(r)
      PROVE  Audited(c.req)
  <2>1. Serve(r) /\ c.req # r /\ pc'[c.req] = "done"
    BY <1>0, <1>2, ServeMovesOn DEF Handle
  <2>2. c \in commits' /\ \A a \in audit' \ audit : a.req = r
    BY <2>1, LogsGrow
  <2> QED
    BY <2>1, <2>2 DEF Complete, Audited
<1>3. CASE ServerStops
    BY <1>0, <1>3 DEF ServerStops, Crash, InFlight, RequestsTyped, Complete, Audited
<1>4. CASE UNCHANGED vars
    BY <1>4 DEF vars, Complete, Audited
<1> QED
    BY <1>1, <1>2, <1>3, <1>4 DEF DeskNext, Tick, ChangeAccount, FindUser, Login, LoseLogin, TurnAway, Stamp, deskVars, allVars

(* A step that leaves a record, its entries and what is due to it alone.   *)
LEMMA PathKept ==
    ASSUME NEW k \in Records, Path(k), rows'[k] = rows[k], Entries(k)' = Entries(k),
           \A a \in Entries(k) : stamp'[a.req] = stamp[a.req],
           \A r \in Requests : /\ Owes(r, k)' => Owes(r, k)
                               /\ Owes(r, k) => Owes(r, k)' /\ snap'[r] = snap[r] /\ call'[r] = call[r]
                               /\ Touches(r, k)' /\ pc'[r] = "write" => snap'[r] = rows'[k]
    PROVE  Path(k)'
<1>1. StatusNow(k)' = StatusNow(k)
    BY DEF StatusNow, Live
<1>2. \A r \in Requests : Owes(r, k) => BeforeOf(r)' = BeforeOf(r) /\ AfterOf(r)' = AfterOf(r)
    BY DEF BeforeOf, AfterOf
<1>3. \A a, b \in Entries(k) : Above(a, b)' <=> Above(a, b)
    BY DEF Above
<1>4. \A a \in Entries(k) : /\ IsTop(a, k)' <=> IsTop(a, k)
                            /\ \A b \in Entries(k) : Continues(b, a, k)' <=> Continues(b, a, k)
    BY <1>3 DEF IsTop, Continues
<1>5. \A r \in Requests : Owes(r, k)' <=> Owes(r, k)
    OBVIOUS
<1>6. ASSUME NEW a \in Entries(k)'
      PROVE  \/ \E b \in Entries(k)' : Continues(b, a, k)'
             \/ /\ IsTop(a, k)'
                /\ (\A r \in Requests : ~ Owes(r, k)') => a.after = StatusNow(k)'
                /\ \A r \in Requests : Owes(r, k)' => a.after = BeforeOf(r)'
    BY <1>1, <1>2, <1>4, <1>5 DEF Path
<1>7. \A r \in Requests : /\ Touches(r, k)' /\ pc'[r] = "write" => snap'[r] = rows'[k]
                          /\ Owes(r, k)' => /\ StatusNow(k)' = AfterOf(r)'
                                            /\ call'[r].op = "create" => Entries(k)' = {}
    BY <1>1, <1>2, <1>5 DEF Path
<1> QED
    BY <1>6, <1>7 DEF Path

(* A statement for a record whose history reads as a path.                 *)
LEMMA HandleKeepsPath ==
    ASSUME TypeInv, DInv, EntriesSettled, NEW r \in Requests, Handle(r),
           NEW k \in Records, k = call[r].key, OneByOne(k), Path(k), Complete(k)'
    PROVE  Path(k)'
<1>0. /\ Serve(r) /\ UNCHANGED <<call, stamp>> /\ (pc[r] = "audit" => stamp[r] # 0) /\ Touches(r, k)
      /\ pc[r] # "done" /\ pc'[r] # "idle" /\ stamp \in [Requests -> Nat]
      /\ \A q \in Requests \ {r} : pc'[q] = pc[q] /\ snap'[q] = snap[q]
    BY ServeMovesOn, OthersUntouched DEF Handle, deskVars, Touches, DInv, DeskTypeOK, Others
<1>1. \A q \in Requests \ {r} : Touches(q, k) => pc[q] = "done" /\ q \in past[r]
    BY <1>0, OneBusy DEF DInv
<1>2. \A q \in Requests \ {r} : ~ Owes(q, k) /\ ~ Owes(q, k)' /\ ~ (Touches(q, k)' /\ pc'[q] = "write")
    BY <1>0, <1>1 DEF Owes, Touches
<1>3. \A q \in Requests : pc'[q] = "done" /\ ~ Audited(q)' => ~ \E c \in commits' : c.req = q /\ c.key = k
    BY DEF Complete
<1>4. CASE pc[r] # "audit" /\ pc'[r] # "audit"
  <2>1. audit' = audit
    BY <1>0, <1>4, EntriesGrow
  <2>2. pc[r] \in {"start", "write", "reread"}
    BY <1>0, <1>4 DEF TypeInv, TypeOK, RequestsTyped, PcType, Touches
  <2>3. CASE UNCHANGED rows
    <3>1. pc'[r] = "write" => snap'[r] = rows'[k]
      BY <1>0, <2>3, Flow DEF Row
    <3> QED
      BY <1>0, <1>2, <1>4, <2>1, <2>3, <3>1, PathKept DEF Entries, Owes, Touches
  <2>4. CASE Writes(r)
    <3>1. pc'[r] = "done" /\ pc[r] \in {"start", "write"}
      BY <1>4, <2>4 DEF Writes
    <3>2. PICK from, to, version : Commit(r, from, to, version)
      BY <2>4 DEF Writes
    <3>3. \E c \in commits' : c.req = r /\ c.key = k
      <4> DEFINE c == [req |-> r, key |-> call[r].key, op |-> call[r].op,
                       from |-> from, to |-> to, version |-> version]
      <4>1. c \in commits' /\ c.req = r /\ c.key = k
        BY <3>2 DEF Commit
      <4> QED
        BY <4>1
    <3>4. ~ Audited(r)'
      BY <2>1, <3>1 DEF EntriesSettled, Audited
    <3> QED
      BY <1>3, <3>1, <3>3, <3>4
  <2> QED
    BY <1>0, <2>3, <2>4, TableStep
<1>5. CASE pc[r] # "audit" /\ pc'[r] = "audit"
  <2>1. /\ audit' = audit /\ snap'[r] = snap[r] /\ StatusNow(k)' = AfterOf(r)
        /\ IF call[r].op = "create" THEN rows[k].state = "absent"
           ELSE pc[r] = "write" /\ (snap[r] = rows[k] => StatusNow(k) = BeforeOf(r))
    BY <1>0, <1>5, WriteSays
  <2>2. BeforeOf(r)' = BeforeOf(r) /\ AfterOf(r)' = AfterOf(r)
    BY <1>0, <2>1 DEF BeforeOf, AfterOf
  <2>3. call[r].op = "create" => Entries(k) = {}
    BY <2>1 DEF EntriesSettled, Entries
  <2>4. call[r].op # "create" => StatusNow(k) = BeforeOf(r)
    BY <1>0, <2>1 DEF Path
  <2>5. \A q \in Requests : ~ Owes(q, k)
    BY <1>2, <1>5 DEF Owes
  <2>6. Entries(k)' = Entries(k) /\ \A a, b \in Entries(k) : Above(a, b)' <=> Above(a, b)
    BY <1>0, <2>1 DEF Entries, Above
  <2>7. \A a \in Entries(k) : \/ \E b \in Entries(k) : Continues(b, a, k)'
                              \/ IsTop(a, k)' /\ a.after = BeforeOf(r)
    BY <2>3, <2>4, <2>5, <2>6 DEF Path, Continues, IsTop
  <2>8. Owes(r, k)'
    BY <1>0, <1>5 DEF Owes, Touches
  <2>9. ASSUME NEW a \in Entries(k)'
        PROVE  \/ \E b \in Entries(k)' : Continues(b, a, k)'
               \/ /\ IsTop(a, k)'
                  /\ (\A q \in Requests : ~ Owes(q, k)') => a.after = StatusNow(k)'
                  /\ \A q \in Requests : Owes(q, k)' => a.after = BeforeOf(q)'
    BY <1>2, <2>2, <2>6, <2>7, <2>8
  <2>10. ASSUME NEW q \in Requests
         PROVE  /\ Touches(q, k)' /\ pc'[q] = "write" => snap'[q] = rows'[k]
                /\ Owes(q, k)' => /\ StatusNow(k)' = AfterOf(q)'
                                  /\ call'[q].op = "create" => Entries(k)' = {}
    BY <1>0, <1>2, <1>5, <2>1, <2>2, <2>3, <2>6
  <2> QED
    BY <2>9, <2>10 DEF Path
<1>6. CASE pc[r] = "audit"
  <2>1. /\ UNCHANGED <<rows, commits>> /\ pc'[r] \in {"reread", "done"}
        /\ \/ audit' = audit \cup {Entry(r, BeforeOf(r), AfterOf(r))}
           \/ audit' = audit /\ (pc'[r] = "reread" => call[r].op = "update")
    BY <1>0, <1>6, EntrySays
  <2>2. /\ Owes(r, k) /\ StatusNow(k) = AfterOf(r) /\ (call[r].op = "create" => Entries(k) = {})
        /\ \A a \in Entries(k) : (\E b \in Entries(k) : Continues(b, a, k))
                                 \/ (IsTop(a, k) /\ a.after = BeforeOf(r))
    BY <1>0, <1>6 DEF Owes, Path
  <2>3. StatusNow(k)' = AfterOf(r)
    BY <2>1, <2>2 DEF StatusNow, Live
  <2>4. \A q \in Requests : ~ Owes(q, k)' /\ ~ (Touches(q, k)' /\ pc'[q] = "write")
    BY <1>2, <2>1 DEF Owes
  <2>5. ASSUME \A a \in Entries(k)' : \/ \E b \in Entries(k)' : Continues(b, a, k)'
                                      \/ IsTop(a, k)' /\ a.after = StatusNow(k)'
        PROVE  Path(k)'
    BY <2>4, <2>5 DEF Path
  <2>6. CASE audit' = audit
    <3>1. pc'[r] = "reread" /\ call[r].op = "update"
      <4>1. (\E c \in commits' : c.req = r /\ c.key = k) /\ ~ Audited(r)'
        BY <1>0, <1>6, <2>1, <2>6 DEF EntriesSettled, Audited
      <4>2. pc'[r] # "done"
        BY <1>3, <4>1
      <4>3. Entry(r, BeforeOf(r), AfterOf(r)).req = r
        BY DEF Entry
      <4> QED
        BY <2>1, <2>6, <4>1, <4>2, <4>3 DEF Audited
    <3>2. AfterOf(r) = BeforeOf(r)
      BY <3>1 DEF AfterOf, BeforeOf
    <3>3. Entries(k)' = Entries(k) /\ \A a, b \in Entries(k) : Above(a, b)' <=> Above(a, b)
      BY <1>0, <2>6 DEF Entries, Above
    <3>4. \A a \in Entries(k)' : \/ \E b \in Entries(k)' : Continues(b, a, k)'
                                 \/ IsTop(a, k)' /\ a.after = StatusNow(k)'
      BY <2>2, <2>3, <3>2, <3>3 DEF Continues, IsTop
    <3> QED
      BY <2>5, <3>4
  <2>7. CASE audit' = audit \cup {Entry(r, BeforeOf(r), AfterOf(r))}
    <3>0. PICK e : e = Entry(r, BeforeOf(r), AfterOf(r))
      OBVIOUS
    <3>1. e.req = r /\ e.key = k /\ e.before = BeforeOf(r) /\ e.after = AfterOf(r)
      BY <3>0 DEF Entry
    <3>2. Entries(k)' = Entries(k) \cup {e}
      BY <2>7, <3>0, <3>1 DEF Entries
    <3>3. \A a \in Entries(k) : Above(e, a) /\ ~ Above(a, e)
      <4> SUFFICES ASSUME NEW a \in Entries(k)
                   PROVE  Above(e, a) /\ ~ Above(a, e)
        OBVIOUS
      <4>1. a.req \in Requests /\ a.req # r /\ Touches(a.req, k)
        BY <1>6 DEF Entries, EntriesSettled, Audited, DInv, EntryOwn, Touches
      <4>2. stamp[a.req] < stamp[r] /\ stamp[a.req] \in Nat /\ stamp[r] \in Nat
        BY <1>0, <1>1, <1>6, <4>1 DEF DInv, StampsInOrder
      <4> QED
        BY <3>1, <4>2 DEF Above
    <3>4. \A a, b \in Entries(k)' : Above(a, b)' <=> Above(a, b)
      BY <1>0 DEF Above
    <3>5. ~ Above(e, e)
      BY <1>0, <3>1 DEF Above
    <3>6. IsTop(e, k)' /\ e.after = StatusNow(k)'
      BY <2>3, <3>1, <3>2, <3>3, <3>4, <3>5 DEF IsTop
    <3>7. ASSUME NEW a \in Entries(k)
          PROVE  \E b \in Entries(k)' : Continues(b, a, k)'
      <4>1. ASSUME NEW b \in Entries(k), Continues(b, a, k)
            PROVE  Continues(b, a, k)'
        BY <3>2, <3>3, <3>4, <4>1 DEF Continues
      <4>2. ASSUME IsTop(a, k), a.after = BeforeOf(r)
            PROVE  Continues(e, a, k)'
        BY <3>1, <3>2, <3>3, <3>4, <3>5, <4>2 DEF Continues, IsTop
      <4> QED
        BY <2>2, <3>2, <4>1, <4>2
    <3> QED
      BY <2>5, <3>2, <3>6, <3>7
  <2> QED
    BY <2>1, <2>6, <2>7
<1> QED
    BY <1>4, <1>5, <1>6

LEMMA PathsStep ==
    ASSUME TypeInv, DInv, EntriesSettled, PathsKept, [DeskNext]_allVars
    PROVE  PathsKept'
<1> SUFFICES ASSUME NEW k \in Records, OneByOne(k)', Complete(k)'
             PROVE  Path(k)'
    BY DEF PathsKept
<1>0. /\ RequestsTyped /\ TableTyped /\ stamp \in [Requests -> Nat]
      /\ \A r \in Requests : call[r].key \in Records
      /\ \A a \in audit : a.req \in Requests /\ pc[a.req] # "idle" /\ stamp[a.req] # 0
    BY DEF TypeInv, TypeOK, DInv, DeskTypeOK, RequestsTyped, CallType, EntryOwn
<1>1. OneByOne(k) /\ Complete(k) /\ Path(k)
    BY OneByOneBefore, CompleteBefore DEF PathsKept, DInv
<1>2. ASSUME NEW r \in Requests, Enter(r)
      PROVE  Path(k)'
  <2>1. /\ UNCHANGED <<rows, audit, snap, stamp>> /\ pc[r] = "idle" /\ pc'[r] = "start"
        /\ \A q \in Requests \ {r} : pc'[q] = pc[q] /\ call'[q] = call[q]
    BY <1>0, <1>2 DEF Enter, Submit, RequestsTyped
  <2>2. \A q \in Requests : Touches(q, k)' /\ pc'[q] = "write" => snap'[q] = rows'[k]
    BY <1>1, <2>1 DEF Path, Touches
  <2> QED
    BY <1>1, <2>1, <2>2, PathKept DEF Entries, Owes, Touches
<1>3. ASSUME NEW r \in Requests, Handle(r)
      PROVE  Path(k)'
  <2>1. CASE k = call[r].key
    BY <1>1, <1>3, <2>1, HandleKeepsPath
  <2>2. CASE k # call[r].key
    <3>1. /\ Serve(r) /\ UNCHANGED <<call, stamp>> /\ pc[r] # "idle" /\ pc'[r] # "idle"
          /\ \A q \in Requests \ {r} : pc'[q] = pc[q] /\ snap'[q] = snap[q]
      BY <1>3, ServeMovesOn, OthersUntouched DEF Handle, deskVars, Others
    <3>2. rows'[k] = rows[k]
      BY <1>0, <2>2, <3>1, TableStep DEF Writes, TableTyped
    <3>3. Entries(k)' = Entries(k)
      BY <2>2, <3>1, EntriesGrow DEF Entries, Entry
    <3>4. \A q \in Requests : Touches(q, k)' => q # r /\ Touches(q, k)
      BY <2>2, <3>1 DEF Touches
    <3>5. \A q \in Requests : Touches(q, k)' /\ pc'[q] = "write" => snap'[q] = rows'[k]
      BY <1>1, <3>1, <3>2, <3>4 DEF Path
    <3>6. ~ Touches(r, k)
      BY <2>2 DEF Touches
    <3> QED
      BY <1>1, <3>1, <3>2, <3>3, <3>4, <3>5, <3>6, PathKept DEF Owes, Touches
  <2> QED
    BY <2>1, <2>2
<1>4. CASE ServerStops
  <2>1. /\ UNCHANGED <<rows, audit, call, commits, stamp>>
        /\ \A q \in Requests : /\ pc'[q] \in {"idle", "done"}
                               /\ pc[q] # "idle" => pc'[q] = "done"
    BY <1>0, <1>4 DEF ServerStops, Crash, InFlight
  <2>2. \A q \in Requests : ~ Owes(q, k)
    BY <2>1 DEF Owes, Touches, Complete, EntriesSettled, Audited
  <2> QED
    BY <1>1, <2>1, <2>2, PathKept DEF Entries, Owes
<1>5. ASSUME NEW r \in Requests, Stamp(r)
      PROVE  Path(k)'
  <2>1. UNCHANGED <<rows, audit, call, pc, snap>> /\ \A a \in audit : stamp'[a.req] = stamp[a.req]
    BY <1>0, <1>5 DEF Stamp, vars
  <2> QED
    BY <1>1, <2>1, PathKept DEF Entries, Owes, Touches, Path
<1>6. CASE UNCHANGED <<vars, stamp>>
    BY <1>1, <1>6, PathKept DEF vars, Entries, Owes, Touches, Path
<1> QED
    BY <1>2, <1>3, <1>4, <1>5, <1>6 DEF DeskNext, Tick, ChangeAccount, FindUser, Login, LoseLogin, TurnAway, deskVars, allVars

(* The invariant behind the path is kept by every step of the desk.        *)
THEOREM HistoryInvariant == DeskSpec => []HistoryInv
<1>1. DeskInit => EntriesSettled /\ PathsKept
  <2> SUFFICES ASSUME DeskInit
               PROVE  EntriesSettled /\ PathsKept
    OBVIOUS
  <2>1. audit = {} /\ \A r \in Requests : pc[r] = "idle"
    BY DEF DeskInit, Init
  <2> QED
    BY <2>1, FS_EmptySet DEF EntriesSettled, Audited, PathsKept, Path, Entries, Owes, Touches
<1>2. TypeInv /\ DInv /\ EntriesSettled /\ PathsKept /\ [DeskNext]_allVars => EntriesSettled' /\ PathsKept'
    BY SettledStep, PathsStep DEF DInv
<1> QED
    BY <1>1, <1>2, DeskInvariant, DeskTypeAlways, PTL DEF DeskSpec, HistoryInv

(* A page that shows an entry shows everything above it.                   *)
LEMMA ShownFromTheTop ==
    ASSUME DInv, EntriesSettled, NEW k \in Records, NEW limit \in Nat,
           NEW a \in EntityHistory(k, limit), NEW b \in Entries(k), Above(b, a)
    PROVE  b \in EntityHistory(k, limit)
<1> DEFINE Over(c) == {d \in Entries(k) : Above(d, c)}
<1>0. \A c \in audit : stamp[c.req] \in Nat
    BY DEF DInv, DeskTypeOK, EntryOwn
<1>1. Over(b) \subseteq Over(a)
    BY <1>0 DEF Above, Entries, EntityHistory
<1>2. IsFiniteSet(Over(a))
    BY FS_Subset DEF EntriesSettled, Entries
<1>3. Cardinality(Over(b)) <= Cardinality(Over(a)) /\ Cardinality(Over(b)) \in Nat /\ Cardinality(Over(a)) \in Nat
    BY <1>1, <1>2, FS_Subset, FS_CardinalityType
<1>4. Cardinality(Over(a)) < limit
    BY DEF EntityHistory
<1>5. Cardinality(Over(b)) < limit
    BY <1>3, <1>4
<1> QED
    BY <1>5 DEF EntityHistory

(* HistoryIsAPath for pages of any length.                                 *)
EveryPageIsAPath ==
    \A k \in Records, limit \in Nat : Complete(k) /\ OneByOne(k) => ReadsAsPath(k, limit)

(* As long as no entry is lost, the page of a record whose requests came   *)
(* one by one reads as a path from one status to the next, up to the       *)
(* status the record has; a page that is cut off is the upper part of it.  *)
THEOREM PagesArePaths == DeskSpec => []EveryPageIsAPath
<1>1. HistoryInv => EveryPageIsAPath
  <2> SUFFICES ASSUME HistoryInv, NEW k \in Records, NEW limit \in Nat, Complete(k), OneByOne(k),
                      NEW a \in EntityHistory(k, limit)
               PROVE  \/ \E b \in EntityHistory(k, limit) :
                            /\ Above(b, a) /\ b.before = a.after
                            /\ ~ \E c \in EntityHistory(k, limit) : Above(b, c) /\ Above(c, a)
                      \/ /\ ~ \E b \in EntityHistory(k, limit) : Above(b, a)
                         /\ AtRest(k) => a.after = StatusNow(k)
    BY DEF EveryPageIsAPath, ReadsAsPath
  <2>1. Path(k) /\ a \in Entries(k) /\ EntityHistory(k, limit) \subseteq Entries(k)
    BY DEF HistoryInv, PathsKept, EntityHistory
  <2>2. \A b \in Entries(k) : Above(b, a) => b \in EntityHistory(k, limit)
    BY ShownFromTheTop DEF HistoryInv
  <2>3. CASE \E b \in Entries(k) : Continues(b, a, k)
    BY <2>1, <2>2, <2>3 DEF Continues
  <2>4. CASE IsTop(a, k) /\ ((\A r \in Requests : ~ Owes(r, k)) => a.after = StatusNow(k))
    <3>1. AtRest(k) => \A r \in Requests : ~ Owes(r, k)
      BY DEF AtRest, Owes
    <3> QED
      BY <2>1, <2>4, <3>1 DEF IsTop
  <2> QED
    BY <2>1, <2>3, <2>4 DEF Path
<1> QED
    BY <1>1, HistoryInvariant, PTL

(* The pages that TLC looks at are among them.                             *)
THEOREM HistoriesArePaths == DeskSpec => []HistoryIsAPath
<1>1. EveryPageIsAPath => HistoryIsAPath
    BY DEF EveryPageIsAPath, HistoryIsAPath
<1> QED
    BY <1>1, PagesArePaths, PTL

=============================================================================
