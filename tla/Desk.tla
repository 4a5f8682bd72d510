-------------------------------- MODULE Desk --------------------------------
(***************************************************************************)
(* The desk as its users see it: RecordService behind its gate, and the    *)
(* audit pages read back.  A user logs in and gets a token (Access); each  *)
(* request presents one; what it changes is logged under the token's name  *)
(* with a time taken in the server just before the entry is inserted.      *)
(* Someone with access to the database may change an account at any time:  *)
(* the code has no operation for it, but looks for `role' and `active'.    *)
(***************************************************************************)
EXTENDS RecordService, Access, FiniteSets

CONSTANTS
    Users,
    Standings,     \* what an account may be: a role, or Inactive
    LoginTimeout,  \* how long after the read a login's answer can still arrive
    MaxChanges,    \* bound on the changes of accounts
    LastMoment     \* bound on the clock's own ticks

Inactive == "inactive"

ASSUME UsersAssumption == "" \notin Users
ASSUME StandingsAssumption == Standings \subseteq STRING
ASSUME DeskBoundsAssumption == LoginTimeout \in Nat /\ MaxChanges \in Nat /\ LastMoment \in Nat

VARIABLES
    clock,     \* the server's clock
    account,   \* the table of users
    changes,   \* changes of accounts so far
    found,     \* what a login under way has read of its user, and when
    token,     \* the token each request presents
    gate,      \* what the middleware said to it
    stamp,     \* created_at of its audit entry, 0 before it is taken
    held,      \* history: who had which standing when
    arrived,   \* history: when each request passed the gate
    past       \* history: the requests that had ended by then

deskVars == <<clock, account, changes, found, token, gate, stamp, held, arrived, past>>
allVars == <<vars, deskVars>>

-----------------------------------------------------------------------------
Holds(u, standing, moment) == [user |-> u, role |-> standing, moment |-> moment]
NoRow == Holds("", "", 0)
HeldAt(moment) == {Holds(u, account'[u], moment) : u \in Users}

DeskInit ==
    /\ Init
    /\ clock = 1
    /\ account \in [Users -> Standings]
    /\ changes = 0
    /\ found = [r \in Requests |-> NoRow]
    /\ token = [r \in Requests |-> NoToken]
    /\ gate = [r \in Requests |-> "none"]
    /\ stamp = [r \in Requests |-> 0]
    /\ held = {Holds(u, account[u], 1) : u \in Users}
    /\ arrived = [r \in Requests |-> 0]
    /\ past = [r \in Requests |-> {}]

Tick ==
    /\ clock < LastMoment
    /\ clock' = clock + 1
    /\ account' = account
    /\ held' = held \cup HeldAt(clock')
    /\ UNCHANGED <<vars, changes, found, token, gate, stamp, arrived, past>>

ChangeAccount ==
    /\ changes < MaxChanges
    /\ changes' = changes + 1
    /\ \E u \in Users : \E s \in Standings \ {account[u]} : account' = [account EXCEPT ![u] = s]
    /\ held' = held \cup HeldAt(clock)
    /\ UNCHANGED <<vars, clock, found, token, gate, stamp, arrived, past>>

(* A login is for the token that one request will present; a session of    *)
(* several requests is the same as several logins side by side.            *)
LoggingIn(r) == pc[r] = "idle" /\ gate[r] = "none" /\ token[r] = NoToken

(* Mutant: the user is looked up by name alone, and `active' never read.   *)
FindAnyone(r) ==
    /\ LoggingIn(r)
    /\ found[r] = NoRow
    /\ \E u \in Users, role \in Standings \ {Inactive} :
          /\ account[u] \in {role, Inactive}
          /\ found' = [found EXCEPT ![r] = Holds(u, role, clock)]
    /\ UNCHANGED <<vars, clock, account, changes, token, gate, stamp, held, arrived, past>>

(* A login reads the row of its user, if the account is active.            *)
FindUser(r) ==
    /\ LoggingIn(r)
    /\ found[r] = NoRow
    /\ \E u \in Users : /\ account[u] # Inactive
                        /\ found' = [found EXCEPT ![r] = Holds(u, account[u], clock)]
    /\ UNCHANGED <<vars, clock, account, changes, token, gate, stamp, held, arrived, past>>

(* The server's deadline for writing an answer counts from the header of   *)
(* the request, which was read before the account.                         *)
InTime(r) == clock <= found[r].moment + LoginTimeout

(* The password has been compared, which takes its time, and the token is  *)
(* issued from the copy: `Active' is checked on it, and nothing is read    *)
(* again.  The answer is written in time.                                  *)
Login(r) ==
    /\ LoggingIn(r)
    /\ found[r] # NoRow
    /\ found[r].role # Inactive
    /\ InTime(r)
    /\ token' = [token EXCEPT ![r] = Issue(found[r].user, found[r].role, clock)]
    /\ found' = [found EXCEPT ![r] = NoRow]
    /\ UNCHANGED <<vars, clock, account, changes, gate, stamp, held, arrived, past>>

(* The password was wrong, or the answer is lost: no one has the token.    *)
LoseLogin(r) ==
    /\ LoggingIn(r)
    /\ found[r] # NoRow
    /\ found' = [found EXCEPT ![r] = NoRow]
    /\ UNCHANGED <<vars, clock, account, changes, token, gate, stamp, held, arrived, past>>

(* The middleware lets a request through to its handler.                   *)
Enter(r) ==
    /\ gate[r] = "none"
    /\ Authenticate(token[r], clock)
    /\ Submit(r)
    /\ Permitted(token[r].role, call'[r].op)
    /\ gate' = [gate EXCEPT ![r] = "passed"]
    /\ arrived' = [arrived EXCEPT ![r] = clock]
    /\ past' = [past EXCEPT ![r] = {q \in Requests : pc[q] = "done"}]
    /\ UNCHANGED <<clock, account, changes, found, token, stamp, held>>

(* Or it turns it away, and nothing else happens.                          *)
TurnAway(r) ==
    /\ pc[r] = "idle" /\ gate[r] = "none"
    /\ \/ /\ ~ Authenticate(token[r], clock)
          /\ gate' = [gate EXCEPT ![r] = "unauthorized"]
       \/ /\ Authenticate(token[r], clock)
          /\ \E op \in Ops : ~ Permitted(token[r].role, op)
          /\ gate' = [gate EXCEPT ![r] = "forbidden"]
    /\ UNCHANGED <<vars, clock, account, changes, found, token, stamp, held, arrived, past>>

(* Audit reads the clock and only then inserts; the clock is finer than    *)
(* the way to the database and back.                                       *)
Stamp(r) ==
    /\ pc[r] = "audit" /\ stamp[r] = 0
    /\ stamp' = [stamp EXCEPT ![r] = clock]
    /\ clock' = clock + 1
    /\ account' = account
    /\ held' = held \cup HeldAt(clock')
    /\ UNCHANGED <<vars, changes, found, token, gate, arrived, past>>

Handle(r) ==
    /\ pc[r] = "audit" => stamp[r] # 0
    /\ Serve(r)
    /\ UNCHANGED deskVars

(* The logins under way end with the server.                               *)
ServerStops ==
    /\ Crash
    /\ found' = [r \in Requests |-> NoRow]
    /\ UNCHANGED <<clock, account, changes, token, gate, stamp, held, arrived, past>>

DeskNext ==
    \/ Tick \/ ChangeAccount \/ ServerStops
    \/ \E r \in Requests : \/ FindUser(r) \/ Login(r) \/ LoseLogin(r)
                           \/ Enter(r) \/ TurnAway(r) \/ Stamp(r) \/ Handle(r)

DeskSpec == DeskInit /\ [][DeskNext]_allVars

(* A goroutine whose statements return keeps going; users need not call.   *)
FairDeskSpec == DeskSpec /\ \A r \in Requests : WF_allVars(Stamp(r) \/ Handle(r))

-----------------------------------------------------------------------------
(* What the audit pages show.                                              *)

Entries(k) == {a \in audit : a.key = k}

(* Mutant: the oldest entry comes first.                                   *)
AboveAscending(a, b) == stamp[a.req] < stamp[b.req]

(* ORDER BY created_at DESC.                                               *)
Above(a, b) == stamp[a.req] > stamp[b.req]

(* Mutant: the limit keeps the oldest entries.                             *)
OldestHistory(k, limit) ==
    {a \in Entries(k) : Cardinality({b \in Entries(k) : Above(a, b)}) < limit}

EntityHistory(k, limit) ==
    {a \in Entries(k) : Cardinality({b \in Entries(k) : Above(b, a)}) < limit}

-----------------------------------------------------------------------------
GateType == {"none", "passed", "unauthorized", "forbidden"}
HeldType == [user : Users, role : Standings, moment : Nat]
TokenType == [user : Users, role : Standings, issued : Nat, expires : Nat] \cup {NoToken}

DeskTypeOK ==
    /\ clock \in Nat \ {0}
    /\ account \in [Users -> Standings]
    /\ changes \in Nat
    /\ found \in [Requests -> HeldType \cup {NoRow}]
    /\ token \in [Requests -> TokenType]
    /\ gate \in [Requests -> GateType]
    /\ stamp \in [Requests -> Nat]
    /\ held \subseteq HeldType
    /\ arrived \in [Requests -> Nat]
    /\ past \in [Requests -> SUBSET Requests]

Actor(a) == token[a.req].user

(* Whoever the log names had, at a moment no longer before the request     *)
(* than a login may take and a token lasts, a role that suffices for what  *)
(* was done.  A role that is taken away, or an account that is closed,     *)
(* outlives itself by the lifetime of a token, and by the time between the *)
(* read of the account and the issue if it changes in between; no longer.  *)
ActorsHeldRole ==
    \A a \in audit :
        \E h \in held :
            /\ h.user = Actor(a)
            /\ Permitted(h.role, a.action)
            /\ h.moment <= arrived[a.req]
            /\ arrived[a.req] < h.moment + LoginTimeout + TokenTTL

Before(q, r) == pc[r] # "idle" /\ q \in past[r]

(* Entries are ordered by a time that is taken apart from the change and   *)
(* from the insertion.  Nevertheless, of two requests that did not overlap *)
(* the later one is listed above the earlier one.                          *)
HistoryInOrder ==
    \A a, b \in audit : Before(a.req, b.req) => Above(b, a)

Touches(r, k) == pc[r] # "idle" /\ call[r].key = k
OneByOne(k) ==
    \A q, r \in Requests : Touches(q, k) /\ Touches(r, k) /\ q # r => Before(q, r) \/ Before(r, q)
AtRest(k) == \A r \in Requests : Touches(r, k) => pc[r] = "done"
StatusNow(k) == IF Live(k) THEN rows[k].status ELSE DeletedMark

Complete(k) == \A c \in commits : c.key = k /\ pc[c.req] = "done" => Audited(c.req)

ReadsAsPath(k, limit) ==
    LET shown == EntityHistory(k, limit) IN
    \A a \in shown :
        \/ \E b \in shown : /\ Above(b, a) /\ b.before = a.after
                            /\ ~ \E c \in shown : Above(b, c) /\ Above(c, a)
        \/ /\ ~ \E b \in shown : Above(b, a)
           /\ AtRest(k) => a.after = StatusNow(k)

(* As long as no entry is lost, the history of a record whose requests     *)
(* came one by one reads as a path: each entry starts where the one below  *)
(* it ended, and the top one ends where the record is.                     *)
HistoryIsAPath ==
    \A k \in Records, limit \in 1 .. 2 : Complete(k) /\ OneByOne(k) => ReadsAsPath(k, limit)

=============================================================================
