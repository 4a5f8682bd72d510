# TLA+ verification of the solar inverter incident desk

This directory holds TLA+ models of the program in this repository, the TLC
runs that check them on small instances, and theorems about them that TLAPS
has checked. Source paths below are relative to the repository root; `internal/`
is `backend/internal/`.

## 1. The system

The program is a control desk for incidents at a solar plant: a Go HTTP server
(gin, gorm on PostgreSQL, optional Redis) and a React client. It keeps four
kinds of *aggregate*: solar sites, inverter units, fault events and mitigation
actions. Each is a row with a code, business fields, a status that moves along a
fixed graph, and a version.

| component | source | state it keeps | operations |
|---|---|---|---|
| aggregate services | `internal/service/{solar_site,inverter_unit,fault_event,mitigation_action}.go`, `internal/handler/*.go` | none of their own; local variables of each request | Create, Update, Transition, Delete, Get, List, StatusCounts |
| store | `internal/repository/base.go` | the four tables (soft-deleted rows stay, and keep their unique code) | Get, Create, Update (compare-and-set on version), Delete, List, CountByStatus |
| audit log | `internal/service/security.go`, `internal/repository/security.go` | append-only table of entries | Audit, ListAudits, EntityHistory, SummarizeAudits |
| login, tokens, roles | `internal/service/security.go:34`, `internal/middleware/auth.go`, `internal/router/router.go` | users; the token carries the role | Login, Authenticate, RequireRoles, RequireMinimumRole |
| lists and counts | `internal/repository/base.go:29`, `internal/handler/system.go` | none | List, CountByStatus, Overview, Audits, AuditSummary, EntityHistory |
| rate limiter | `internal/middleware/ratelimit.go` | a counter per key and minute in Redis, a bucket per key in memory | increment, incrementLocal, cleanupLocal, Status |
| start-up | `internal/database/database.go`, `cmd/server/main.go` | the tables it seeds | Open (20 attempts), migrate, Seed, shutdown |
| status graphs | `internal/constants/status.go`, `frontend/src/types/status.ts` | none | CanTransition, nextStatus |
| web workspace | `frontend/src/stores/factory.ts`, `frontend/src/components/EntityPage.tsx`, `.../common/ActionDrawer.tsx` | the list shown, loading flag, error, the pending transition and its dialogs | load, createRecord, transition, the two-step confirmation |
| paging, parsing, configuration | `internal/handler/system.go`, `internal/dto/common.go`, `internal/config/config.go` | none | clamps and conversions |

How they interact: the client keeps the version of each record in its list and
sends it back as `expectedVersion`. A request passes limiter, authentication and
role check, and then runs one service method in a goroutine of its own. The
method is a sequence of database statements, each of which commits by itself:
read the row, check, compare-and-set, append the audit entry, read the row
again. Nothing but the version column ties these statements together, and the
request's context (which ends when the client goes away) bounds all of them.

What is hard about it:

- a check is made on a row that was read some statements ago;
- the change and its audit entry are not one transaction;
- a statement may take effect although its result never arrives;
- deletion does not use the version;
- the answer's body is read after the write, and may show a later state;
- counters live in Redis or in memory, depending on whether each call succeeds;
- start-up decides by a count what to seed, and the count does not see
  soft-deleted rows while the unique index does;
- the client's requests overlap and their answers arrive in any order, also after
  the page they were made on has been left;
- a role is read from a token, not from the account, and outlives the account; a
  login issues the token from a copy that was read before the password was compared;
- an audit entry gets its time apart from the change and from its insertion, and
  the time alone orders the history;
- a list is read in pages, each of two statements, from a table sorted by a time
  that others keep changing.

What makes each part correct:

| part | properties |
|---|---|
| services and store | concurrent and repeated requests behave as indivisible steps on the record as it is; one winner per version; a reply tells the truth about the change; the status follows its graph |
| audit log | every status change is recorded, with the status it really replaced; a history is listed in the order of the requests and reads as a path |
| login and roles | whoever the log names held a sufficient role, a token's lifetime and a login's duration ago at most; the checks of server and client agree |
| lists | a walk through the pages hides no record but for those that left; a total is explained by what changed meanwhile; a change moves a record up |
| paging, configuration | clamping twice is clamping once; offsets are exact; what starts is usable |
| start-up | a server that serves has all its seeds; seeds appear only in pristine tables; servers come up whatever their starts interfere with |
| rate limiter | one ticket per increment and counter; no counter lets in more than the limit or refuses before it is reached, so that with Redis in order one limit holds for all servers |
| workspace | what is offered is allowed; what is requested was confirmed; what is shown is what happens; the page comes to rest |

## 2. Modules

| module | what it is | code |
|---|---|---|
| `StatusGraph` | the server's four graphs, initial and seed statuses, the client's lists of statuses | `internal/constants/status.go`, `frontend/src/types/status.ts` |
| `VersionedRecords` | abstract specification: a table of records changed in indivisible steps | what the services promise |
| `RecordService` | one aggregate: service, store and audit log, one action per database statement | `internal/service/*.go`, `internal/repository/base.go`, `internal/service/security.go` |
| `RecordServiceProofs` | its invariants and its refinement of `VersionedRecords`, proved | |
| `Access` | roles, ranks, what the routes demand, what a token is worth | `internal/middleware/auth.go`, `internal/router/router.go`, `internal/handler/*.go` |
| `Desk`, `DeskProofs` | `RecordService` behind its gate, with accounts, tokens, a clock, and the history read back | `internal/service/security.go`, `internal/repository/security.go`, `internal/handler/system.go` |
| `AgreementProofs` | definitions kept in several places agree: statuses and roles, of server and client | |
| `Browse`, `BrowseProofs` | a client that reads a list page by page while others write | `internal/repository/base.go:29` |
| `Paging`, `Config`, `BoundsProofs` | clamps, offsets, the configuration, and what is proved of them | `internal/handler/system.go`, `internal/dto/common.go`, `internal/config/config.go` |
| `Startup`, `StartupProofs` | servers coming up on a shared database | `cmd/server/main.go`, `internal/database/database.go` |
| `RateLimiter`, `RateLimiterProofs` | the fixed-window limiter over Redis and memory | `internal/middleware/ratelimit.go` |
| `Workspace`, `WorkspaceProofs` | a page of the client composed with `VersionedRecords` as its server | `frontend/src/components/EntityPage.tsx`, `frontend/src/stores/factory.ts` |
| `MCRecordService`, `MCDesk`, `MCBrowse`, `MCStartup`, `MCRateLimiter`, `MCWorkspace` | instances for TLC | |

The composition follows the layers: `RecordService` implements
`VersionedRecords` (refinement, by TLC and by proof), and `Workspace` uses
`VersionedRecords` (`Server == INSTANCE VersionedRecords`), so the page is checked
against every server that keeps the promise and not against the statements of
this one. `Desk` extends `RecordService` and `Access`: each of its steps is a step of
the service or leaves it alone, so what is proved of the service holds behind the
gate (`DeskImplementsService`). `Browse` extends `Paging` and cuts its pages with
the same clamps and offsets; its table implements `VersionedRecords` too (proved), so the two models
of the store agree on what a statement may do. The refinement of `RecordService` is proved for
clients that send versions they were given, and `Workspace` discharges that: `VersionsAsGiven`
is a theorem about the client the repository has. Definitions marked "Mutant" stand next to the definition they alter;
each is a plausible slip in the code, and the property it is paired with in
`PROJECT.json` fails under it.

### RecordService

The four services are the same code with other names, so there is one module
and the aggregate is chosen by constants: `Graph`, `InitialStatus`,
`SeedStatuses`, and `NeedsConfirmation` (only `mitigation_action.go` asks for
`confirmed`).

| variable | in the code |
|---|---|
| `rows` | the table; `state` is absent, live or deleted (`deleted_at`), and `fields` stands for all the business columns together |
| `audit` | the table of `model.AuditLog`; an entry is identified by its request |
| `pc`, `call`, `snap` | where the goroutine of a request is, its decoded input, and its local `current` |
| `resp`, `seen` | status of the answer and the version in its body |
| `commits` | history variable: the writes that took effect; the code has no counterpart and no action reads it |

A request is one handler run: `Submit`, then `InsertRecord, AuditCreate`, or
`LoadForUpdate, WriteUpdate, AuditUpdate, Reread`, or `LoadForTransition,
WriteTransition, AuditTransition, Reread`, or `LoadForDelete, SoftDelete,
AuditDelete`. Each action is one statement with the code up to the next
statement; validation that needs no database belongs to the action before which
it stands. `StatementFails` is a statement that returns an error without effect;
the second disjunct of `Proceed` is one that took effect and returned an error.
`Crash` ends every request in flight.

Abstractions: a code is bound to one row for ever (the unique index sees
soft-deleted rows), so records are named by their code. Requests are made once
each; a retry or a second click is another request with the same input.
`Lookahead` bounds what versions a client may send: with 0 it sends only versions
that exist, as the web client does; with 1 also the version it expects its own
unanswered request to create.

### Access and Desk

| variable | in the code |
|---|---|
| `clock` | `time.Now()` of the server |
| `account` | the table of users: a role or inactive |
| `found` | the local `user` of a login under way, with the moment at which it was read |
| `token` | the bearer token a request carries: user, role, expiry |
| `gate` | what the middleware said |
| `stamp` | `CreatedAt` of the request's audit entry |
| `held`, `arrived`, `past` | history: who had which role when; when a request was let in; who had been answered by then |

A login has two steps, because `securityService.Login` reads the row first
(`FindUser`, which finds active accounts only), then compares the password, and only then
looks at the clock and issues a token from the copy (`Login`). The account may change
in between, and nothing reads it again. `LoseLogin` is a wrong password or an answer
that does not arrive. `LoginTimeout` bounds the time between the read and the issue of a
token that does arrive: `main` sets a `WriteTimeout`, with which `net/http` puts a deadline on
the connection when the request's header has been read, so an answer later than that is
not written. `exp` is cut to whole seconds in the code, which only shortens a token. `Enter` is `Authenticate`, the route's
demand, the handler's own check and the decoding of the request (`Submit`);
`TurnAway` is 401 or 403. `Stamp` is the look at the clock in `securityService.Audit`,
`Handle` every statement of `RecordService`, the insert of a stamped entry among them.
`ChangeAccount` is not in the program: somebody with access to the database changes a
role or closes an account, which is what the `active` column and the check in `Login`
are for. A session is as many logins as it has requests, side by side. `EntityHistory` and `Above` are the query behind the history: the newest by
`created_at`, cut at the limit.

`Stamp` advances the clock: an insert takes longer than the resolution of Go's clock
and of the column, so entries of one server have different times.

### Browse

`rows` keeps of a record whether it is deleted, whether it matches the query, its
version and `updated_at`. A writer takes its time and puts its statement together in
`BuildCreate` or `BuildUpdate`, and the statement takes effect in `Insert` or `Update`;
`Delete` needs no time. The reader's page is `Count` and then `Find` of `Store.List`, and
`Slice` is what `bindPage`, `normalizePage` and the offset make of its numbers. The
reader itself, which asks for pages until one is not full, is not part of the
repository (the web client reads the first page only). `steady`, `departures` and
`drift` are history.

### Paging, Config

Operators, one per function. `Skipped` is what gorm does with an offset that is not
positive; `Wrap` is the two's complement of an int whose largest value is `MaxInt`. In
`Config` the environment gives each text variable its trimmed value and each number the
result of Go's parser; `Lower` and `Bytes` stand for library functions.

### Startup

`phase` is the place in `Open`: `open`, `ping`, `reping` are the three looks at
the database of one attempt, `count` and `insert` the two statements for
`table[s]`. Table 1 holds the users, which nothing deletes; the others are the
aggregates. A table is reduced to the codes of its live and its soft-deleted rows,
because a seed function looks at nothing else. `CreateRow` and `RemoveRow` are
the effect of Create and Delete of any serving server. Exits of the process lead
to `down`, from where the restart policy of `docker-compose.yml` starts it again.

### RateLimiter

A request goes `idle` (name the counter of this minute), `call` (Redis), perhaps
`fallback` (memory), `charged`. `increment`'s MULTI/EXEC and the section under the
mutex are one action each; the clock may tick between any two. A lost answer may
be followed by go-redis's own retry (stage stays `call`) or by the fallback.
`Swept` and `Standing` are `cleanupLocal` and the lookup after it.

### Workspace

The store's operations are `calls`: `sent` until the server has dealt with the
request, `answered` until the promise is resumed. `Reload`, `GiveUp` and `Finish`
are the code after each await, with the state changes of `finalizeTransition` and
`createDemo` in them. The dialogs are `pending`, `remoteConfirm`, `checked` and
`showCreate`; `OpenDrawer` is the effect that clears the checkbox. `Pick` is
enabled while a dialog is open, since the dialogs do not take the rest of the page
out of the tab order. `Leave` unmounts the page with its dialogs, `Return` mounts a new
one over the list the store still has; a call keeps the visit it was started in
(`started`), and `Alive` says whether the dialogs it would close are still there. `OtherUsers` changes the table in any way a user may.
`ticked`, `agreed` and `moves` are history.

## 3. What is checked

| run | instance | question |
|---|---|---|
| `record_races` | three requests on one mitigation action, no failures | do read, check, write and audit of concurrent requests amount to indivisible steps? |
| `record_faults` | three requests on one fault event, failures, lost results, crashes | is what clients are told, and what the log says, still true? |
| `desk_accountability` | two requests of one user on one site, logins in two steps, a change of the account, expiring tokens, failures, crashes, fairness | did whoever the log names have the role? does the history follow the requests and read as a path? is every change accounted for? |
| `browse` | three writers, three ids, pages of one row | what can a walk through the pages miss, and what does its total mean? |
| `startup_race` | two servers, three tables, two faults | do racing and broken-off starts seed once and completely, do all servers come up, and what holds them back for good? |
| `limiter_failover` | two servers, two keys, four requests, failing Redis | does every counter still keep its limit, and refuse nobody before? |
| `workspace_remote` | two mitigation actions, two calls, two visits, fairness | can a remote action be sent for something the box was not ticked for? does the page come to rest? |
| `workspace_race` | one site, three calls, two visits, one step of others | does the server do what the dialog showed, once? |

Properties, by module (each is stated in words where it is defined):
`ImplementsVersionedRecords`, `StatusFollowsGraph`, `OneWinner`, `AuditFaithful`, `ReplyTellsTruth`,
`ConflictHasWinner`, `ReadYourWrites`, `StatusChangesAudited`, `EventuallyAccounted`
of `RecordService`; `ActorsHeldRole`, `HistoryInOrder`, `HistoryIsAPath` of `Desk`;
`OverlookedOnlyForDepartures`, `TotalExplained`, `RecordsMoveUp` of `Browse`;
`ServingIsSeeded`, `SeedsOnlyPristineTables`, `HeldBackForGood`, `Recovers` of `Startup`;
`TicketsUnique`, `OneLimitPerStore`, `RefusedAtLimit` of `RateLimiter`;
`OfferedMovesAllowed`, `RemoteTicked`, `WhatWasShownHappens`, `OneMovePerConfirmation`,
`VersionsAsGiven`, `SpinnerEnds` of `Workspace`; and the inductive invariants `IInv` (five
of the properties of `RecordService` are conjuncts of it), `HistoryInv` (which contains
`DInv`), `BInv`, `WalkInv`, `SInv`, `RInv`, `WInv`.

Four runs show that the program does not do what its documentation says of it:

- `pipelined_writes`: with `Lookahead = 1`, an edit that was prepared on the
  version a pending transition will create reads the row before the transition
  and writes after it; its compare-and-set succeeds and brings the old status
  back, without an edge of the graph and without a word in the log. The check in
  the service is made on the row read, and `current.Version` is never compared
  with `expectedVersion`.
- `unaudited_change`: a transition whose audit statement fails, or whose client
  disconnects after the write, stays without an entry.
- `unlocked_delete`: a transition commits between the two statements of a delete;
  the deletion's entry then names a status the record no longer had.
- `emptied_table`: when every seeded row of a table has been deleted and no other
  is left, the count at the next start says zero, the insert meets the index, and the
  server never comes up again, restart after restart (`HeldBackForGood`, which is proved).

### Bounds, and why they are enough

- *One record* in `RecordService`: rows do not interact (every statement names one
  id), and the theorems hold for any number. *Three requests*: the properties
  relate at most two writes, and a third request can come between any two
  statements of the first. `record_races` uses `Fields = {f1, f2}` so that a lost
  edit would be seen; `record_faults` trades it for failures.
- `record_faults` starts from two of the three seeded statuses of a fault event
  to stay small: one has two outgoing edges, as has the other, with a status
  in common and one each that the other lacks.
- `startup_race`: two servers make every race there is between a count and an
  insert; three tables give one before, one during and one after a crash; two
  faults allow a crash and an outage, in either order. `MaxAttempts = 2` has a
  first and a last attempt, which is all that the loop of twenty tells apart.
- `limiter_failover`: `CleanupSize = 1` makes every call with a tracked key sweep, where
  the code does so from 512; two minutes (`LastMinute = 1`) give each request a
  counter it may outlive; four requests exceed the limit of one on two counters.
- `workspace_*`: one call overlaps another (two calls) or a repetition of itself
  while a list is being loaded (three); `MaxOthers` bounds the others' steps, of
  which one is enough to make any shown version stale; two visits (`MaxVisits = 2`)
  are enough for a call to outlive its page and meet another.
- `desk_accountability`: two requests, one after the other or overlapping;
  `TokenTTL = 1` and `LastMoment = 2` let a token expire before its use and just not;
  `LoginTimeout = 1` lets the account change and the clock tick between the read and the
  issue, after which the bound with `TokenTTL` alone would be false;
  one change of an account takes a role away, grants it, or closes the account;
  the standings are a role that may only read, one that may do everything, and
  inactive.
- `browse`: with three writers a row can come, another go and a third move between any
  two statements of the reader; pages of one row make three records three pages.
  `MaxInt = 127` is wide enough not to wrap there: what happens at the width is
  proved, not run.

Runs in which every request is made once end in states without a successor;
their configurations turn the deadlock check off and say so; those of the workspace do,
since a user who has left the page with all calls used up has nothing more to do.

### Fairness

- `Desk!FairDeskSpec`: weak fairness of `Stamp(r) \/ Handle(r)`: a goroutine that
  was started is scheduled, and its statements return. Users are not obliged to log
  in or to send, and nothing obliges statements to succeed.
- `Startup!FairSpec`: weak fairness of `Boot(s)`: `main` runs on, and
  `docker-compose.yml` says `restart: unless-stopped`; of `Repair(d)`: an outage
  ends. Crashes and outages are finitely many (`MaxFaults`), without which
  nothing could be promised.
- `Workspace!FairSpec`: weak fairness of `Progress(c)`: a fetch ends, with an answer
  or an error, and its promise is resumed. The user is under no obligation.

## 4. What is proved

TLAPS checks these for every value of the constants that satisfies the named
assumptions (records exist, the graph is a function on statuses, blank fields are
not valid ones, seeds exist and differ from invented codes, bounds are naturals).

| theorem | says | assumes besides |
|---|---|---|
| `TypeCorrect` | `RecordService` keeps its types; no row holds refused fields | |
| `IInvAlways`, `AtMostOneWinner`, `AuditIsFaithful`, `RepliesTellTheTruth`, `ConflictsHaveWinners`, `AnswersAreFresh` | the inductive invariant `IInv`, and the invariants of the same meaning | `Lookahead = 0` |
| `EveryStatusChangeAudited` | `StatusChangesAudited` | `Lookahead = 0`, `~ MayFail` |
| `Refinement` | `Spec => Atomic!Spec`: `RecordService` implements `VersionedRecords` | `Lookahead = 0` |
| `StatusesFollowGraph` | `StatusFollowsGraph`, which `pipelined_writes` refutes of other clients | `Lookahead = 0` |
| `DeskImplementsService` | `DeskSpec => Spec`: the service behind its gate is still the service | |
| `DeskInvariant`, `ActorsHadTheRole`, `HistoryKeepsOrder` | `DInv`, `ActorsHeldRole`, `HistoryInOrder` | |
| `HistoryInvariant`, `PagesArePaths`, `HistoriesArePaths` | `HistoryInv`; `EveryPageIsAPath`, for every limit; `HistoryIsAPath` | |
| `BrowseInvariant`, `RecordsNeverMoveDown`, `TotalsExplained` | `BInv`, `RecordsMoveUp`, `TotalExplained` | |
| `WalkInvariant`, `WalksOverlookOnlyForDepartures` | `WalkInv`, `OverlookedOnlyForDepartures` | `MaxRecords <= MaxInt` |
| `BrowseSharesTheStore` | `Browse` implements `VersionedRecords` | |
| `WorkspaceInvariant`, `WorkspaceTypeCorrect`, `RemoteActionsWereTicked`, `ShownMovesHappen`, `ConfirmedOnceMovedOnce`, `ClientSendsGivenVersions` | `WInv`, `TypeOK`, `RemoteTicked`, `WhatWasShownHappens`, `OneMovePerConfirmation`, `VersionsAsGiven` | |
| `OffersAreAllowed` | `OfferedMovesAllowed` | each step of `Order` is an edge of `Graph` |
| `ClientListsFollowServerGraphs` | that assumption, of the four lists and graphs in the code | |
| `HigherRolesMayMore`, `ButtonsFollowRoutes`, `DeletionChecksAgree` | the checks of roles agree with each other and with the client's | |
| `BoundPageIsNormal`, `ClampsAgree`, `OffsetIsExact` | a second clamp changes nothing; offsets are right up to the page `MaxInt / 100` | |
| `WhatIsRefused`, `LoadedSettingsAreUsable` | what `Validate` can still refuse after `Load`; what loaded settings satisfy | |
| `StartupTypeCorrect`, `SInvHolds`, `WhatServesIsSeeded`, `StartsLeaveDataAlone`, `EmptiedTablesHoldBack` | `TypeOK`, `SInv`, `ServingIsSeeded`, `SeedsOnlyPristineTables`, `HeldBackForGood` | |
| `LimiterTypeCorrect`, `RInvHolds`, `NoTicketTwice`, `LimitHolds` | `TypeOK`, `RInv`, `TicketsUnique`, `OneLimitPerStore` | |
| `RefusalsAreDue` | `RefusedAtLimit` | finitely many requests |

The theorems about `RecordService` cover failing statements, lost results and
crashes (`MayFail` is either), any number of requests and any status graph. The
restriction to `Lookahead = 0` is needed: `pipelined_writes` is a counterexample
without it; so is `~ MayFail` for the audit, as `unaudited_change` shows.

*RecordService.* None of the invariants is inductive. `IInv` adds what the code
relies on without saying so: `VersionOrder` (what a client has seen is no newer
than what the service then read, which is no newer than the row, and equal
versions mean equal content, so that a write that matches really overwrites
the row that was checked), `HistoryOK` (every version above the first has a
write), `InputOK` and `SnapOK` (what passed validation stays valid until it is
written) and `Progress` (where a request is says what it has done). The
refinement then maps each write to one step of `VersionedRecords`, with `IInv`
showing that the row read and the row written are the same, and every other
statement to a stutter. That a status follows its graph is then a property of the steps of
`VersionedRecords`.

*Desk.* `DInv` says that what a login has read stood in the accounts' history when it was
read (`RowsFound`), that tokens are genuine (`TokensGenuine`: user and role are those the
account had at a moment at most `LoginTimeout` before the issue; that they were so at the
issue itself would be false), that a request past the gate was let in before
its token expired and with a role that suffices, that an entry is its own request's and
stamped, and that a stamp is later than those of all requests that had ended
when its own arrived. Who did it, and the order of the history, follow without looking at
the rows at all. That a history reads as a path does need the rows. `HistoryInv` says of a
record whose requests came one by one and which lacks no entry: its entries, in the order
of their stamps, each start where the one below ended (`Continues`), and the top one
ends at the record's status (`IsTop`), unless a request owes the entry of a write it
has made (`Owes`). The proof rests on three facts: at most one request of such a record is
busy (`OneBusy`), so at most one entry is owed; a new entry is stamped after the ones
that are there, so it becomes the top (`EntriesSettled`); and no step makes the two
premises true again once they are false (`OneByOneBefore`, `CompleteBefore`). A page that
is cut off is the upper part of the path (`ShownFromTheTop`), whatever the limit.

*Browse.* `BInv` bounds the times of statements that still fit: whatever will be
written took its time no earlier than the row it fits, because the version it names
was read before. `TotalDue` counts the list between the two statements of a page. The walk
is a matter of positions: `Position(k)` is how many rows precede row k, and a row of the
page is one whose position is in the page's window, which is a statement about
cardinalities and needs no induction over a sorted list. `WalkInv` says that the steady
records above the reader's place (`Frontier`) that were not seen are at most as
many as rows left the list: a change moves a row to the top and so no other row up, only
a departure does, and one departure lifts at most one of them over the edge. Its
assumption `MaxRecords <= MaxInt` says that the ids of the table fit the integers the
offset is computed in; a bigserial and Go's int have both 64 bits. The refinement maps a
row to its state, its version and whether it matches the query; it is proved and no run repeats it.

*Workspace.* Whatever the page was shown of a record is either still true or of a
version the row has left behind (`StillTrue`, of the list, of the lists on their way,
and of everything pending or sent). So a request that matches the row's version
finds the status that was shown. Versions count from one (`RowsNumbered`, `ListsNumbered`,
`DialogsNumbered`), so what is sent is a version the record has had. A move is remembered with the version it used up
(`Served`), which no second request can match. `TickedIsShown` ties the ticked box
to what the open drawer shows.

*Startup.* `SInv` says that a table is either pristine or has all its seeds in
the index, and that the tables behind a server's position have them. The count of a
non-empty table thus implies that it is seeded, which is what makes skipping it right; and
a table with none but deleted rows has its seeds in the index, so that the insert fails
for ever (`EmptiedTablesHoldBack`).

*RateLimiter.* `RInv` says that every ticket drawn is at most the count of its
counter, or that its bucket has been left behind for a later minute. Hence the next
ticket is new; and as distinct tickets up to `Limit` are an injection into
`1 .. Limit`, no counter lets in more. For the converse, `CountersFilled` says that a
counter at N has given its tickets up to N to N requests, less the lost ones.

Only model-checked: the liveness properties (`EventuallyAccounted`, `Recovers`,
`SpinnerEnds`), which the prover cannot reach. Every invariant and every action property of
the passing runs is a theorem.

## 5. What is not modelled

- *Overview, StatusCounts, SummarizeAudits*: counts by group, each right at its own
  moment; nothing relates the figures of one answer, so there is nothing to state.
- *Restarts of the limiter*: what may fail in `RateLimiter` is each call to Redis. The
  buckets live in the memory of one process; a server that restarts begins with
  none, so the limit of its buckets holds for one life of the server.
- *Several clocks*: `Desk` has one server's clock. Servers with clocks of their own
  can list entries in another order than requests followed each other.
- *Equal times in the audit log*: the queries have no second key; see the hazards.
- *Signatures, passwords*: a token is one the server issued, a login one that
  succeeded. The client's half of the login keeps its token until it is refused.
- *Request middleware, presentation, packaging*: no behaviour over time of their own.
- In `Workspace`, the search text; in `Startup`, the second between attempts and the
  orderly part of the shutdown; in `RateLimiter`, the growth of the map.

## 6. Plan

Done, in this order: `StatusGraph`, `VersionedRecords`, `RecordService` with its
proofs; `Startup` with its proofs; `RateLimiter` with its proofs; `Workspace`, then
leaving and entering its page, and its proofs; `Access` and `Desk` with their proofs;
`Paging`, `Config` with their proofs; `Browse` with its proofs.

What remains worth doing:

1. `Desk` with several servers and clocks of their own: how far the listed order may
   be from the order of requests, in terms of how far the clocks are apart.
2. `Shutdown`: draining connections with a timeout, and the listener's error path.
3. Proofs: with those servers and clocks, how much of the order of a history is left.
