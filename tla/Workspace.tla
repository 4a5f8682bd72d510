----------------------------- MODULE Workspace -----------------------------
(***************************************************************************)
(* One page of the web client (components/EntityPage.tsx, its store in     *)
(* stores/factory.ts, and the two dialogs of a remote action) together     *)
(* with the server's table, which other users change at the same time.     *)
(* The server takes part as VersionedRecords, the specification that       *)
(* RecordService implements for clients which, like this one, send back    *)
(* versions they were given.  Every await lets other events in: an action  *)
(* is one event handler or the code between two awaits.                    *)
(***************************************************************************)
EXTENDS Naturals, Sequences

CONSTANTS
    Records, Statuses, Graph, InitialStatus, SeedStatuses, Fields, Blank,
    Order,       \* the client's sequence of statuses
    IsRemote,    \* fault events and mitigation actions need both dialogs
    Calls,       \* store operations the user starts, each once
    MaxOthers,   \* bound on the steps of other users
    MaxVisits    \* bound on the visits to the page

ASSUME OrderAssumption == Order \in Seq(Statuses)
ASSUME TableAssumption ==
    Records # {} /\ InitialStatus \in Statuses /\ SeedStatuses \subseteq Statuses
ASSUME RemoteAssumption == IsRemote \in BOOLEAN /\ MaxOthers \in Nat /\ MaxVisits \in Nat

VARIABLES
    rows,          \* the server's table
    items,         \* the list shown
    loading, error,
    pending,       \* the transition the dialogs are about, as it was shown
    remoteConfirm, \* the second dialog is open
    checked,       \* its checkbox
    showCreate,    \* the dialog for a new record is open
    stage, kind, subject, then, answer, shot,  \* of each call
    started,       \* the visit during which it was started
    mounted,       \* the page is on screen; its dialogs live as long as it
    visit,         \* is, the list in the store lives on
    others,        \* steps of other users left
    ticked,        \* history: what was shown when the box was last ticked
    agreed,        \* history: `ticked' at the start of each call
    moves          \* history: the moves the server made for this client

view == <<items, loading, error>>
dialogs == <<pending, remoteConfirm, checked, showCreate>>
calls == <<stage, kind, subject, then, answer, shot, started>>
place == <<mounted, visit>>
history == <<ticked, agreed, moves>>
vars == <<rows, view, dialogs, calls, place, others, history>>

Server == INSTANCE VersionedRecords WITH table <- rows

NoItem == [shown |-> FALSE, status |-> InitialStatus, version |-> 0]
Shown(k) == [shown |-> TRUE, status |-> rows[k].status, version |-> rows[k].version]
Listing == [k \in Records |-> IF Server!Live(k) THEN Shown(k) ELSE NoItem]

Nothing == [open |-> FALSE, key |-> CHOOSE k \in Records : TRUE, from |-> InitialStatus,
            version |-> 0, target |-> InitialStatus]
Target(p) == [key |-> p.key, target |-> p.target]

(* Mutant: the list is a cycle.                                            *)
OfferedInCycle(status) ==
    {Order[(i % Len(Order)) + 1] : i \in {j \in 1 .. Len(Order) : Order[j] = status}}

(* nextStatus: the following status of the list, if there is one.          *)
Offered(status) == {Order[i + 1] : i \in {j \in 1 .. Len(Order) - 1 : Order[j] = status}}

Init ==
    /\ Server!Init
    /\ items = [k \in Records |-> NoItem]
    /\ loading = FALSE /\ error = FALSE
    /\ pending = Nothing /\ remoteConfirm = FALSE /\ checked = FALSE /\ showCreate = FALSE
    /\ stage = [c \in Calls |-> "idle"]
    /\ kind = [c \in Calls |-> "load"]
    /\ subject = [c \in Calls |-> Nothing]
    /\ then = [c \in Calls |-> "nothing"]
    /\ answer = [c \in Calls |-> "none"]
    /\ shot = [c \in Calls |-> items]
    /\ started = [c \in Calls |-> 1]
    /\ mounted = TRUE /\ visit = 1
    /\ others = MaxOthers
    /\ ticked = Target(Nothing)
    /\ agreed = [c \in Calls |-> Target(Nothing)]
    /\ moves = {}

(* A store operation sends a request: set({ loading: true, error: '' }).   *)
Send(c, operation, about, next, origin) ==
    /\ stage' = [stage EXCEPT ![c] = "sent"]
    /\ kind' = [kind EXCEPT ![c] = operation]
    /\ subject' = [subject EXCEPT ![c] = about]
    /\ then' = [then EXCEPT ![c] = next]
    /\ started' = [started EXCEPT ![c] = origin]
    /\ loading' = TRUE /\ error' = FALSE
    /\ UNCHANGED <<items, answer, shot>>

(* By the first mount, and by the buttons that query and reset.            *)
Load(c) ==
    /\ stage[c] = "idle" /\ mounted
    /\ Send(c, "load", Nothing, "nothing", visit)
    /\ UNCHANGED <<rows, dialogs, place, others, history>>

(* The user goes to another page, or logs in again: the component and its  *)
(* dialogs are gone.                                                       *)
Leave ==
    /\ mounted /\ visit < MaxVisits
    /\ mounted' = FALSE
    /\ pending' = Nothing /\ remoteConfirm' = FALSE /\ checked' = FALSE /\ showCreate' = FALSE
    /\ UNCHANGED <<rows, view, calls, visit, others, history>>

(* A new component, over the list that was left, loads it anew.            *)
Return(c) ==
    /\ stage[c] = "idle" /\ ~ mounted
    /\ mounted' = TRUE /\ visit' = visit + 1
    /\ Send(c, "load", Nothing, "nothing", visit + 1)
    /\ UNCHANGED <<rows, dialogs, others, history>>

(* Mutant: an effect on [open] alone.                                      *)
OpenDrawerOnly(open, p) ==
    checked' = IF open /\ ~ remoteConfirm THEN FALSE ELSE checked

(* The drawer's effect on [open, item.id, target] clears the checkbox.     *)
OpenDrawer(open, p) ==
    checked' = IF open /\ (~ remoteConfirm \/ Target(p) # Target(pending)) THEN FALSE ELSE checked

(* The button of a row.                                                    *)
Pick(k) ==
    /\ mounted /\ items[k].shown
    /\ \E s \in Offered(items[k].status) :
          LET p == [open |-> TRUE, key |-> k, from |-> items[k].status,
                    version |-> items[k].version, target |-> s]
          IN  pending' = p /\ OpenDrawer(remoteConfirm, p)
    /\ UNCHANGED <<rows, view, remoteConfirm, showCreate, calls, place, others, history>>

CancelDialog ==
    /\ pending.open /\ ~ remoteConfirm
    /\ pending' = Nothing
    /\ UNCHANGED <<rows, view, remoteConfirm, checked, showCreate, calls, place, others, history>>

(* The first dialog of a remote action leads to the second.                *)
AgreeDialog ==
    /\ pending.open /\ ~ remoteConfirm /\ IsRemote
    /\ remoteConfirm' = TRUE
    /\ OpenDrawer(TRUE, pending)
    /\ UNCHANGED <<rows, view, pending, showCreate, calls, place, others, history>>

CancelDrawer ==
    /\ pending.open /\ remoteConfirm
    /\ remoteConfirm' = FALSE
    /\ UNCHANGED <<rows, view, pending, checked, showCreate, calls, place, others, history>>

ToggleCheckbox ==
    /\ pending.open /\ remoteConfirm
    /\ checked' = ~ checked
    /\ ticked' = IF checked THEN ticked ELSE Target(pending)
    /\ UNCHANGED <<rows, view, pending, remoteConfirm, showCreate, calls, place, others, agreed, moves>>

(* Mutant: the version is taken from the list as it is by now.             *)
RequestWithNewest(p) == [p EXCEPT !.version = items[p.key].version]

(* The request carries what the dialog shows.                              *)
Request(p) == p

(* finalizeTransition; nothing keeps the button from being used again      *)
(* until the answer closes the dialog.                                     *)
Execute(c) ==
    /\ stage[c] = "idle"
    /\ pending.open
    /\ IsRemote => remoteConfirm /\ checked
    /\ Send(c, "transition", Request(pending), "close dialogs", visit)
    /\ agreed' = [agreed EXCEPT ![c] = ticked]
    /\ UNCHANGED <<rows, dialogs, place, others, ticked, moves>>

OpenCreate ==
    /\ mounted /\ ~ showCreate
    /\ showCreate' = TRUE
    /\ UNCHANGED <<rows, view, pending, remoteConfirm, checked, calls, place, others, history>>

CancelCreate ==
    /\ showCreate
    /\ showCreate' = FALSE
    /\ UNCHANGED <<rows, view, pending, remoteConfirm, checked, calls, place, others, history>>

CreateDemo(c) ==
    /\ stage[c] = "idle"
    /\ showCreate
    /\ Send(c, "create", Nothing, "close create", visit)
    /\ UNCHANGED <<rows, dialogs, place, others, history>>

Answer(c, result) ==
    /\ stage' = [stage EXCEPT ![c] = "answered"]
    /\ answer' = [answer EXCEPT ![c] = result]
    /\ UNCHANGED <<kind, subject, then, started>>

ServeLoad(c) ==
    /\ stage[c] = "sent" /\ kind[c] = "load"
    /\ Answer(c, "ok")
    /\ shot' = [shot EXCEPT ![c] = Listing]
    /\ UNCHANGED <<rows, view, dialogs, place, others, history>>

(* Mutant: a server that moves whatever version the record has.            *)
MovesAnyVersion(p) == Server!Live(p.key) /\ p.target \in Graph[rows[p.key].status]

MovesOn(p) ==
    /\ Server!Live(p.key)
    /\ p.target \in Graph[rows[p.key].status]
    /\ rows[p.key].version = p.version

ServeTransition(c) ==
    LET p == subject[c] IN
    /\ stage[c] = "sent" /\ kind[c] = "transition"
    /\ \/ /\ MovesOn(p)
          /\ Server!Move(p.key, p.target)
          /\ moves' = moves \cup {[call |-> c, key |-> p.key, from |-> rows[p.key].status,
                                   to |-> p.target]}
          /\ Answer(c, "ok")
       \/ ~ MovesOn(p) /\ Answer(c, "refused") /\ UNCHANGED <<rows, moves>>
    /\ UNCHANGED <<view, dialogs, shot, place, others, ticked, agreed>>

(* The code is made from the time of day and may be taken.                 *)
ServeCreate(c) ==
    /\ stage[c] = "sent" /\ kind[c] = "create"
    /\ \/ \E k \in Records, f \in Fields : Server!Insert(k, f) /\ Answer(c, "ok")
       \/ Answer(c, "refused") /\ UNCHANGED rows
    /\ UNCHANGED <<view, dialogs, shot, place, others, history>>

(* The request does not reach the server, or its answer the client.        *)
LoseCall(c) ==
    /\ stage[c] = "sent" \/ (stage[c] = "answered" /\ answer[c] # "refused")
    /\ answer[c] # "lost"
    /\ Answer(c, "lost")
    /\ UNCHANGED <<rows, view, dialogs, shot, place, others, history>>

(* After its request has succeeded, an operation loads the list again.     *)
Reload(c) ==
    /\ stage[c] = "answered" /\ kind[c] # "load" /\ answer[c] = "ok"
    /\ Send(c, "load", subject[c], then[c], started[c])
    /\ UNCHANGED <<rows, dialogs, place, others, history>>

(* What awaited a call can only change the dialogs of its own component.   *)
Alive(c) == mounted /\ started[c] = visit

(* Its failure reaches finalizeTransition, which closes the drawer only.   *)
GiveUp(c) ==
    /\ stage[c] = "answered" /\ kind[c] # "load" /\ answer[c] # "ok"
    /\ stage' = [stage EXCEPT ![c] = "done"]
    /\ error' = TRUE /\ loading' = FALSE
    /\ remoteConfirm' = (remoteConfirm /\ (kind[c] = "create" \/ ~ Alive(c)))
    /\ UNCHANGED <<rows, items, pending, checked, showCreate, kind, subject, then, answer, shot,
                   started, place, others, history>>

(* Mutant: one of the two states is not reset.                             *)
ClosePendingOnly(next) ==
    /\ pending' = IF next = "close dialogs" THEN Nothing ELSE pending
    /\ showCreate' = (next # "close create" /\ showCreate)
    /\ UNCHANGED <<remoteConfirm, checked>>

CloseDialogs(next) ==
    /\ pending' = IF next = "close dialogs" THEN Nothing ELSE pending
    /\ remoteConfirm' = (next # "close dialogs" /\ remoteConfirm)
    /\ showCreate' = (next # "close create" /\ showCreate)
    /\ UNCHANGED checked

(* Mutant: an error path of load that leaves the spinner on.               *)
ShowAndSpin(c) ==
    /\ items' = IF answer[c] = "ok" THEN shot[c] ELSE items
    /\ error' = IF answer[c] = "ok" THEN error ELSE TRUE
    /\ loading' = (answer[c] # "ok")

Show(c) ==
    /\ items' = IF answer[c] = "ok" THEN shot[c] ELSE items
    /\ error' = IF answer[c] = "ok" THEN error ELSE TRUE
    /\ loading' = FALSE

(* load never throws: whatever the list's answer, what awaited it goes on. *)
Finish(c) ==
    /\ stage[c] = "answered" /\ kind[c] = "load"
    /\ stage' = [stage EXCEPT ![c] = "done"]
    /\ Show(c)
    /\ CloseDialogs(IF Alive(c) THEN then[c] ELSE "nothing")
    /\ UNCHANGED <<rows, kind, subject, then, answer, shot, started, place, others, history>>

OtherUsers ==
    /\ others > 0 /\ others' = others - 1
    /\ Server!Next
    /\ UNCHANGED <<view, dialogs, calls, place, history>>

Click ==
    \/ CancelDialog \/ AgreeDialog \/ CancelDrawer \/ ToggleCheckbox
    \/ OpenCreate \/ CancelCreate \/ Leave
    \/ \E k \in Records : Pick(k)
    \/ \E c \in Calls : Load(c) \/ Return(c) \/ Execute(c) \/ CreateDemo(c)

Progress(c) ==
    \/ ServeLoad(c) \/ ServeTransition(c) \/ ServeCreate(c) \/ LoseCall(c)
    \/ Reload(c) \/ GiveUp(c) \/ Finish(c)

Next == OtherUsers \/ Click \/ \E c \in Calls : Progress(c)

Spec == Init /\ [][Next]_vars

(* Every request is answered or fails, and promises are resumed.           *)
FairSpec == Spec /\ \A c \in Calls : WF_vars(Progress(c))

-----------------------------------------------------------------------------
ItemType == [shown : BOOLEAN, status : Statuses, version : Nat]
PendingType == [open : BOOLEAN, key : Records, from : Statuses, version : Nat, target : Statuses]
TargetType == [key : Records, target : Statuses]

TypeOK ==
    /\ items \in [Records -> ItemType]
    /\ loading \in BOOLEAN /\ error \in BOOLEAN
    /\ remoteConfirm \in BOOLEAN /\ checked \in BOOLEAN /\ showCreate \in BOOLEAN
    /\ pending \in PendingType
    /\ remoteConfirm => pending.open
    /\ stage \in [Calls -> {"idle", "sent", "answered", "done"}]
    /\ kind \in [Calls -> {"load", "transition", "create"}]
    /\ subject \in [Calls -> PendingType]
    /\ then \in [Calls -> {"nothing", "close dialogs", "close create"}]
    /\ answer \in [Calls -> {"none", "ok", "refused", "lost"}]
    /\ shot \in [Calls -> [Records -> ItemType]]
    /\ started \in [Calls -> Nat]
    /\ mounted \in BOOLEAN /\ visit \in Nat
    /\ pending.open \/ showCreate => mounted
    /\ others \in 0 .. MaxOthers
    /\ ticked \in TargetType
    /\ agreed \in [Calls -> TargetType]
    /\ moves \subseteq [call : Calls, key : Records, from : Statuses, to : Statuses]

(* Two lists kept apart, in two languages, agree: every advance the page   *)
(* offers is one the server's graph allows from the status shown.          *)
OfferedMovesAllowed == pending.open => pending.target \in Graph[pending.from]

(* A remote action is only requested for the record and the target that    *)
(* were on screen when the user ticked the box, however dialogs were       *)
(* opened, cancelled and closed by late answers in between.                *)
RemoteTicked ==
    \A c \in Calls :
        IsRemote /\ subject[c].open => agreed[c] = Target(subject[c])

(* What the user was shown is what happens: a record moves from the very   *)
(* status the dialog named to the one it named, whatever other users did   *)
(* to the record after the list was loaded.                                *)
WhatWasShownHappens ==
    \A m \in moves :
        LET p == subject[m.call] IN m.key = p.key /\ m.from = p.from /\ m.to = p.target

(* A confirmation that is sent twice, by a second click or after an answer *)
(* was lost, moves the record once.                                        *)
OneMovePerConfirmation ==
    \A m, n \in moves : subject[m.call] = subject[n.call] => m = n

(* A confirmation names a version that the record has or has had: what the *)
(* proofs about RecordService assume of its clients, this one keeps.       *)
VersionsAsGiven ==
    \A c \in Calls :
        kind[c] = "transition" /\ stage[c] = "sent" =>
            subject[c].version \in 1 .. rows[subject[c].key].version

(* The page does not stay in its loading state.                            *)
SpinnerEnds == loading ~> ~ loading

=============================================================================
