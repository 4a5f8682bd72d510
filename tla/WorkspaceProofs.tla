-------------------------- MODULE WorkspaceProofs --------------------------
(***************************************************************************)
(* Proofs about Workspace, for every table, list, number of calls, of      *)
(* visits and of steps by other users.  The invariant says what the page   *)
(* may know: whatever it has been shown of a record is either of an        *)
(* earlier version than the server's or still true.                        *)
(***************************************************************************)
EXTENDS Workspace, TLAPS

RowType ==
    [state : {"absent", "live", "deleted"}, status : Statuses, version : Nat,
     fields : Fields \cup {Blank}]

RowsTyped == rows \in [Records -> RowType]

(* What was shown of record k as of that version has not been overtaken,   *)
(* or the version has moved on.                                            *)
StillTrue(k, version, status) ==
    \/ version < rows[k].version
    \/ version = rows[k].version /\ status = rows[k].status

ListsTrue ==
    /\ \A k \in Records : items[k].shown => StillTrue(k, items[k].version, items[k].status)
    /\ \A c \in Calls : \A k \in Records :
          shot[c][k].shown => StillTrue(k, shot[c][k].version, shot[c][k].status)

Truly(p) == p.open => StillTrue(p.key, p.version, p.from)

DialogsTrue == Truly(pending) /\ \A c \in Calls : Truly(subject[c])

(* The open second dialog with its box ticked is about what was on screen  *)
(* when the user ticked it.                                                *)
TickedIsShown == remoteConfirm /\ checked => ticked = Target(pending)

(* A call that has made its move keeps what it was about, is not at the    *)
(* server any more, and has left the version it named behind.              *)
Served(m) ==
    LET p == subject[m.call] IN
    /\ p.open /\ m.key = p.key /\ m.from = p.from /\ m.to = p.target
    /\ p.version < rows[p.key].version
    /\ stage[m.call] # "idle"
    /\ kind[m.call] = "transition" => stage[m.call] # "sent"

MovesServed ==
    /\ \A c \in Calls : kind[c] = "transition" => subject[c].open
    /\ \A m \in moves : Served(m)

(* Versions count from one, for the records and for all that was shown of  *)
(* them; only a place in the list that shows nothing has version zero.     *)
RowsNumbered == \A k \in Records : Server!Live(k) => rows[k].version # 0

ListsNumbered ==
    /\ \A k \in Records : items[k].shown => items[k].version # 0
    /\ \A c \in Calls : \A k \in Records : shot[c][k].shown => shot[c][k].version # 0

Numbered(p) == p.open => p.version # 0

DialogsNumbered == Numbered(pending) /\ \A c \in Calls : Numbered(subject[c])

WInv ==
    /\ TypeOK /\ RowsTyped
    /\ ListsTrue /\ DialogsTrue
    /\ TickedIsShown /\ RemoteTicked
    /\ MovesServed /\ OneMovePerConfirmation
    /\ RowsNumbered /\ ListsNumbered /\ DialogsNumbered

-----------------------------------------------------------------------------
(* No step takes a version back, or changes a status and not its version.  *)
Advance ==
    \A k \in Records :
        \/ rows[k].version < rows'[k].version
        \/ rows'[k].version = rows[k].version /\ rows'[k].status = rows[k].status

LEMMA AbsentTyped == Server!Absent.version = 0 /\ Server!Absent.status \in Statuses
BY TableAssumption DEF Server!Absent

LEMMA FreshTyped ==
    ASSUME NEW s \in Statuses, NEW f \in Fields
    PROVE  Server!Fresh(s, f) \in RowType /\ Server!Fresh(s, f).version = 1
BY DEF Server!Fresh, RowType

LEMMA RowMade ==
    ASSUME NEW x \in {"absent", "live", "deleted"}, NEW s \in Statuses, NEW v \in Nat,
           NEW f \in Fields \cup {Blank}
    PROVE  [state |-> x, status |-> s, version |-> v, fields |-> f] \in RowType
BY Zenon DEF RowType

LEMMA Raised ==
    ASSUME NEW r \in RowType
    PROVE  /\ \A f \in Fields : [r EXCEPT !.fields = f, !.version = r.version + 1] \in RowType
           /\ \A s \in Statuses : [r EXCEPT !.status = s, !.version = r.version + 1] \in RowType
<1>1. PICK x \in {"absent", "live", "deleted"}, t \in Statuses, v \in Nat,
           g \in Fields \cup {Blank} :
              r = [state |-> x, status |-> t, version |-> v, fields |-> g]
  BY DEF RowType
<1>2. r.version = v /\ v + 1 \in Nat BY <1>1
<1>3. ASSUME NEW f \in Fields
      PROVE [r EXCEPT !.fields = f, !.version = r.version + 1] \in RowType
  <2> DEFINE edited == [state |-> x, status |-> t, version |-> v, fields |-> f]
  <2>1. [r EXCEPT !.fields = f] = edited BY <1>1
  <2>2. [edited EXCEPT !.version = v + 1] =
            [state |-> x, status |-> t, version |-> v + 1, fields |-> f]
    OBVIOUS
  <2>3. [r EXCEPT !.fields = f, !.version = r.version + 1] =
            [state |-> x, status |-> t, version |-> v + 1, fields |-> f]
    BY <1>2, <2>1, <2>2, Zenon
  <2>4. f \in Fields \cup {Blank} OBVIOUS
  <2>. QED BY <1>2, <2>3, <2>4, RowMade
<1>4. ASSUME NEW s \in Statuses
      PROVE [r EXCEPT !.status = s, !.version = r.version + 1] \in RowType
  <2> DEFINE moved == [state |-> x, status |-> s, version |-> v, fields |-> g]
  <2>1. [r EXCEPT !.status = s] = moved BY <1>1
  <2>2. [moved EXCEPT !.version = v + 1] =
            [state |-> x, status |-> s, version |-> v + 1, fields |-> g]
    OBVIOUS
  <2>3. [r EXCEPT !.status = s, !.version = r.version + 1] =
            [state |-> x, status |-> s, version |-> v + 1, fields |-> g]
    BY <1>2, <2>1, <2>2, Zenon
  <2>. QED BY <1>2, <2>3, RowMade
<1>. QED BY <1>3, <1>4

LEMMA RowChanged ==
    ASSUME RowsTyped, NEW k \in Records,
           \/ \E f \in Fields : Server!Insert(k, f) \/ Server!Edit(k, f)
           \/ \E s \in Statuses : Server!Move(k, s)
           \/ Server!Remove(k)
    PROVE  RowsTyped' /\ Advance
<1>1. rows[k] \in RowType BY DEF RowsTyped
<1>2. ASSUME NEW f \in Fields, Server!Insert(k, f) PROVE RowsTyped' /\ Advance
  <2>1. rows' = [rows EXCEPT ![k] = Server!Fresh(InitialStatus, f)] /\ rows[k].version = 0
    BY <1>2, AbsentTyped DEF Server!Insert
  <2>2. Server!Fresh(InitialStatus, f) \in RowType /\ Server!Fresh(InitialStatus, f).version = 1
    BY FreshTyped, TableAssumption
  <2>3. rows'[k].version = 1 BY <2>1, <2>2, <1>1 DEF RowsTyped
  <2>. QED BY <2>1, <2>2, <2>3 DEF RowsTyped, Advance, RowType
<1>3. ASSUME NEW f \in Fields, Server!Edit(k, f) PROVE RowsTyped' /\ Advance
  <2>1. rows' = [rows EXCEPT ![k] = [rows[k] EXCEPT !.fields = f, !.version = rows[k].version + 1]]
    BY <1>3 DEF Server!Edit
  <2>2. [rows[k] EXCEPT !.fields = f, !.version = rows[k].version + 1] \in RowType
    BY <1>1, Raised
  <2>. QED BY <1>1, <2>1, <2>2 DEF RowsTyped, Advance, RowType
<1>4. ASSUME NEW s \in Statuses, Server!Move(k, s) PROVE RowsTyped' /\ Advance
  <2>1. rows' = [rows EXCEPT ![k] = [rows[k] EXCEPT !.status = s, !.version = rows[k].version + 1]]
    BY <1>4 DEF Server!Move
  <2>2. [rows[k] EXCEPT !.status = s, !.version = rows[k].version + 1] \in RowType
    BY <1>1, Raised
  <2>. QED BY <1>1, <2>1, <2>2 DEF RowsTyped, Advance, RowType
<1>5. CASE Server!Remove(k)
  <2>1. rows' = [rows EXCEPT ![k] = [rows[k] EXCEPT !.state = "deleted"]]
    BY <1>5 DEF Server!Remove
  <2>2. [rows[k] EXCEPT !.state = "deleted"] \in RowType
    BY <1>1 DEF RowType
  <2>. QED BY <1>1, <2>1, <2>2 DEF RowsTyped, Advance, RowType
<1>. QED BY <1>2, <1>3, <1>4, <1>5

LEMMA RowsStep ==
    ASSUME TypeOK, RowsTyped, [Next]_vars
    PROVE  RowsTyped' /\ Advance
<1>1. CASE UNCHANGED rows
  BY <1>1 DEF RowsTyped, Advance
<1>2. CASE OtherUsers
  <2>1. PICK k \in Records :
           \/ \E f \in Fields : Server!Insert(k, f) \/ Server!Edit(k, f)
           \/ \E s \in Statuses : Server!Move(k, s)
           \/ Server!Remove(k)
    BY <1>2 DEF OtherUsers, Server!Next
  <2>. QED BY <2>1, RowChanged
<1>3. ASSUME NEW c \in Calls, ServeTransition(c), ~ UNCHANGED rows
      PROVE  RowsTyped' /\ Advance
  <2>1. Server!Move(subject[c].key, subject[c].target)
    BY <1>3 DEF ServeTransition
  <2>2. subject[c].key \in Records /\ subject[c].target \in Statuses
    BY DEF TypeOK, PendingType
  <2>. QED BY <2>1, <2>2, RowChanged
<1>4. ASSUME NEW c \in Calls, ServeCreate(c), ~ UNCHANGED rows
      PROVE  RowsTyped' /\ Advance
  <2>1. PICK k \in Records, f \in Fields : Server!Insert(k, f)
    BY <1>4 DEF ServeCreate
  <2>. QED BY <2>1, RowChanged
<1>. QED
  BY <1>1, <1>2, <1>3, <1>4 DEF Next, Click, Progress, vars, CancelDialog, AgreeDialog,
     CancelDrawer, ToggleCheckbox, OpenCreate, CancelCreate, Leave, Pick, Load, Return, Execute,
     CreateDemo, ServeLoad, LoseCall, Reload, GiveUp, Finish

LEMMA StillTrueKept ==
    ASSUME RowsTyped, RowsTyped', Advance, NEW k \in Records, NEW v \in Nat, NEW s,
           StillTrue(k, v, s)
    PROVE  StillTrue(k, v, s)'
<1>1. rows[k].version \in Nat /\ rows'[k].version \in Nat BY DEF RowsTyped, RowType
<1>. QED BY <1>1 DEF StillTrue, Advance

(* Where a list that is shown, or that a call brings, comes from.          *)
LEMMA ItemsOrigin ==
    ASSUME [Next]_vars
    PROVE  UNCHANGED items \/ \E c \in Calls : items' = shot[c]
BY DEF Next, Click, Progress, Show, vars, view, dialogs, calls, OtherUsers, CancelDialog,
   AgreeDialog, CancelDrawer, ToggleCheckbox, OpenCreate, CancelCreate, Leave, Pick, Load,
   Return, Execute, CreateDemo, ServeLoad, ServeTransition, ServeCreate, LoseCall, Reload,
   GiveUp, Finish, Send, Answer

LEMMA ShotOrigin ==
    ASSUME [Next]_vars
    PROVE  \/ UNCHANGED shot
           \/ UNCHANGED rows /\ \E c \in Calls : shot' = [shot EXCEPT ![c] = Listing]
<1>1. CASE OtherUsers \/ UNCHANGED vars BY <1>1 DEF OtherUsers, vars, calls
<1>2. CASE Click
  BY <1>2 DEF Click, CancelDialog, AgreeDialog, CancelDrawer, ToggleCheckbox, OpenCreate,
     CancelCreate, Leave, Pick, Load, Return, Execute, CreateDemo, Send, calls
<1>3. ASSUME NEW c \in Calls, Progress(c)
      PROVE  \/ UNCHANGED shot
             \/ UNCHANGED rows /\ shot' = [shot EXCEPT ![c] = Listing]
  BY <1>3 DEF Progress, ServeLoad, ServeTransition, ServeCreate, LoseCall, Reload, GiveUp,
     Finish, Send
<1>. QED BY <1>1, <1>2, <1>3 DEF Next

(* A list comes from the server in one piece and is shown later.           *)
LEMMA ListsStep ==
    ASSUME TypeOK, RowsTyped, RowsTyped', Advance, ListsTrue, [Next]_vars
    PROVE  ListsTrue'
<1>1. UNCHANGED items \/ \E c \in Calls : items' = shot[c] BY ItemsOrigin
<1>2. \/ UNCHANGED shot
      \/ UNCHANGED rows /\ \E c \in Calls : shot' = [shot EXCEPT ![c] = Listing]
  BY ShotOrigin
<1>3. ASSUME NEW k \in Records, items'[k].shown
      PROVE  StillTrue(k, items[k].version, items[k].status)'
  <2>1. PICK x \in ItemType : items'[k] = x /\ x.shown /\ StillTrue(k, x.version, x.status)
    BY <1>1, <1>3 DEF ListsTrue, TypeOK
  <2>2. StillTrue(k, x.version, x.status)' BY <2>1, StillTrueKept DEF ItemType
  <2>. QED BY <2>1, <2>2 DEF StillTrue
<1>4. ASSUME NEW c \in Calls, NEW k \in Records, shot'[c][k].shown
      PROVE  StillTrue(k, shot[c][k].version, shot[c][k].status)'
  <2>1. CASE shot'[c][k] = shot[c][k]
    <3>1. PICK x \in ItemType : shot'[c][k] = x /\ x.shown /\ StillTrue(k, x.version, x.status)
      BY <1>4, <2>1 DEF ListsTrue, TypeOK
    <3>2. StillTrue(k, x.version, x.status)' BY <3>1, StillTrueKept DEF ItemType
    <3>. QED BY <3>1, <3>2 DEF StillTrue
  <2>2. CASE UNCHANGED rows /\ shot'[c][k] = Listing[k]
    BY <1>4, <2>2 DEF Listing, Shown, NoItem, StillTrue
  <2>. QED BY <1>2, <2>1, <2>2 DEF TypeOK
<1>. QED BY <1>3, <1>4 DEF ListsTrue

LEMMA NothingTyped == Nothing \in PendingType /\ ~ Nothing.open
<1>1. (CHOOSE k \in Records : TRUE) \in Records BY TableAssumption
<1>2. InitialStatus \in Statuses /\ 0 \in Nat /\ FALSE \in BOOLEAN BY TableAssumption
<1>3. Nothing \in PendingType BY <1>1, <1>2, Zenon DEF Nothing, PendingType
<1>. QED BY <1>3 DEF Nothing

(* Where the dialog, and what a call is about, come from.                  *)
LEMMA PendingOrigin ==
    ASSUME [Next]_vars
    PROVE  \/ pending' = pending \/ ~ pending'.open
           \/ \E k \in Records :
                 /\ items[k].shown /\ pending'.key = k
                 /\ pending'.version = items[k].version /\ pending'.from = items[k].status
<1>1. CASE OtherUsers \/ UNCHANGED vars BY <1>1 DEF OtherUsers, vars, dialogs
<1>2. ASSUME NEW k \in Records, Pick(k)
      PROVE  /\ items[k].shown /\ pending'.key = k
             /\ pending'.version = items[k].version /\ pending'.from = items[k].status
  BY <1>2 DEF Pick
<1>3. CASE Click
  <2>1. \/ pending' = pending \/ pending' = Nothing \/ \E k \in Records : Pick(k)
    BY <1>3 DEF Click, CancelDialog, AgreeDialog, CancelDrawer, ToggleCheckbox, OpenCreate,
       CancelCreate, Leave, Load, Return, Execute, CreateDemo, dialogs
  <2>. QED BY <1>2, <2>1, NothingTyped
<1>4. ASSUME NEW c \in Calls, Progress(c) PROVE pending' = pending \/ pending' = Nothing
  BY <1>4 DEF Progress, ServeLoad, ServeTransition, ServeCreate, LoseCall, Reload, GiveUp,
     Finish, CloseDialogs, dialogs
<1>. QED BY <1>1, <1>3, <1>4, NothingTyped DEF Next

LEMMA SubjectOrigin ==
    ASSUME TypeOK, [Next]_vars
    PROVE  \A c \in Calls :
              subject'[c] = subject[c] \/ subject'[c] = pending \/ ~ subject'[c].open
<1>1. CASE OtherUsers \/ UNCHANGED vars BY <1>1 DEF OtherUsers, vars, calls
<1>2. ASSUME NEW c \in Calls, Load(c) \/ Return(c) \/ CreateDemo(c) \/ Reload(c) \/ Execute(c)
      PROVE  \A d \in Calls : \/ subject'[d] = subject[d] \/ subject'[d] = pending
                             \/ ~ subject'[d].open
  <2>1. PICK p \in {subject[c], pending, Nothing} : subject' = [subject EXCEPT ![c] = p]
    BY <1>2 DEF Load, Return, CreateDemo, Reload, Execute, Send, Request
  <2>2. \A d \in Calls : subject'[d] = subject[d] \/ (d = c /\ subject'[d] = p)
    BY <2>1 DEF TypeOK
  <2>. QED BY <2>1, <2>2, NothingTyped
<1>3. CASE Click
  <2>1. \/ UNCHANGED subject
        \/ \E c \in Calls : Load(c) \/ Return(c) \/ CreateDemo(c) \/ Execute(c)
    BY <1>3 DEF Click, CancelDialog, AgreeDialog, CancelDrawer, ToggleCheckbox, OpenCreate,
       CancelCreate, Leave, Pick, calls
  <2>. QED BY <1>2, <2>1
<1>4. ASSUME NEW c \in Calls, Progress(c), ~ Reload(c) PROVE UNCHANGED subject
  BY <1>4 DEF Progress, ServeLoad, ServeTransition, ServeCreate, LoseCall, GiveUp, Finish,
     Answer
<1>5. ASSUME NEW c \in Calls, Progress(c)
      PROVE  \A d \in Calls : \/ subject'[d] = subject[d] \/ subject'[d] = pending
                             \/ ~ subject'[d].open
  BY <1>2, <1>4, <1>5
<1>. QED BY <1>1, <1>3, <1>5 DEF Next

(* A dialog opens over the list, and a call is about what the dialog says. *)
LEMMA DialogsStep ==
    ASSUME TypeOK, RowsTyped, RowsTyped', Advance, ListsTrue, DialogsTrue, [Next]_vars
    PROVE  DialogsTrue'
<1>1. \/ pending' = pending \/ ~ pending'.open
      \/ \E k \in Records :
            /\ items[k].shown /\ pending'.key = k
            /\ pending'.version = items[k].version /\ pending'.from = items[k].status
  BY PendingOrigin
<1>2. \A c \in Calls : subject'[c] = subject[c] \/ subject'[c] = pending \/ ~ subject'[c].open
  BY SubjectOrigin
<1>3. ASSUME NEW p \in PendingType, Truly(p) PROVE Truly(p)'
  BY <1>3, StillTrueKept DEF Truly, PendingType
<1>4. Truly(pending)'
  <2>1. CASE pending' = pending
    BY <2>1, <1>3 DEF DialogsTrue, TypeOK, Truly, StillTrue
  <2>2. CASE ~ pending'.open BY <2>2 DEF Truly
  <2>3. ASSUME NEW k \in Records, items[k].shown, pending'.key = k,
               pending'.version = items[k].version, pending'.from = items[k].status
        PROVE  Truly(pending)'
    <3>1. StillTrue(k, items[k].version, items[k].status) /\ items[k].version \in Nat
      BY <2>3 DEF ListsTrue, TypeOK, ItemType
    <3>2. PICK v, t : v = items[k].version /\ t = items[k].status OBVIOUS
    <3>3. StillTrue(k, v, t)' BY <3>1, <3>2, StillTrueKept
    <3>. QED BY <2>3, <3>2, <3>3 DEF Truly, StillTrue
  <2>. QED BY <1>1, <2>1, <2>2, <2>3
<1>5. ASSUME NEW c \in Calls PROVE Truly(subject[c])'
  <2>1. CASE subject'[c] = subject[c]
    BY <2>1, <1>3 DEF DialogsTrue, TypeOK, Truly, StillTrue
  <2>2. CASE subject'[c] = pending
    BY <2>2, <1>3 DEF DialogsTrue, TypeOK, Truly, StillTrue
  <2>3. CASE ~ subject'[c].open BY <2>3 DEF Truly
  <2>. QED BY <1>2, <2>1, <2>2, <2>3
<1>. QED BY <1>4, <1>5 DEF DialogsTrue

LEMMA TickedStep ==
    ASSUME TypeOK, TickedIsShown, [Next]_vars
    PROVE  TickedIsShown'
<1>1. CASE OtherUsers \/ UNCHANGED vars
  BY <1>1 DEF OtherUsers, vars, dialogs, history, TickedIsShown, Target
<1>2. ASSUME NEW k \in Records, Pick(k) PROVE TickedIsShown'
  <2>1. PICK p : /\ pending' = p /\ UNCHANGED <<remoteConfirm, ticked>>
                 /\ checked' = IF remoteConfirm /\ (~ remoteConfirm \/ Target(p) # Target(pending))
                               THEN FALSE ELSE checked
    BY <1>2 DEF Pick, OpenDrawer, history
  <2>2. Target(pending)' = Target(p) BY <2>1 DEF Target
  <2>. QED BY <2>1, <2>2 DEF TickedIsShown
<1>3. CASE Click
  <2>1. CASE CancelDialog \/ AgreeDialog \/ CancelDrawer \/ ToggleCheckbox \/ Leave
    BY <2>1 DEF CancelDialog, AgreeDialog, CancelDrawer, ToggleCheckbox, Leave, OpenDrawer,
       TickedIsShown, Target, history, dialogs, TypeOK
  <2>2. CASE \/ OpenCreate \/ CancelCreate
             \/ \E c \in Calls : Load(c) \/ Return(c) \/ Execute(c) \/ CreateDemo(c)
    BY <2>2 DEF OpenCreate, CancelCreate, Load, Return, Execute, CreateDemo, TickedIsShown, Target,
       history, dialogs
  <2>. QED BY <1>2, <1>3, <2>1, <2>2 DEF Click
<1>4. ASSUME NEW c \in Calls, Progress(c) PROVE TickedIsShown'
  BY <1>4 DEF Progress, ServeLoad, ServeTransition, ServeCreate, LoseCall, Reload, GiveUp,
     Finish, CloseDialogs, dialogs, history, TickedIsShown, Target
<1>. QED BY <1>1, <1>3, <1>4 DEF Next

LEMMA RemoteStep ==
    ASSUME TypeOK, TickedIsShown, RemoteTicked, [Next]_vars
    PROVE  RemoteTicked'
<1>1. CASE UNCHANGED <<subject, agreed>>
  BY <1>1 DEF RemoteTicked, Target
<1>2. ASSUME NEW c \in Calls, Load(c) \/ Return(c) \/ CreateDemo(c) \/ Reload(c) \/ Execute(c)
      PROVE  RemoteTicked'
  <2>1. PICK p, t : /\ subject' = [subject EXCEPT ![c] = p]
                    /\ agreed' = [agreed EXCEPT ![c] = t]
                    /\ IsRemote /\ p.open => t = Target(p)
    <3>1. CASE Load(c) \/ Return(c) \/ CreateDemo(c)
      <4>1. subject' = [subject EXCEPT ![c] = Nothing] /\ UNCHANGED agreed
        BY <3>1 DEF Load, Return, CreateDemo, Send, history
      <4>2. agreed = [agreed EXCEPT ![c] = agreed[c]] BY DEF TypeOK
      <4>. QED BY <4>1, <4>2, NothingTyped
    <3>2. CASE Reload(c)
      <4>1. subject' = [subject EXCEPT ![c] = subject[c]] /\ UNCHANGED agreed
        BY <3>2 DEF Reload, Send, history
      <4>2. agreed = [agreed EXCEPT ![c] = agreed[c]] BY DEF TypeOK
      <4>. QED BY <4>1, <4>2 DEF RemoteTicked
    <3>3. CASE Execute(c)
      <4>1. /\ subject' = [subject EXCEPT ![c] = pending]
            /\ agreed' = [agreed EXCEPT ![c] = ticked]
            /\ IsRemote => remoteConfirm /\ checked
        BY <3>3 DEF Execute, Send, Request
      <4>. QED BY <4>1 DEF TickedIsShown
    <3>. QED BY <1>2, <3>1, <3>2, <3>3
  <2>2. ASSUME NEW d \in Calls, IsRemote, subject'[d].open
        PROVE  agreed'[d] = Target(subject'[d])
    BY <2>1, <2>2 DEF TypeOK, RemoteTicked, Target
  <2>. QED BY <2>2 DEF RemoteTicked, Target
<1>3. CASE OtherUsers \/ UNCHANGED vars
  <2>. UNCHANGED <<subject, agreed>> BY <1>3 DEF OtherUsers, vars, calls, history
  <2>. QED BY <1>1
<1>4. CASE Click
  <2>1. \/ UNCHANGED <<subject, agreed>>
        \/ \E c \in Calls : Load(c) \/ Return(c) \/ CreateDemo(c) \/ Execute(c)
    BY <1>4 DEF Click, CancelDialog, AgreeDialog, CancelDrawer, ToggleCheckbox, OpenCreate,
       CancelCreate, Leave, Pick, calls, history
  <2>. QED BY <1>1, <1>2, <2>1
<1>5. ASSUME NEW c \in Calls, Progress(c) PROVE RemoteTicked'
  <2>1. UNCHANGED <<subject, agreed>> \/ Reload(c)
    BY <1>5 DEF Progress, ServeLoad, ServeTransition, ServeCreate, LoseCall, GiveUp, Finish,
       Answer, history
  <2>. QED BY <1>1, <1>2, <2>1
<1>. QED BY <1>3, <1>4, <1>5 DEF Next

(* Moves already made stay in the past when the calls that made them are   *)
(* not started anew.                                                       *)
LEMMA MovesKept ==
    ASSUME TypeOK, RowsTyped, RowsTyped', Advance, MovesServed, OneMovePerConfirmation,
           UNCHANGED moves,
           \A c \in Calls : kind'[c] = "transition" => subject'[c].open,
           \A c \in Calls :
              stage[c] # "idle" /\ (kind[c] = "transition" => stage[c] # "sent") =>
                 /\ subject'[c] = subject[c]
                 /\ stage'[c] # "idle"
                 /\ kind'[c] = "transition" => stage'[c] # "sent"
    PROVE  MovesServed' /\ OneMovePerConfirmation'
<1>1. ASSUME NEW m \in moves
      PROVE  Served(m)' /\ subject'[m.call] = subject[m.call]
  <2>1. Served(m) /\ m.call \in Calls BY DEF MovesServed, TypeOK
  <2>2. subject'[m.call] = subject[m.call] BY <2>1 DEF Served
  <2>3. subject[m.call].key \in Records /\ subject[m.call].version \in Nat
    BY <2>1 DEF TypeOK, PendingType
  <2>4. subject[m.call].version < rows'[subject[m.call].key].version
    BY <2>1, <2>3 DEF Served, Advance, RowsTyped, RowType
  <2>. QED BY <2>1, <2>2, <2>4 DEF Served
<1>2. MovesServed' BY <1>1 DEF MovesServed
<1>3. OneMovePerConfirmation' BY <1>1 DEF OneMovePerConfirmation
<1>. QED BY <1>2, <1>3

(* The server makes a move only at the version the call names, which it    *)
(* thereby leaves behind.                                                  *)
LEMMA MoveMade ==
    ASSUME TypeOK, RowsTyped, RowsTyped', Advance, MovesServed, OneMovePerConfirmation, DialogsTrue,
           NEW c \in Calls, ServeTransition(c), MovesOn(subject[c]),
           Server!Move(subject[c].key, subject[c].target),
           moves' = moves \cup {[call |-> c, key |-> subject[c].key,
                                 from |-> rows[subject[c].key].status, to |-> subject[c].target]}
    PROVE  MovesServed' /\ OneMovePerConfirmation'
<1>1. /\ UNCHANGED <<subject, kind>> /\ stage' = [stage EXCEPT ![c] = "answered"]
      /\ kind[c] = "transition"
  BY DEF ServeTransition, Answer
<1>2. PICK p \in PendingType : p = subject[c] BY DEF TypeOK
<1>3. /\ p.open /\ p.key \in Records /\ p.version \in Nat
      /\ rows[p.key] \in RowType /\ rows[p.key].version \in Nat
  BY <1>1, <1>2 DEF MovesServed, PendingType, RowsTyped, RowType
<1>4. /\ p.version = rows[p.key].version /\ p.from = rows[p.key].status
  BY <1>2, <1>3 DEF MovesOn, DialogsTrue, Truly, StillTrue
<1>5. p.version < rows'[p.key].version
  <2>1. rows' = [rows EXCEPT ![p.key].status = p.target, ![p.key].version = @ + 1]
    BY <1>2 DEF Server!Move
  <2>2. rows'[p.key].version = rows[p.key].version + 1
    BY <1>3, <2>1 DEF RowsTyped, RowType
  <2>. QED BY <1>3, <1>4, <2>2
<1>6. ASSUME NEW m \in moves
      PROVE  Served(m)' /\ p # subject[m.call] /\ m.call \in Calls
  <2>1. Served(m) /\ m.call \in Calls BY DEF MovesServed, TypeOK
  <2>2. subject[m.call].key \in Records /\ subject[m.call].version \in Nat
    BY <2>1 DEF TypeOK, PendingType
  <2>3. subject[m.call].version < rows'[subject[m.call].key].version
    BY <2>1, <2>2 DEF Served, Advance, RowsTyped, RowType
  <2>4. p # subject[m.call] BY <1>3, <1>4, <2>1, <2>2 DEF Served
  <2>. QED BY <1>1, <2>1, <2>3, <2>4 DEF Served, TypeOK
<1>7. PICK new : /\ moves' = moves \cup {new} /\ new.call = c /\ new.key = p.key
                 /\ new.from = p.from /\ new.to = p.target
  <2> DEFINE made == [call |-> c, key |-> p.key, from |-> p.from, to |-> p.target]
  <2>1. moves' = moves \cup {made} BY <1>2, <1>4
  <2>2. /\ made.call = c /\ made.key = p.key /\ made.from = p.from /\ made.to = p.target
    OBVIOUS
  <2>. QED BY <2>1, <2>2
<1>8. Served(new)' BY <1>1, <1>2, <1>3, <1>5, <1>7 DEF Served, TypeOK
<1>9. MovesServed' BY <1>1, <1>6, <1>7, <1>8 DEF MovesServed
<1>10. OneMovePerConfirmation'
  BY <1>1, <1>2, <1>6, <1>7 DEF OneMovePerConfirmation
<1>. QED BY <1>9, <1>10

LEMMA MovesStep ==
    ASSUME TypeOK, RowsTyped, RowsTyped', Advance, MovesServed, OneMovePerConfirmation, DialogsTrue,
           [Next]_vars
    PROVE  MovesServed' /\ OneMovePerConfirmation'
<1>1. CASE UNCHANGED <<moves, subject, stage, kind>>
  BY <1>1, MovesKept DEF MovesServed
<1>2. CASE OtherUsers \/ UNCHANGED vars
  BY <1>1, <1>2 DEF OtherUsers, vars, calls, history
<1>3. ASSUME NEW c \in Calls, Load(c) \/ Return(c) \/ CreateDemo(c) \/ Execute(c)
      PROVE  MovesServed' /\ OneMovePerConfirmation'
  <2> DEFINE Started(p, operation) ==
           /\ stage[c] = "idle" /\ UNCHANGED moves
           /\ stage' = [stage EXCEPT ![c] = "sent"]
           /\ subject' = [subject EXCEPT ![c] = p]
           /\ kind' = [kind EXCEPT ![c] = operation]
           /\ operation = "transition" => p.open
  <2>1. PICK p, operation : Started(p, operation)
    <3>1. CASE Load(c) \/ Return(c)
      <4>. Started(Nothing, "load") BY <3>1 DEF Load, Return, Send, history
      <4>. QED OBVIOUS
    <3>2. CASE CreateDemo(c)
      <4>. Started(Nothing, "create") BY <3>2 DEF CreateDemo, Send, history
      <4>. QED OBVIOUS
    <3>3. CASE Execute(c)
      <4>. Started(pending, "transition") BY <3>3 DEF Execute, Send, Request
      <4>. QED OBVIOUS
    <3>. QED BY <1>3, <3>1, <3>2, <3>3
  <2>. QED BY <2>1, MovesKept DEF TypeOK, MovesServed
<1>4. ASSUME NEW c \in Calls, Reload(c) PROVE MovesServed' /\ OneMovePerConfirmation'
  <2>1. /\ stage' = [stage EXCEPT ![c] = "sent"] /\ UNCHANGED moves
        /\ subject' = [subject EXCEPT ![c] = subject[c]]
        /\ kind' = [kind EXCEPT ![c] = "load"]
    BY <1>4 DEF Reload, Send, history
  <2>. QED BY <2>1, MovesKept DEF TypeOK, MovesServed
<1>5. ASSUME NEW c \in Calls, NEW s \in {"answered", "done"},
             stage' = [stage EXCEPT ![c] = s], UNCHANGED <<moves, subject, kind>>
      PROVE  MovesServed' /\ OneMovePerConfirmation'
  BY <1>5, MovesKept DEF TypeOK, MovesServed
<1>6. ASSUME NEW c \in Calls, Progress(c) PROVE MovesServed' /\ OneMovePerConfirmation'
  <2>1. CASE ServeTransition(c) /\ moves' # moves
    BY <2>1, MoveMade DEF ServeTransition
  <2>2. CASE ~ Reload(c) /\ moves' = moves
    <3>1. \E s \in {"answered", "done"} :
             stage' = [stage EXCEPT ![c] = s] /\ UNCHANGED <<moves, subject, kind>>
      BY <1>6, <2>2 DEF Progress, ServeLoad, ServeTransition, ServeCreate, LoseCall, GiveUp,
         Finish, Answer
    <3>. QED BY <1>5, <3>1
  <2>3. moves' = moves \/ ServeTransition(c)
    BY <1>6 DEF Progress, ServeLoad, ServeCreate, LoseCall, Reload, GiveUp, Finish, history
  <2>. QED BY <1>4, <2>1, <2>2, <2>3
<1>7. CASE Click
  <2>1. \/ UNCHANGED <<moves, subject, stage, kind>>
        \/ \E c \in Calls : Load(c) \/ Return(c) \/ CreateDemo(c) \/ Execute(c)
    BY <1>7 DEF Click, CancelDialog, AgreeDialog, CancelDrawer, ToggleCheckbox, OpenCreate,
       CancelCreate, Leave, Pick, calls, history
  <2>. QED BY <1>1, <1>3, <2>1
<1>. QED BY <1>2, <1>6, <1>7 DEF Next

-----------------------------------------------------------------------------
LEMMA ListingTyped == RowsTyped => Listing \in [Records -> ItemType]
<1>1. ASSUME NEW k \in Records, rows[k] \in RowType
      PROVE  Shown(k) \in ItemType /\ NoItem \in ItemType
  <2>1. rows[k].status \in Statuses /\ rows[k].version \in Nat /\ InitialStatus \in Statuses
    BY <1>1, TableAssumption DEF RowType
  <2>2. 0 \in Nat /\ TRUE \in BOOLEAN /\ FALSE \in BOOLEAN OBVIOUS
  <2>. QED BY <2>1, <2>2, Zenon DEF Shown, NoItem, ItemType
<1>. QED BY <1>1 DEF Listing, RowsTyped

LEMMA RequestTyped ==
    ASSUME TypeOK, NEW k \in Records, items[k].shown, NEW s \in Offered(items[k].status)
    PROVE  [open |-> TRUE, key |-> k, from |-> items[k].status, version |-> items[k].version,
            target |-> s] \in PendingType
<1>1. s \in Statuses
  <2>1. PICK i \in 1 .. Len(Order) - 1 : s = Order[i + 1] BY DEF Offered
  <2>2. i + 1 \in 1 .. Len(Order) BY <2>1, OrderAssumption
  <2>. QED BY <2>1, <2>2, OrderAssumption
<1>2. items[k].status \in Statuses /\ items[k].version \in Nat /\ TRUE \in BOOLEAN
  BY DEF TypeOK, ItemType
<1>. QED BY <1>1, <1>2, Zenon DEF PendingType

LEMMA TargetTyped == \A p \in PendingType : Target(p) \in TargetType
BY DEF PendingType, Target, TargetType

LEMMA ListsTyped ==
    ASSUME TypeOK, RowsTyped, [Next]_vars
    PROVE  items' \in [Records -> ItemType] /\ shot' \in [Calls -> [Records -> ItemType]]
<1>1. CASE OtherUsers \/ UNCHANGED vars
  BY <1>1 DEF TypeOK, OtherUsers, vars, view, calls
<1>2. CASE Click
  BY <1>2 DEF TypeOK, Click, CancelDialog, AgreeDialog, CancelDrawer, ToggleCheckbox, OpenCreate,
     CancelCreate, Leave, Pick, Load, Return, Execute, CreateDemo, Send, view, calls
<1>3. ASSUME NEW c \in Calls, Progress(c)
      PROVE  items' \in [Records -> ItemType] /\ shot' \in [Calls -> [Records -> ItemType]]
  <2>1. \/ UNCHANGED <<items, shot>>
        \/ UNCHANGED items /\ shot' = [shot EXCEPT ![c] = Listing]
        \/ UNCHANGED shot /\ items' = shot[c]
    BY <1>3 DEF Progress, ServeLoad, ServeTransition, ServeCreate, LoseCall, Reload, GiveUp,
       Finish, Show, Send, view
  <2>2. items \in [Records -> ItemType] /\ shot \in [Calls -> [Records -> ItemType]]
    BY DEF TypeOK
  <2>3. Listing \in [Records -> ItemType] BY ListingTyped
  <2>. QED BY <2>1, <2>2, <2>3
<1>. QED BY <1>1, <1>2, <1>3 DEF Next

LEMMA FlagsTyped ==
    ASSUME TypeOK, [Next]_vars
    PROVE  /\ loading' \in BOOLEAN /\ error' \in BOOLEAN /\ mounted' \in BOOLEAN
           /\ remoteConfirm' \in BOOLEAN /\ checked' \in BOOLEAN /\ showCreate' \in BOOLEAN
<1>1. CASE OtherUsers \/ UNCHANGED vars
  BY <1>1 DEF TypeOK, OtherUsers, vars, view, dialogs, place
<1>2. CASE Click
  <2> DEFINE Typed == /\ loading' \in BOOLEAN /\ error' \in BOOLEAN /\ mounted' \in BOOLEAN
                      /\ remoteConfirm' \in BOOLEAN /\ checked' \in BOOLEAN
                      /\ showCreate' \in BOOLEAN
  <2>1. CASE CancelDialog \/ AgreeDialog \/ CancelDrawer \/ ToggleCheckbox
    BY <2>1 DEF TypeOK, CancelDialog, AgreeDialog, CancelDrawer, ToggleCheckbox, OpenDrawer, view,
       place
  <2>2. CASE OpenCreate \/ CancelCreate \/ Leave
    BY <2>2 DEF TypeOK, OpenCreate, CancelCreate, Leave, view, place
  <2>3. ASSUME NEW k \in Records, Pick(k) PROVE Typed
    BY <2>3 DEF TypeOK, Pick, OpenDrawer, view, place
  <2>4. ASSUME NEW c \in Calls, Load(c) \/ Return(c) \/ Execute(c) \/ CreateDemo(c) PROVE Typed
    BY <2>4 DEF TypeOK, Load, Return, Execute, CreateDemo, Send, dialogs, place
  <2>. QED BY <1>2, <2>1, <2>2, <2>3, <2>4 DEF Click
<1>3. ASSUME NEW c \in Calls, Progress(c)
      PROVE  /\ loading' \in BOOLEAN /\ error' \in BOOLEAN /\ mounted' \in BOOLEAN
             /\ remoteConfirm' \in BOOLEAN /\ checked' \in BOOLEAN /\ showCreate' \in BOOLEAN
  BY <1>3 DEF TypeOK, Progress, ServeLoad, ServeTransition, ServeCreate, LoseCall, Reload, GiveUp,
     Finish, Show, CloseDialogs, Send, view, dialogs, place
<1>. QED BY <1>1, <1>2, <1>3 DEF Next

(* The second dialog is never open without the first's content, and no     *)
(* dialog outlives its page.                                               *)
DialogsOK ==
    /\ pending \in PendingType
    /\ remoteConfirm => pending.open
    /\ pending.open \/ showCreate => mounted

LEMMA DialogsTyped ==
    ASSUME TypeOK, [Next]_vars
    PROVE  DialogsOK'
<1>0. DialogsOK BY DEF DialogsOK, TypeOK
<1>1. CASE UNCHANGED <<pending, remoteConfirm, showCreate, mounted>>
  BY <1>0, <1>1 DEF DialogsOK
<1>2. CASE OtherUsers \/ UNCHANGED vars
  BY <1>1, <1>2 DEF OtherUsers, vars, dialogs, place
<1>3. CASE Click
  <2>1. ASSUME NEW k \in Records, Pick(k) PROVE DialogsOK'
    <3>1. /\ mounted /\ UNCHANGED <<remoteConfirm, showCreate, mounted>>
          /\ pending' \in PendingType /\ pending'.open
      BY <2>1, RequestTyped DEF Pick, place
    <3>. QED BY <3>1 DEF DialogsOK
  <2>2. CASE Leave BY <2>2, NothingTyped DEF Leave, DialogsOK
  <2>3. CASE CancelDialog BY <1>0, <2>3, NothingTyped DEF CancelDialog, DialogsOK, place
  <2>4. CASE AgreeDialog \/ CancelDrawer
    <3>. pending.open /\ UNCHANGED <<pending, showCreate, mounted>>
      BY <2>4 DEF AgreeDialog, CancelDrawer, place
    <3>. QED BY <1>0 DEF DialogsOK
  <2>5. CASE OpenCreate \/ CancelCreate
    <3>. UNCHANGED <<pending, remoteConfirm, mounted>> /\ (mounted \/ ~ showCreate')
      BY <1>0, <2>5 DEF OpenCreate, CancelCreate, DialogsOK, place
    <3>. QED BY <1>0 DEF DialogsOK
  <2>6. ASSUME NEW c \in Calls, Return(c) PROVE DialogsOK'
    BY <1>0, <2>6 DEF DialogsOK, Return, dialogs
  <2>7. CASE ToggleCheckbox \/ \E c \in Calls : Load(c) \/ Execute(c) \/ CreateDemo(c)
    BY <1>1, <2>7 DEF ToggleCheckbox, Load, Execute, CreateDemo, dialogs, place
  <2>. QED BY <1>3, <2>1, <2>2, <2>3, <2>4, <2>5, <2>6, <2>7 DEF Click
<1>4. ASSUME NEW c \in Calls, Progress(c) PROVE DialogsOK'
  <2>1. CASE GiveUp(c) BY <1>0, <2>1 DEF GiveUp, DialogsOK, place
  <2>2. CASE Finish(c)
    <3>1. \/ pending' = Nothing /\ remoteConfirm' = FALSE
          \/ UNCHANGED <<pending, remoteConfirm>>
      BY <2>2 DEF Finish, CloseDialogs, TypeOK
    <3>2. (showCreate' => showCreate) /\ UNCHANGED mounted
      BY <2>2 DEF Finish, CloseDialogs, place
    <3>. QED BY <1>0, <3>1, <3>2, NothingTyped DEF DialogsOK
  <2>3. CASE ~ GiveUp(c) /\ ~ Finish(c)
    BY <1>1, <1>4, <2>3 DEF Progress, ServeLoad, ServeTransition, ServeCreate, LoseCall, Reload,
       dialogs, place
  <2>. QED BY <2>1, <2>2, <2>3
<1>. QED BY <1>2, <1>3, <1>4 DEF Next

LEMMA NumbersTyped ==
    ASSUME TypeOK, [Next]_vars
    PROVE  visit' \in Nat /\ others' \in 0 .. MaxOthers
<1>0. visit \in Nat /\ others \in 0 .. MaxOthers BY DEF TypeOK
<1>1. /\ others' = others \/ (others > 0 /\ others' = others - 1)
      /\ visit' = visit \/ visit' = visit + 1
  <2>1. CASE OtherUsers \/ UNCHANGED vars BY <2>1 DEF OtherUsers, vars, place
  <2>2. CASE Click
    BY <2>2 DEF Click, CancelDialog, AgreeDialog, CancelDrawer, ToggleCheckbox, OpenCreate,
       CancelCreate, Leave, Pick, Load, Return, Execute, CreateDemo, place
  <2>3. ASSUME NEW c \in Calls, Progress(c) PROVE UNCHANGED <<visit, others>>
    BY <2>3 DEF Progress, ServeLoad, ServeTransition, ServeCreate, LoseCall, Reload, GiveUp,
       Finish, place
  <2>. QED BY <2>1, <2>2, <2>3 DEF Next
<1>. QED BY <1>0, <1>1, RemoteAssumption

CallsOK ==
    /\ stage \in [Calls -> {"idle", "sent", "answered", "done"}]
    /\ kind \in [Calls -> {"load", "transition", "create"}]
    /\ subject \in [Calls -> PendingType]
    /\ then \in [Calls -> {"nothing", "close dialogs", "close create"}]
    /\ answer \in [Calls -> {"none", "ok", "refused", "lost"}]
    /\ started \in [Calls -> Nat]

LEMMA SendTyped ==
    ASSUME CallsOK, NEW c \in Calls, NEW operation \in {"load", "transition", "create"},
           NEW about \in PendingType, NEW next \in {"nothing", "close dialogs", "close create"},
           NEW origin \in Nat, Send(c, operation, about, next, origin)
    PROVE  CallsOK'
BY DEF CallsOK, Send

LEMMA CallsTyped ==
    ASSUME TypeOK, [Next]_vars
    PROVE  CallsOK'
<1>0. CallsOK BY DEF CallsOK, TypeOK
<1>1. CASE UNCHANGED calls BY <1>0, <1>1 DEF CallsOK, calls
<1>2. CASE OtherUsers \/ UNCHANGED vars
  <2>. UNCHANGED calls BY <1>2 DEF OtherUsers, vars
  <2>. QED BY <1>1
<1>3. visit \in Nat /\ visit + 1 \in Nat
  <2>1. visit \in Nat BY DEF TypeOK
  <2>. QED BY <2>1
<1>4. ASSUME NEW c \in Calls, Load(c) \/ Return(c) \/ Execute(c) \/ CreateDemo(c) PROVE CallsOK'
  <2>1. CASE Load(c) BY <1>0, <1>3, <2>1, SendTyped, NothingTyped DEF Load
  <2>2. CASE Return(c) BY <1>0, <1>3, <2>2, SendTyped, NothingTyped DEF Return
  <2>3. CASE Execute(c)
    <3>. pending \in PendingType BY DEF TypeOK
    <3>. QED BY <1>0, <1>3, <2>3, SendTyped DEF Execute, Request
  <2>4. CASE CreateDemo(c) BY <1>0, <1>3, <2>4, SendTyped, NothingTyped DEF CreateDemo
  <2>. QED BY <1>4, <2>1, <2>2, <2>3, <2>4
<1>5. CASE Click
  <2>1. UNCHANGED calls \/ \E c \in Calls : Load(c) \/ Return(c) \/ Execute(c) \/ CreateDemo(c)
    BY <1>5 DEF Click, CancelDialog, AgreeDialog, CancelDrawer, ToggleCheckbox, OpenCreate,
       CancelCreate, Leave, Pick
  <2>. QED BY <1>1, <1>4, <2>1
<1>6. ASSUME NEW c \in Calls, Progress(c) PROVE CallsOK'
  <2>1. CASE Reload(c)
    <3>. subject[c] \in PendingType /\ started[c] \in Nat
         /\ then[c] \in {"nothing", "close dialogs", "close create"}
      BY DEF TypeOK
    <3>. QED BY <1>0, <2>1, SendTyped DEF Reload
  <2>2. CASE ~ Reload(c)
    <3>1. /\ UNCHANGED <<kind, subject, then, started>>
          /\ \E s \in {"answered", "done"} : stage' = [stage EXCEPT ![c] = s]
          /\ \/ UNCHANGED answer
             \/ \E r \in {"ok", "refused", "lost"} : answer' = [answer EXCEPT ![c] = r]
      BY <1>6, <2>2 DEF Progress, ServeLoad, ServeTransition, ServeCreate, LoseCall, GiveUp,
         Finish, Answer
    <3>2. stage' \in [Calls -> {"idle", "sent", "answered", "done"}] BY <1>0, <3>1 DEF CallsOK
    <3>3. answer' \in [Calls -> {"none", "ok", "refused", "lost"}] BY <1>0, <3>1 DEF CallsOK
    <3>. QED BY <1>0, <3>1, <3>2, <3>3 DEF CallsOK
  <2>. QED BY <2>1, <2>2
<1>. QED BY <1>2, <1>5, <1>6 DEF Next

LEMMA HistoryTyped ==
    ASSUME TypeOK, RowsTyped, [Next]_vars
    PROVE  /\ ticked' \in TargetType /\ agreed' \in [Calls -> TargetType]
           /\ moves' \subseteq [call : Calls, key : Records, from : Statuses, to : Statuses]
<1>1. CASE UNCHANGED history BY <1>1 DEF TypeOK, history
<1>2. CASE ToggleCheckbox
  <2>. Target(pending) \in TargetType BY TargetTyped DEF TypeOK
  <2>. QED BY <1>2 DEF ToggleCheckbox, TypeOK
<1>3. ASSUME NEW c \in Calls, Execute(c)
      PROVE  /\ ticked' \in TargetType /\ agreed' \in [Calls -> TargetType]
             /\ moves' \subseteq [call : Calls, key : Records, from : Statuses, to : Statuses]
  BY <1>3 DEF Execute, TypeOK
<1>4. ASSUME NEW c \in Calls, ServeTransition(c)
      PROVE  /\ ticked' \in TargetType /\ agreed' \in [Calls -> TargetType]
             /\ moves' \subseteq [call : Calls, key : Records, from : Statuses, to : Statuses]
  <2>1. /\ subject[c].key \in Records /\ subject[c].target \in Statuses
        /\ rows[subject[c].key].status \in Statuses
    BY DEF TypeOK, PendingType, RowsTyped, RowType
  <2>2. [call |-> c, key |-> subject[c].key, from |-> rows[subject[c].key].status,
         to |-> subject[c].target]
            \in [call : Calls, key : Records, from : Statuses, to : Statuses]
    BY <2>1
  <2>. QED BY <1>4, <2>2 DEF ServeTransition, TypeOK
<1>5. \/ UNCHANGED history \/ ToggleCheckbox
      \/ \E c \in Calls : Execute(c) \/ ServeTransition(c)
  <2>1. CASE OtherUsers \/ UNCHANGED vars BY <2>1 DEF OtherUsers, vars
  <2>2. CASE Click
    BY <2>2 DEF Click, CancelDialog, AgreeDialog, CancelDrawer, OpenCreate, CancelCreate, Leave,
       Pick, Load, Return, CreateDemo
  <2>3. ASSUME NEW c \in Calls, Progress(c) PROVE UNCHANGED history \/ ServeTransition(c)
    BY <2>3 DEF Progress, ServeLoad, ServeCreate, LoseCall, Reload, GiveUp, Finish
  <2>. QED BY <2>1, <2>2, <2>3 DEF Next
<1>. QED BY <1>1, <1>2, <1>3, <1>4, <1>5

-----------------------------------------------------------------------------
(* A record comes to life only with a version above the one it had.        *)
Born == \A k \in Records :
            Server!Live(k)' => Server!Live(k) \/ rows[k].version < rows'[k].version

LEMMA OneRowBorn ==
    ASSUME RowsTyped, NEW k \in Records,
           \/ \E f \in Fields : Server!Insert(k, f) \/ Server!Edit(k, f)
           \/ \E s \in Statuses : Server!Move(k, s)
           \/ Server!Remove(k)
    PROVE  Born
<1>1. ASSUME NEW f \in Fields, Server!Insert(k, f) PROVE Born
  <2>1. rows' = [rows EXCEPT ![k] = Server!Fresh(InitialStatus, f)] /\ rows[k].version = 0
    BY <1>1, AbsentTyped DEF Server!Insert
  <2>2. rows'[k].version = 1 BY <2>1, FreshTyped, TableAssumption DEF RowsTyped
  <2>3. \A j \in Records \ {k} : rows'[j] = rows[j] BY <2>1 DEF RowsTyped
  <2>. QED BY <2>1, <2>2, <2>3 DEF Born, Server!Live
<1>2. CASE \/ \E f \in Fields : Server!Edit(k, f)
           \/ \E s \in Statuses : Server!Move(k, s)
           \/ Server!Remove(k)
  <2>1. Server!Live(k) BY <1>2 DEF Server!Edit, Server!Move, Server!Remove
  <2>2. \A j \in Records \ {k} : rows'[j] = rows[j]
    BY <1>2 DEF Server!Edit, Server!Move, Server!Remove, RowsTyped
  <2>. QED BY <2>1, <2>2 DEF Born, Server!Live
<1>. QED BY <1>1, <1>2

LEMMA RowsBorn ==
    ASSUME TypeOK, RowsTyped, [Next]_vars
    PROVE  Born
<1>1. CASE UNCHANGED rows BY <1>1 DEF Born, Server!Live
<1>2. CASE OtherUsers
  <2>1. PICK k \in Records :
           \/ \E f \in Fields : Server!Insert(k, f) \/ Server!Edit(k, f)
           \/ \E s \in Statuses : Server!Move(k, s)
           \/ Server!Remove(k)
    BY <1>2 DEF OtherUsers, Server!Next
  <2>. QED BY <2>1, OneRowBorn
<1>3. ASSUME NEW c \in Calls, ServeTransition(c), ~ UNCHANGED rows PROVE Born
  <2>1. Server!Move(subject[c].key, subject[c].target) BY <1>3 DEF ServeTransition
  <2>2. subject[c].key \in Records /\ subject[c].target \in Statuses
    BY DEF TypeOK, PendingType
  <2>. QED BY <2>1, <2>2, OneRowBorn
<1>4. ASSUME NEW c \in Calls, ServeCreate(c), ~ UNCHANGED rows PROVE Born
  <2>1. PICK k \in Records, f \in Fields : Server!Insert(k, f) BY <1>4 DEF ServeCreate
  <2>. QED BY <2>1, OneRowBorn
<1>. QED
  BY <1>1, <1>2, <1>3, <1>4 DEF Next, Click, Progress, vars, CancelDialog, AgreeDialog,
     CancelDrawer, ToggleCheckbox, OpenCreate, CancelCreate, Leave, Pick, Load, Return, Execute,
     CreateDemo, ServeLoad, LoseCall, Reload, GiveUp, Finish

LEMMA NumbersStep ==
    ASSUME TypeOK, RowsTyped, RowsTyped', Advance, Born, RowsNumbered, ListsNumbered,
           DialogsNumbered, [Next]_vars
    PROVE  RowsNumbered' /\ ListsNumbered' /\ DialogsNumbered'
<1>1. RowsNumbered'
  <2>. SUFFICES ASSUME NEW k \in Records, Server!Live(k)' PROVE rows'[k].version # 0
    BY DEF RowsNumbered, Server!Live
  <2>1. rows[k].version \in Nat /\ rows'[k].version \in Nat BY DEF RowsTyped, RowType
  <2>. QED BY <2>1 DEF Born, Advance, RowsNumbered
<1>2. ListsNumbered'
  <2>1. \A k \in Records : items'[k].shown => items'[k].version # 0
    BY ItemsOrigin DEF ListsNumbered
  <2>2. ASSUME NEW c \in Calls, NEW k \in Records, shot'[c][k].shown
        PROVE  shot'[c][k].version # 0
    <3>1. shot'[c][k] = shot[c][k] \/ shot'[c][k] = Listing[k] BY ShotOrigin DEF TypeOK
    <3>. QED BY <2>2, <3>1 DEF ListsNumbered, RowsNumbered, Listing, Shown, NoItem
  <2>. QED BY <2>1, <2>2 DEF ListsNumbered
<1>3. DialogsNumbered'
  <2>1. Numbered(pending') BY PendingOrigin DEF DialogsNumbered, ListsNumbered, Numbered
  <2>2. \A c \in Calls : Numbered(subject'[c]) BY SubjectOrigin DEF DialogsNumbered, Numbered
  <2>. QED BY <2>1, <2>2 DEF DialogsNumbered, Numbered
<1>. QED BY <1>1, <1>2, <1>3

-----------------------------------------------------------------------------
LEMMA WorkspaceInit == Init => WInv
<1>. SUFFICES ASSUME Init PROVE WInv OBVIOUS
<1>1. NoItem \in ItemType
  <2>. InitialStatus \in Statuses /\ 0 \in Nat /\ FALSE \in BOOLEAN BY TableAssumption
  <2>. QED BY Zenon DEF NoItem, ItemType
<1>2. items \in [Records -> ItemType] /\ shot \in [Calls -> [Records -> ItemType]]
  BY <1>1 DEF Init
<1>3. Target(Nothing) \in TargetType BY TargetTyped, NothingTyped
<1>4. TypeOK
  <2>1. /\ loading = FALSE /\ error = FALSE /\ remoteConfirm = FALSE /\ checked = FALSE
        /\ showCreate = FALSE /\ mounted = TRUE /\ pending = Nothing /\ moves = {}
        /\ ticked = Target(Nothing) /\ agreed = [c \in Calls |-> Target(Nothing)]
    BY DEF Init
  <2>2. /\ stage \in [Calls -> {"idle", "sent", "answered", "done"}]
        /\ kind \in [Calls -> {"load", "transition", "create"}]
        /\ subject \in [Calls -> PendingType]
        /\ then \in [Calls -> {"nothing", "close dialogs", "close create"}]
        /\ answer \in [Calls -> {"none", "ok", "refused", "lost"}]
        /\ started \in [Calls -> Nat]
    BY NothingTyped DEF Init
  <2>3. visit \in Nat /\ others \in 0 .. MaxOthers BY RemoteAssumption DEF Init
  <2>4. agreed \in [Calls -> TargetType] BY <1>3, <2>1
  <2>. QED BY <1>2, <1>3, <2>1, <2>2, <2>3, <2>4, NothingTyped, Zenon DEF TypeOK
<1>5. RowsTyped
  <2>1. \A s \in SeedStatuses, f \in Fields : Server!Fresh(s, f) \in RowType
    BY FreshTyped, TableAssumption
  <2>2. Server!Absent \in RowType
    <3>. "absent" \in {"absent", "live", "deleted"} /\ 0 \in Nat /\ Blank \in Fields \cup {Blank}
         /\ InitialStatus \in Statuses
      BY TableAssumption
    <3>. QED BY Zenon DEF Server!Absent, RowType
  <2>3. rows \in [Records -> {Server!Absent} \union
                             {Server!Fresh(s, f) : s \in SeedStatuses, f \in Fields}]
    BY DEF Init, Server!Init
  <2>. QED BY <2>1, <2>2, <2>3 DEF RowsTyped
<1>6. ListsTrue BY DEF Init, ListsTrue, NoItem
<1>7. DialogsTrue BY NothingTyped DEF Init, DialogsTrue, Truly
<1>8. TickedIsShown /\ RemoteTicked BY NothingTyped DEF Init, TickedIsShown, RemoteTicked
<1>9. MovesServed /\ OneMovePerConfirmation BY DEF Init, MovesServed, OneMovePerConfirmation
<1>10. RowsNumbered
  <2>. SUFFICES ASSUME NEW k \in Records, Server!Live(k) PROVE rows[k].version # 0
    BY DEF RowsNumbered
  <2>1. rows[k] \in {Server!Absent} \union
                    {Server!Fresh(s, f) : s \in SeedStatuses, f \in Fields}
    BY DEF Init, Server!Init
  <2>2. rows[k] # Server!Absent BY DEF Server!Live, Server!Absent
  <2>. QED BY <2>1, <2>2, FreshTyped, TableAssumption
<1>11. ListsNumbered BY DEF Init, ListsNumbered, NoItem
<1>12. DialogsNumbered BY NothingTyped DEF Init, DialogsNumbered, Numbered
<1>. QED BY <1>4, <1>5, <1>6, <1>7, <1>8, <1>9, <1>10, <1>11, <1>12 DEF WInv

LEMMA TypeStep ==
    ASSUME TypeOK, RowsTyped, [Next]_vars
    PROVE  TypeOK'
<1>1. DialogsOK' /\ CallsOK' BY DialogsTyped, CallsTyped
<1>2. visit' \in Nat /\ others' \in 0 .. MaxOthers BY NumbersTyped
<1>. QED BY <1>1, <1>2, ListsTyped, FlagsTyped, HistoryTyped, Zenon DEF TypeOK, DialogsOK, CallsOK

LEMMA WorkspaceStep == WInv /\ [Next]_vars => WInv'
<1>. SUFFICES ASSUME WInv, [Next]_vars PROVE WInv' OBVIOUS
<1>1. TypeOK' BY TypeStep DEF WInv
<1>2. RowsTyped' /\ Advance BY RowsStep DEF WInv
<1>3. ListsTrue' BY <1>2, ListsStep DEF WInv
<1>4. DialogsTrue' BY <1>2, DialogsStep DEF WInv
<1>5. TickedIsShown' BY TickedStep DEF WInv
<1>6. RemoteTicked' BY RemoteStep DEF WInv
<1>7. MovesServed' /\ OneMovePerConfirmation' BY <1>2, MovesStep DEF WInv
<1>8. Born BY RowsBorn DEF WInv
<1>9. RowsNumbered' /\ ListsNumbered' /\ DialogsNumbered' BY <1>2, <1>8, NumbersStep DEF WInv
<1>. QED BY <1>1, <1>2, <1>3, <1>4, <1>5, <1>6, <1>7, <1>9 DEF WInv

(* The page never knows more than the server did, in every behaviour.      *)
THEOREM WorkspaceInvariant == Spec => []WInv
BY WorkspaceInit, WorkspaceStep, PTL DEF Spec

(* The variables of the page, its dialogs, its calls and what is recorded  *)
(* of them keep their types, and no dialog outlives its page.              *)
THEOREM WorkspaceTypeCorrect == Spec => []TypeOK
<1>1. WInv => TypeOK BY DEF WInv
<1>. QED BY <1>1, WorkspaceInvariant, PTL

(* A remote action is only requested for the record and the target that    *)
(* were on screen when the box was ticked (EntityPage, ActionDrawer).      *)
THEOREM RemoteActionsWereTicked == Spec => []RemoteTicked
<1>1. WInv => RemoteTicked BY DEF WInv
<1>. QED BY <1>1, WorkspaceInvariant, PTL

(* A record moves from the status the dialog named to the one it named.    *)
THEOREM ShownMovesHappen == Spec => []WhatWasShownHappens
<1>1. WInv => WhatWasShownHappens BY DEF WInv, WhatWasShownHappens, MovesServed, Served
<1>. QED BY <1>1, WorkspaceInvariant, PTL

(* However often a confirmation is sent, the record moves once.            *)
THEOREM ConfirmedOnceMovedOnce == Spec => []OneMovePerConfirmation
<1>1. WInv => OneMovePerConfirmation BY DEF WInv
<1>. QED BY <1>1, WorkspaceInvariant, PTL

(* The page offers only moves the server allows when each status of the    *)
(* client's list may, on the server, follow the one before it; that the    *)
(* four lists and graphs of the code are so is shown in AgreementProofs.   *)
THEOREM OffersAreAllowed ==
    ASSUME \A i \in 1 .. Len(Order) - 1 : Order[i + 1] \in Graph[Order[i]]
    PROVE  Spec => []OfferedMovesAllowed
<1>1. Init => OfferedMovesAllowed BY NothingTyped DEF Init, OfferedMovesAllowed
<1>2. OfferedMovesAllowed /\ [Next]_vars => OfferedMovesAllowed'
  <2>. SUFFICES ASSUME OfferedMovesAllowed, [Next]_vars PROVE OfferedMovesAllowed' OBVIOUS
  <2>1. CASE pending' = pending BY <2>1 DEF OfferedMovesAllowed
  <2>2. CASE pending' = Nothing BY <2>2, NothingTyped DEF OfferedMovesAllowed
  <2>3. ASSUME NEW k \in Records, Pick(k) PROVE OfferedMovesAllowed'
    <3>1. PICK s \in Offered(items[k].status) :
             pending'.from = items[k].status /\ pending'.target = s
      BY <2>3 DEF Pick
    <3>2. PICK i \in 1 .. Len(Order) - 1 : Order[i] = items[k].status /\ s = Order[i + 1]
      BY <3>1 DEF Offered
    <3>. QED BY <3>1, <3>2 DEF OfferedMovesAllowed
  <2>4. pending' = pending \/ pending' = Nothing \/ \E k \in Records : Pick(k)
    <3>1. CASE OtherUsers \/ UNCHANGED vars BY <3>1 DEF OtherUsers, vars, dialogs
    <3>2. CASE Click
      BY <3>2 DEF Click, CancelDialog, AgreeDialog, CancelDrawer, ToggleCheckbox, OpenCreate,
         CancelCreate, Leave, Load, Return, Execute, CreateDemo, dialogs
    <3>3. ASSUME NEW c \in Calls, Progress(c) PROVE pending' = pending \/ pending' = Nothing
      BY <3>3 DEF Progress, ServeLoad, ServeTransition, ServeCreate, LoseCall, Reload, GiveUp,
         Finish, CloseDialogs, dialogs
    <3>. QED BY <3>1, <3>2, <3>3 DEF Next
  <2>. QED BY <2>1, <2>2, <2>3, <2>4
<1>. QED BY <1>1, <1>2, PTL DEF Spec

(* Every version the client sends is one the server gave out: the promise  *)
(* on which the theorems about RecordService rest (Lookahead = 0) is kept  *)
(* by the page, whatever answers come late and whatever others do.         *)
THEOREM ClientSendsGivenVersions == Spec => []VersionsAsGiven
<1>1. WInv => VersionsAsGiven
  <2>. SUFFICES ASSUME WInv, NEW c \in Calls, kind[c] = "transition"
                PROVE  subject[c].version \in 1 .. rows[subject[c].key].version
    BY DEF VersionsAsGiven
  <2>1. subject[c].open BY DEF WInv, MovesServed
  <2>2. subject[c].version # 0 BY <2>1 DEF WInv, DialogsNumbered, Numbered
  <2>3. subject[c].version \in Nat /\ subject[c].key \in Records
    BY DEF WInv, TypeOK, PendingType
  <2>4. rows[subject[c].key].version \in Nat
    BY <2>3 DEF WInv, RowsTyped, RowType
  <2>5. subject[c].version < rows[subject[c].key].version
           \/ subject[c].version = rows[subject[c].key].version
    BY <2>1 DEF WInv, DialogsTrue, Truly, StillTrue
  <2>. QED BY <2>2, <2>3, <2>4, <2>5
<1>. QED BY <1>1, WorkspaceInvariant, PTL

=============================================================================
