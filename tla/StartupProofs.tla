--------------------------- MODULE StartupProofs ---------------------------
(***************************************************************************)
(* Proofs about Startup, for any number of servers, tables, rows and       *)
(* faults: what a server that answers can rely on, and what the seeding of *)
(* a start may do to the tables.                                           *)
(***************************************************************************)
EXTENDS Startup, TLAPS

(* A table that holds or held any row holds or held all of its seeds:      *)
(* nothing but one INSERT of all of them comes first.                      *)
AllOrNothing == \A t \in Tables : Indexed(t) # {} => Seeded(t)

(* A server has left seeded tables behind it.                              *)
BehindItSeeded ==
    \A s \in Servers :
        /\ phase[s] \in {"count", "insert"} => \A t \in Tables : t < table[s] => Seeded(t)
        /\ phase[s] \in {"redis", "serving"} => \A t \in Tables : Seeded(t)

SInv == TypeOK /\ AllOrNothing /\ BehindItSeeded

-----------------------------------------------------------------------------
LEMMA InitSInv == Init => SInv
BY TablesAssumption, AttemptsAssumption, FaultsAssumption
   DEF Init, SInv, TypeOK, AllOrNothing, BehindItSeeded, Seeded, Indexed, Tables, Codes, Phases

(* A code never leaves the unique index.                                   *)
LEMMA IndexGrows ==
    ASSUME TypeOK, TypeOK', Next
    PROVE  \A t \in Tables : Indexed(t) \subseteq Indexed(t)'
<1>1. ASSUME NEW s \in Servers, InsertSeeds(s)
      PROVE  \A t \in Tables : Indexed(t) \subseteq Indexed(t)'
  <2>1. \/ UNCHANGED live
        \/ live' = [live EXCEPT ![table[s]] = @ \cup Seeds]
    BY <1>1 DEF InsertSeeds
  <2>2. \A t \in Tables : live[t] \subseteq live'[t]
    BY <2>1 DEF TypeOK
  <2> QED BY <1>1, <2>2 DEF InsertSeeds, Indexed
<1>2. ASSUME NEW t \in Tables, NEW c \in Codes, CreateRow(t, c)
      PROVE  \A u \in Tables : Indexed(u) \subseteq Indexed(u)'
  BY <1>2 DEF TypeOK, CreateRow, Indexed
<1>3. ASSUME NEW t \in Tables, NEW c \in Codes, RemoveRow(t, c)
      PROVE  \A u \in Tables : Indexed(u) \subseteq Indexed(u)'
  BY <1>3 DEF TypeOK, RemoveRow, Indexed
<1>4. ASSUME UNCHANGED <<live, gone>> PROVE \A t \in Tables : Indexed(t) \subseteq Indexed(t)'
  BY <1>4 DEF Indexed
<1> QED
  BY <1>1, <1>2, <1>3, <1>4
     DEF Next, Boot, Start, OpenPool, Ping, PingAgain, Migrate, CountRows, PingRedis, Crash,
         Outage, Repair

LEMMA TypeStep == ASSUME SInv, [Next]_vars PROVE TypeOK'
<1> USE TablesAssumption, AttemptsAssumption, FaultsAssumption
<1> SUFFICES ASSUME TypeOK, Next PROVE TypeOK'
  <2>1. UNCHANGED vars => TypeOK' BY DEF SInv, TypeOK, vars
  <2> QED BY <2>1 DEF SInv
<1>1. ASSUME NEW s \in Servers, Start(s) PROVE TypeOK'
  BY <1>1 DEF TypeOK, Start, GoTo, Phases
<1>2. ASSUME NEW s \in Servers, OpenPool(s) \/ Ping(s) \/ PingAgain(s) PROVE TypeOK'
  BY <1>2 DEF TypeOK, OpenPool, Ping, PingAgain, AttemptOver, GoTo, Phases
<1>3. ASSUME NEW s \in Servers, Migrate(s) \/ PingRedis(s) PROVE TypeOK'
  BY <1>3 DEF TypeOK, Migrate, PingRedis, GoTo, Phases, Tables
<1> DEFINE Placed == phase' \in [Servers -> Phases] /\ table' \in [Servers -> Tables]
<1>a. ASSUME NEW s \in Servers, NEW p \in Phases, GoTo(s, p) PROVE phase' \in [Servers -> Phases]
  BY <1>a DEF TypeOK, GoTo
<1>b. ASSUME NEW s \in Servers, SeedNextTable(s) PROVE Placed
  <2>1. phase' \in [Servers -> Phases] BY <1>a, <1>b DEF SeedNextTable, Phases
  <2>2. table[s] < LastTable => table[s] + 1 \in Tables BY DEF TypeOK, Tables
  <2> QED BY <1>b, <2>1, <2>2 DEF SeedNextTable, TypeOK
<1>c. ASSUME NEW s \in Servers, Fail(s) PROVE Placed
  BY <1>a, <1>c DEF Fail, TypeOK, Phases
<1>4. ASSUME NEW s \in Servers, CountRows(s) PROVE TypeOK'
  <2>1. GoTo(s, "insert") /\ UNCHANGED table => Placed BY <1>a DEF TypeOK, Phases
  <2>2. Placed BY <1>4, <1>b, <1>c, <2>1 DEF CountRows
  <2> QED BY <1>4, <2>2 DEF TypeOK, CountRows
<1>5. ASSUME NEW s \in Servers, InsertSeeds(s) PROVE TypeOK'
  <2>1. Placed BY <1>5, <1>b, <1>c DEF InsertSeeds
  <2>2. CASE UNCHANGED live BY <1>5, <2>1, <2>2 DEF TypeOK, InsertSeeds
  <2>3. CASE /\ Seeds \cap Indexed(table[s]) = {}
             /\ live' = [live EXCEPT ![table[s]] = @ \cup Seeds]
    <3>1. live' \in [Tables -> SUBSET Codes] BY <2>3 DEF TypeOK, Codes
    <3>2. \A t \in Tables : live'[t] \cap gone[t] = {} BY <2>3 DEF TypeOK, Indexed
    <3> QED BY <1>5, <2>1, <3>1, <3>2 DEF TypeOK, InsertSeeds
  <2> QED BY <1>5, <2>2, <2>3 DEF InsertSeeds
<1>6. ASSUME NEW t \in Tables, NEW c \in Codes, CreateRow(t, c) PROVE TypeOK'
  BY <1>6 DEF TypeOK, CreateRow, Indexed
<1>7. ASSUME NEW t \in Tables, NEW c \in Codes, RemoveRow(t, c) PROVE TypeOK'
  BY <1>7 DEF TypeOK, RemoveRow
<1>8. ASSUME NEW s \in Servers, Crash(s) PROVE TypeOK'
  BY <1>8 DEF TypeOK, Crash, Disturbed, GoTo, Phases
<1>9. ASSUME NEW d \in Dependencies, Outage(d) \/ Repair(d) PROVE TypeOK'
  <2>1. up' \subseteq Dependencies BY <1>9 DEF TypeOK, Outage, Repair
  <2>2. faults' \in 0 .. MaxFaults BY <1>9 DEF TypeOK, Outage, Repair, Disturbed
  <2> QED BY <1>9, <2>1, <2>2 DEF TypeOK, Outage, Repair
<1> QED BY <1>1, <1>2, <1>3, <1>4, <1>5, <1>6, <1>7, <1>8, <1>9 DEF Next, Boot

LEMMA AllOrNothingStep == ASSUME SInv, TypeOK', [Next]_vars PROVE AllOrNothing'
<1> SUFFICES ASSUME Next PROVE AllOrNothing'
  <2>1. UNCHANGED vars => AllOrNothing'
    BY DEF SInv, AllOrNothing, Seeded, Indexed, vars
  <2> QED BY <2>1
<1>1. \A t \in Tables : Seeded(t) => Seeded(t)'
  BY IndexGrows DEF SInv, Seeded
<1>2. ASSUME NEW t \in Tables, Indexed(t)' # Indexed(t) PROVE Seeded(t)'
  <2>1. ASSUME NEW s \in Servers, InsertSeeds(s) PROVE Seeded(t)'
    BY <1>2, <2>1 DEF InsertSeeds, SInv, TypeOK, Seeded, Indexed
  <2>2. ASSUME NEW u \in Tables, NEW c \in Codes, CreateRow(u, c) PROVE Seeded(t)'
    BY <1>1, <2>2 DEF CreateRow, SInv, BehindItSeeded
  <2>3. ASSUME NEW u \in Tables, NEW c \in Codes, RemoveRow(u, c) PROVE Indexed(t)' = Indexed(t)
    BY <2>3 DEF RemoveRow, SInv, TypeOK, Indexed
  <2>4. UNCHANGED <<live, gone>> => Indexed(t)' = Indexed(t) BY DEF Indexed
  <2> QED
    BY <1>2, <2>1, <2>2, <2>3, <2>4
       DEF Next, Boot, Start, OpenPool, Ping, PingAgain, Migrate, CountRows, PingRedis, Crash,
           Outage, Repair
<1> QED BY <1>1, <1>2 DEF AllOrNothing, SInv

LEMMA BehindItSeededStep == ASSUME SInv, TypeOK', [Next]_vars PROVE BehindItSeeded'
<1> SUFFICES ASSUME Next PROVE BehindItSeeded'
  <2>1. UNCHANGED vars => BehindItSeeded'
    BY DEF SInv, BehindItSeeded, Seeded, Indexed, vars
  <2> QED BY <2>1
<1>1. \A t \in Tables : Seeded(t) => Seeded(t)'
  BY IndexGrows DEF SInv, Seeded
<1> SUFFICES ASSUME NEW p \in Servers
             PROVE  /\ phase'[p] \in {"count", "insert"} =>
                          \A t \in Tables : t < table'[p] => Seeded(t)'
                    /\ phase'[p] \in {"redis", "serving"} => \A t \in Tables : Seeded(t)'
  BY DEF BehindItSeeded
<1>2. CASE phase'[p] = phase[p] /\ table'[p] = table[p]
  BY <1>1, <1>2 DEF SInv, BehindItSeeded
<1>3. CASE phase'[p] \notin {"count", "insert", "redis", "serving"}
  BY <1>3
<1>4. CASE Migrate(p)
  BY <1>4 DEF Migrate, GoTo, SInv, TypeOK, Tables
<1>5. CASE CountRows(p) \/ InsertSeeds(p)
  <2>1. \A t \in Tables : t < table[p] => Seeded(t)
    BY <1>5 DEF CountRows, InsertSeeds, SInv, BehindItSeeded
  <2>2. CASE Fail(p)
    BY <2>2, <1>3 DEF Fail, GoTo, SInv, TypeOK
  <2> PICK here \in Tables : here = table[p]
    BY DEF SInv, TypeOK
  <2>3. ASSUME SeedNextTable(p), Seeded(here)'
        PROVE  /\ phase'[p] \in {"count", "insert"} => \A t \in Tables : t < table'[p] => Seeded(t)'
               /\ phase'[p] \in {"redis", "serving"} => \A t \in Tables : Seeded(t)'
    <3>1. \A t \in Tables : t <= here => Seeded(t)'
      BY <1>1, <2>1, <2>3 DEF Tables
    <3> QED
      BY <2>3, <3>1, TablesAssumption DEF SeedNextTable, GoTo, SInv, TypeOK, Tables
  <2>4. CASE CountRows(p) /\ GoTo(p, "insert") /\ UNCHANGED table
    BY <1>1, <2>1, <2>4 DEF GoTo, SInv, TypeOK
  <2>5. CASE CountRows(p) /\ live[here] # {} /\ SeedNextTable(p)
    <3>1. Seeded(here) BY <2>5 DEF SInv, AllOrNothing, Indexed
    <3> QED BY <1>1, <2>3, <2>5, <3>1
  <2>6. CASE InsertSeeds(p) /\ ~ Fail(p)
    <3>1. SeedNextTable(p) /\ live' = [live EXCEPT ![here] = @ \cup Seeds]
      BY <2>6 DEF InsertSeeds
    <3>2. Seeded(here)'
      BY <3>1 DEF SInv, TypeOK, Seeded, Indexed
    <3> QED BY <2>3, <3>1, <3>2
  <2> QED BY <1>5, <2>2, <2>4, <2>5, <2>6 DEF CountRows, LooksEmpty
<1>6. CASE PingRedis(p)
  BY <1>1, <1>6 DEF PingRedis, GoTo, SInv, TypeOK, BehindItSeeded
<1>7. ASSUME NEW s \in Servers, Start(s) \/ Crash(s)
      PROVE  \/ phase'[p] = phase[p] /\ table'[p] = table[p]
             \/ phase'[p] \in {"open", "down"}
  BY <1>7 DEF Start, Crash, GoTo, SInv, TypeOK
<1>8. ASSUME NEW s \in Servers, OpenPool(s) \/ Ping(s) \/ PingAgain(s)
      PROVE  \/ phase'[p] = phase[p] /\ table'[p] = table[p]
             \/ phase'[p] \in {"open", "ping", "reping", "migrate", "down"}
  BY <1>8 DEF OpenPool, Ping, PingAgain, AttemptOver, GoTo, SInv, TypeOK
<1>9. ASSUME NEW s \in Servers, s # p,
             Migrate(s) \/ CountRows(s) \/ InsertSeeds(s) \/ PingRedis(s)
      PROVE  phase'[p] = phase[p] /\ table'[p] = table[p]
  BY <1>9 DEF Migrate, CountRows, InsertSeeds, PingRedis, Fail, SeedNextTable, GoTo, SInv, TypeOK
<1>10. ASSUME UNCHANGED <<phase, table>> PROVE phase'[p] = phase[p] /\ table'[p] = table[p]
  BY <1>10
<1> QED
  BY <1>2, <1>3, <1>4, <1>5, <1>6, <1>7, <1>8, <1>9, <1>10
     DEF Next, Boot, CreateRow, RemoveRow, Outage, Repair

LEMMA SInvStep == SInv /\ [Next]_vars => SInv'
BY TypeStep, AllOrNothingStep, BehindItSeededStep DEF SInv

(* In every reachable state each table is either pristine or has all its   *)
(* seeds in the index, and a server has seeded tables behind its position, *)
(* although count and insert are two statements of two processes           *)
(* (database.go:127-131).                                                  *)
THEOREM SInvHolds == Spec => []SInv
BY InitSInv, SInvStep, PTL DEF Spec

-----------------------------------------------------------------------------
(* Tables and servers keep the types of the program's data; no code is     *)
(* both live and deleted.                                                  *)
THEOREM StartupTypeCorrect == Spec => []TypeOK
<1>1. SInv => TypeOK BY DEF SInv
<1> QED BY <1>1, SInvHolds, PTL

(* A server that answers has every table's seeds behind it, however many   *)
(* servers seed at the same time and wherever starts break off.            *)
THEOREM WhatServesIsSeeded == Spec => []ServingIsSeeded
<1>1. SInv => ServingIsSeeded BY DEF SInv, BehindItSeeded, ServingIsSeeded
<1> QED BY <1>1, SInvHolds, PTL

(* Seeds go all at once into tables that never held a row, and nowhere     *)
(* else: no start revives a removed record.                                *)
THEOREM StartsLeaveDataAlone == Spec => SeedsOnlyPristineTables
<1> DEFINE Pristine(t) ==
        Seeds \cap (live'[t] \ live[t]) # {} => Indexed(t) = {} /\ live'[t] = Seeds
<1>1. ASSUME SInv, [Next]_vars PROVE \A t \in Tables : Pristine(t)
  <2> SUFFICES ASSUME NEW t \in Tables, Seeds \cap (live'[t] \ live[t]) # {}
               PROVE  Indexed(t) = {} /\ live'[t] = Seeds
    OBVIOUS
  <2>1. ASSUME NEW s \in Servers, InsertSeeds(s) PROVE Indexed(t) = {} /\ live'[t] = Seeds
    <3>1. t = table[s] /\ Seeds \cap Indexed(t) = {} /\ live'[t] = live[t] \cup Seeds
      BY <1>1, <2>1 DEF InsertSeeds, SInv, TypeOK
    <3>2. Indexed(t) = {}
      BY <1>1, <3>1, SeedsAssumption DEF SInv, AllOrNothing, Seeded
    <3> QED BY <3>1, <3>2 DEF Indexed
  <2>2. ASSUME NEW u \in Tables, NEW c \in Codes, CreateRow(u, c) PROVE FALSE
    BY <1>1, <2>2 DEF CreateRow, SInv, TypeOK, BehindItSeeded, Seeded
  <2>3. ASSUME NEW u \in Tables, NEW c \in Codes, RemoveRow(u, c) PROVE FALSE
    BY <1>1, <2>3 DEF RemoveRow, SInv, TypeOK
  <2>4. UNCHANGED live => FALSE OBVIOUS
  <2> QED
    BY <1>1, <2>1, <2>2, <2>3, <2>4
       DEF Next, Boot, Start, OpenPool, Ping, PingAgain, Migrate, CountRows, PingRedis, Crash,
           Outage, Repair, vars
<1>2. SInv /\ [Next]_vars => [\A t \in Tables : Pristine(t)]_vars
  BY <1>1
<1> QED BY <1>2, SInvHolds, PTL DEF Spec, SeedsOnlyPristineTables

(* An emptied table that no server has left behind holds every start back  *)
(* for good: the one INSERT of its seeds (database.go:131) meets the codes *)
(* of the deleted rows, and only a serving server could make another row.  *)
THEOREM EmptiedTablesHoldBack == Spec => HeldBackForGood
<1>1. ASSUME SInv, [Next]_vars, NEW t \in Tables, HeldBack(t) PROVE HeldBack(t)'
  <2>1. Seeds \cap Indexed(t) # {}
    BY <1>1, SeedsAssumption DEF SInv, AllOrNothing, Seeded, Indexed, HeldBack
  <2>2. live'[t] = {} /\ gone'[t] # {}
    <3>1. ASSUME NEW s \in Servers, InsertSeeds(s) PROVE live'[t] = {} /\ gone'[t] # {}
      <4>1. \/ UNCHANGED live
            \/ /\ Seeds \cap Indexed(table[s]) = {}
               /\ live' = [live EXCEPT ![table[s]] = @ \cup Seeds]
        BY <3>1 DEF InsertSeeds
      <4>2. live'[t] = live[t] BY <2>1, <4>1, <1>1 DEF SInv, TypeOK
      <4>. QED BY <1>1, <3>1, <4>2 DEF InsertSeeds, HeldBack
    <3>2. ASSUME NEW u \in Tables, NEW c \in Codes, CreateRow(u, c) \/ RemoveRow(u, c)
          PROVE  FALSE
      BY <1>1, <3>2 DEF CreateRow, RemoveRow, HeldBack
    <3>3. UNCHANGED <<live, gone>> => live'[t] = {} /\ gone'[t] # {} BY <1>1 DEF HeldBack
    <3>. QED
      BY <1>1, <3>1, <3>2, <3>3
         DEF Next, Boot, Start, OpenPool, Ping, PingAgain, Migrate, CountRows, PingRedis, Crash,
             Outage, Repair, vars
  <2>3. ASSUME NEW p \in Servers
        PROVE  /\ phase'[p] \notin {"redis", "serving"}
               /\ phase'[p] \in {"count", "insert"} => table'[p] <= t
    <3>1. /\ phase[p] \notin {"redis", "serving"}
          /\ phase[p] \in {"count", "insert"} => table[p] <= t
      BY <1>1 DEF HeldBack
    <3>2. CASE phase'[p] = phase[p] /\ table'[p] = table[p] BY <3>1, <3>2
    <3>3. CASE Migrate(p)
      BY <1>1, <3>3 DEF Migrate, GoTo, SInv, TypeOK, Tables
    <3>4. CASE CountRows(p) \/ InsertSeeds(p)
      <4>1. table[p] <= t /\ table[p] \in Tables
        BY <1>1, <3>1, <3>4 DEF CountRows, InsertSeeds, SInv, TypeOK
      <4>2. CASE Fail(p)
        BY <1>1, <4>2 DEF Fail, GoTo, SInv, TypeOK
      <4>3. CASE CountRows(p) /\ GoTo(p, "insert") /\ UNCHANGED table
        BY <1>1, <4>1, <4>3 DEF GoTo, SInv, TypeOK
      <4>4. CASE SeedNextTable(p) /\ table[p] # t
        BY <1>1, <4>1, <4>4, TablesAssumption DEF SeedNextTable, GoTo, SInv, TypeOK, Tables
      <4>5. (CountRows(p) \/ InsertSeeds(p)) /\ ~ Fail(p) /\ table[p] = t
               => CountRows(p) /\ GoTo(p, "insert") /\ UNCHANGED table
        BY <1>1, <2>1 DEF CountRows, InsertSeeds, LooksEmpty, HeldBack
      <4>. QED BY <3>4, <4>2, <4>3, <4>4, <4>5 DEF CountRows, InsertSeeds
    <3>5. ASSUME NEW s \in Servers, Start(s) \/ Crash(s) \/ OpenPool(s) \/ Ping(s) \/ PingAgain(s)
          PROVE  \/ phase'[p] = phase[p] /\ table'[p] = table[p]
                 \/ phase'[p] \in {"open", "ping", "reping", "migrate", "down"}
      BY <1>1, <3>5 DEF Start, Crash, OpenPool, Ping, PingAgain, AttemptOver, GoTo, SInv, TypeOK
    <3>6. ASSUME NEW s \in Servers, s # p, Migrate(s) \/ CountRows(s) \/ InsertSeeds(s)
          PROVE  phase'[p] = phase[p] /\ table'[p] = table[p]
      BY <1>1, <3>6 DEF Migrate, CountRows, InsertSeeds, Fail, SeedNextTable, GoTo, SInv, TypeOK
    <3>7. ASSUME NEW s \in Servers, PingRedis(s) PROVE FALSE
      BY <1>1, <3>7 DEF PingRedis, HeldBack
    <3>. QED
      BY <1>1, <3>1, <3>2, <3>3, <3>4, <3>5, <3>6, <3>7
         DEF Next, Boot, CreateRow, RemoveRow, Outage, Repair, vars
  <2>. QED BY <2>2, <2>3 DEF HeldBack
<1>2. SInv /\ [Next]_vars => [\A t \in Tables : HeldBack(t) => HeldBack(t)']_vars
  BY <1>1
<1>. QED BY <1>2, SInvHolds, PTL DEF Spec, HeldBackForGood

=============================================================================
