---------------------------- MODULE BoundsProofs ----------------------------
(***************************************************************************)
(* Numbers that pass several hands: the query string of a list, clamped    *)
(* twice and multiplied, and the environment, parsed and validated.        *)
(***************************************************************************)
EXTENDS Paging, Config, TLAPS

(* The handler's clamp leaves nothing for the repository's to do.  This is *)
(* what lets the handler of /audits answer with its own page and size: the *)
(* repository, which clamps differently, used the same.                    *)
THEOREM BoundPageIsNormal ==
    ASSUME NEW page \in Int, NEW pageSize \in Int
    PROVE  LET q == bindPage(page, pageSize)
           IN  /\ normalizePage(q.page, q.pageSize) = q
               /\ q.page >= 1 /\ q.pageSize \in 1 .. MaxPageSize
BY DEF bindPage, normalizePage, DefaultPageSize, MaxPageSize

(* The same of the limit of a history and of the window of a summary.      *)
THEOREM ClampsAgree ==
    ASSUME NEW n \in Int
    PROVE  /\ HistoryLimit(NormalizedLimit(n)) = NormalizedLimit(n)
           /\ NormalizedLimit(n) \in 1 .. 100
           /\ SummaryWindow(Window(n)) = Window(n)
           /\ Window(n) \in 1 .. 24 * 90
BY DEF HistoryLimit, NormalizedLimit, SummaryWindow, Window

LEMMA WrapIsExact ==
    ASSUME NEW n \in 0 .. MaxInt
    PROVE  Wrap(n) = n
<1> DEFINE width == 2 * MaxInt + 2
<1>1. /\ n + MaxInt + 1 \in Int /\ width \in Int /\ width > 0
      /\ 0 <= n + MaxInt + 1 /\ n + MaxInt + 1 < width
  BY MaxIntAssumption
<1>2. \A a, b \in Int : b > 0 /\ 0 <= a /\ a < b => a % b = a
  OBVIOUS
<1>3. (n + MaxInt + 1) % width = n + MaxInt + 1
  BY <1>1, <1>2
<1> QED
  BY <1>3, MaxIntAssumption DEF Wrap

(* Up to a page of MaxInt / 100 a list skips the rows of the pages before, *)
(* and no others: the product cannot wrap, whatever the page size.         *)
THEOREM OffsetIsExact ==
    ASSUME NEW page \in Nat \ {0}, NEW pageSize \in 1 .. MaxPageSize,
           (page - 1) * MaxPageSize <= MaxInt
    PROVE  Skipped(page, pageSize) = (page - 1) * pageSize
<1>1. (page - 1) * pageSize <= (page - 1) * MaxPageSize /\ 0 <= (page - 1) * pageSize
  <2>1. \A a, b, c \in Nat : b <= c => a * b <= a * c /\ 0 <= a * b
    OBVIOUS
  <2> QED
    BY <2>1 DEF MaxPageSize
<1>2. (page - 1) * pageSize \in 0 .. MaxInt
  BY <1>1, MaxIntAssumption DEF MaxPageSize
<1>3. Offset(page, pageSize) = (page - 1) * pageSize
  BY <1>2, WrapIsExact DEF Offset
<1> QED
  BY <1>2, <1>3, MaxIntAssumption DEF Skipped

-----------------------------------------------------------------------------
LEMMA NumbersArePositive ==
    ASSUME Second \in Nat \ {0}, NEW e \in Environments, NEW n \in NumberNames
    PROVE  numberEnv(e, n) \in Int /\ numberEnv(e, n) > 0
<1>1. NumberDefault[n] \in Int /\ NumberDefault[n] > 0
  BY DEF NumberDefault, NumberNames
<1>2. e.number[n].value \in Int
  BY DEF Environments
<1> QED
  BY <1>1, <1>2 DEF numberEnv

(* Parsing takes care of most of what validation asks: a server refuses    *)
(* its environment for its driver, its secret or its request limit, and    *)
(* for nothing else.                                                       *)
THEOREM WhatIsRefused ==
    ASSUME Second \in Nat \ {0}, NEW e \in Environments
    PROVE  Loads(e) <=> /\ DriverSupported(Built(e))
                        /\ SecretLongEnough(Built(e))
                        /\ LimitInRange(Built(e))
<1>1. NamesGiven(Built(e))
  <2>1. "APP_NAME" \in TextNames /\ "PORT" \in TextNames /\ TextDefault["APP_NAME"] # ""
        /\ TextDefault["PORT"] # ""
    BY DEF TextNames, TextDefault
  <2> QED
    BY <2>1 DEF NamesGiven, Built, env
<1>2. TimeoutsPositive(Built(e))
  <2>1. Timeouts \subseteq NumberNames
    BY DEF Timeouts, NumberNames, NumberDefault
  <2> QED
    BY <2>1, NumbersArePositive DEF TimeoutsPositive, Built
<1> QED
  BY <1>1, <1>2 DEF Loads, Validate

(* A server that starts has what the other modules assume of its settings: *)
(* a positive lifetime of tokens, which validation does not look at, and a *)
(* request limit, each in spite of whatever the environment says.          *)
THEOREM LoadedSettingsAreUsable ==
    ASSUME Second \in Nat \ {0}, NEW e \in Environments, Loads(e)
    PROVE  /\ \A n \in NumberNames : Built(e).number[n] \in Nat \ {0}
           /\ Built(e).number["REQUEST_LIMIT"] >= MinRequestLimit
           /\ Bytes(Built(e).text["JWT_SECRET"]) >= 16
<1>1. \A n \in NumberNames : Built(e).number[n] \in Nat \ {0}
  BY NumbersArePositive DEF Built
<1>2. LimitInRange(Built(e)) /\ SecretLongEnough(Built(e))
  BY DEF Loads, Validate
<1>3. Built(e).number["REQUEST_LIMIT"] >= MinRequestLimit
  BY <1>2, Zenon DEF LimitInRange
<1>4. Bytes(Built(e).text["JWT_SECRET"]) >= 16
  BY <1>2, Zenon DEF SecretLongEnough
<1> QED
  BY <1>1, <1>3, <1>4

=============================================================================
