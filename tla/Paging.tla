------------------------------- MODULE Paging -------------------------------
(***************************************************************************)
(* The numbers of a query string on their way to the database: each is     *)
(* clamped in the handler or its dto and once more in the repository or    *)
(* the service.  Go's int is as wide as MaxInt says.                       *)
(***************************************************************************)
EXTENDS Integers

CONSTANT MaxInt

ASSUME MaxIntAssumption == MaxInt \in Nat \ {0}

DefaultPageSize == 20
MaxPageSize == 100

(* A number that is missing or does not parse is the zero value.           *)
bindPage(page, pageSize) ==
    [page |-> IF page < 1 THEN 1 ELSE page,
     pageSize |-> IF pageSize < 1 \/ pageSize > MaxPageSize THEN DefaultPageSize ELSE pageSize]

normalizePage(page, pageSize) ==
    [page |-> IF page < 1 THEN 1 ELSE page,
     pageSize |-> CASE pageSize < 1 -> DefaultPageSize
                    [] pageSize > MaxPageSize -> MaxPageSize
                    [] OTHER -> pageSize]

(* Two's complement.                                                       *)
Wrap(n) == ((n + MaxInt + 1) % (2 * MaxInt + 2)) - (MaxInt + 1)

Offset(page, pageSize) == Wrap((page - 1) * pageSize)

(* gorm leaves an OFFSET out that is not positive.                         *)
Skipped(page, pageSize) == IF Offset(page, pageSize) > 0 THEN Offset(page, pageSize) ELSE 0

NormalizedLimit(limit) ==
    CASE limit < 1 -> 20
      [] limit > 100 -> 100
      [] OTHER -> limit

(* EntityHistory's own clamp.                                              *)
HistoryLimit(limit) == IF limit < 1 THEN 20 ELSE IF limit > 100 THEN 100 ELSE limit

(* In hours.                                                               *)
Window(hours) ==
    CASE hours < 1 -> 24
      [] hours > 24 * 90 -> 24 * 90
      [] OTHER -> hours

(* AuditSummary's own clamp, of a window in hours.                         *)
SummaryWindow(hours) ==
    IF hours < 1 THEN 24 ELSE IF hours > 90 * 24 THEN 90 * 24 ELSE hours

=============================================================================
