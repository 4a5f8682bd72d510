------------------------------- MODULE Access -------------------------------
(***************************************************************************)
(* Who may call what.  Logging in puts a user's role into a token; every   *)
(* route under /api checks the token, and then the role in it against the  *)
(* route's demand.  Nothing looks at the user again while the token lasts. *)
(* A token is one that Login issued: its signature and issuer are right.   *)
(***************************************************************************)
EXTENDS Naturals

CONSTANT TokenTTL

ASSUME TokenAssumption == TokenTTL \in Nat \ {0}

roleRank == [viewer |-> 1, operator |-> 2, reviewer |-> 3, admin |-> 4]
Roles == DOMAIN roleRank

(* A Go map yields 0 for a key it does not have.                           *)
Rank(role) == IF role \in Roles THEN roleRank[role] ELSE 0

RequireRoles(allowed, role) == role \in allowed

RequireMinimumRole(minimum, role) == Rank(minimum) # 0 /\ Rank(role) >= Rank(minimum)

WriteOps == {"create", "update", "transition"}
Oversight == {"audits", "audit-summary", "history", "runtime"}

(* What the routes demand of the role in the token.                        *)
RouteAdmits(role, op) ==
    /\ op \in WriteOps => RequireMinimumRole("operator", role)
    /\ op \in Oversight => RequireMinimumRole("reviewer", role)
    /\ op = "delete" => RequireRoles({"admin"}, role)

(* The handler of a deletion looks at the role once more.                  *)
HandlerAdmits(role, op) == op = "delete" => role = "admin"

Permitted(role, op) == RouteAdmits(role, op) /\ HandlerAdmits(role, op)

-----------------------------------------------------------------------------
NoToken == [user |-> "", role |-> "", issued |-> 0, expires |-> 0]

Issue(user, role, now) ==
    [user |-> user, role |-> role, issued |-> now, expires |-> now + TokenTTL]

(* Mutant: an expired token is as good as a new one.                       *)
AuthenticateForEver(t, now) == t.user # "" /\ Rank(t.role) # 0

(* Authenticate: a token that has not expired, whose claims are complete   *)
(* and whose role is one of the four.                                      *)
Authenticate(t, now) ==
    /\ t.user # "" /\ Rank(t.role) # 0
    /\ now < t.expires

-----------------------------------------------------------------------------
(* The web client: EntityPage's canWrite, and the operations it offers to  *)
(* a user who has it.  It has no button that edits or deletes a record.    *)
CanWrite(role) == role \in {"operator", "reviewer", "admin"}
ClientWrites == {"create", "transition"}

=============================================================================
