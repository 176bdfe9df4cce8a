------------------------------- MODULE Roles -------------------------------
(***************************************************************************)
(* The role checks every route is guarded by                               *)
(* (backend/internal/middleware/auth.go and the Register methods of the    *)
(* handlers).  The role comes from the claims of the bearer token, which   *)
(* nothing changes while the token lives.  Seed creates one user per role  *)
(* and no route creates another, so a user is named by its role.           *)
(***************************************************************************)
EXTENDS Naturals

roleRank == [viewer |-> 1, operator |-> 2, reviewer |-> 3, admin |-> 4]

Users == DOMAIN roleRank

RequireMinimumRole(minimum, role) == roleRank[role] >= roleRank[minimum]

RequireRoles(roles, role) == role \in roles

\* The guard each resource route is registered with; the four resources
\* register the same guards.
Permitted(op, role) ==
  \/ op = "get"
  \/ /\ op \in {"create", "update", "transition"}
     /\ RequireMinimumRole("operator", role)
  \/ /\ op = "delete"
     /\ RequireRoles({"admin"}, role)

=============================================================================
