-------------------------------- MODULE SeatCap --------------------------------
(***************************************************************************)
(* The seat cap of one tenant (apps/api/src/platform/seat.service.ts) and  *)
(* the IAM mutations that run under it (apps/api/src/iam).                 *)
(*                                                                         *)
(* withSeatCheck locks the tenant row FOR UPDATE and notes who is counted, *)
(* runs the mutation, counts again and throws if the mutation newly counts *)
(* someone beyond the cap.  The lock is kept to COMMIT.  A mutation is the *)
(* set of rows it writes; it is visible to others from COMMIT on.          *)
(***************************************************************************)
EXTENDS Integers, FiniteSets

CONSTANTS
  Users,        \* user ids, unused until a handler inserts one
  Admins,       \* is_super_admin users, created when the tenant is provisioned
  Roles,        \* role names (unique per tenant)
  SystemRoles,  \* roles with is_system
  Cap,          \* plan.included_seats + tenant.extra_seats, or NoCap
  NoCap,        \* the tenant has no plan
  SelfSignup,   \* tenant.allow_self_signup
  Requests,     \* concurrently running requests
  NoRequest,    \* nobody holds the tenant row
  MaxVersion    \* bound: permissions_version explored

ASSUME SeatAssumptions ==
  /\ IsFiniteSet(Users)
  /\ Admins \subseteq Users
  /\ SystemRoles \subseteq Roles
  /\ NoCap \notin Nat
  /\ Cap \in Nat \cup {NoCap}
  /\ SelfSignup \in BOOLEAN
  /\ NoRequest \notin Requests
  /\ MaxVersion \in Nat

VARIABLES
  status,   \* user.status, or "NONE" before the row exists
  roles,    \* per user: the roles user_role binds
  grants,   \* per role: "NONE" without a row, else what role_permission grants
  version,  \* user.permissions_version
  lock,     \* the request that holds the tenant row FOR UPDATE
  tx        \* per request: who was counted, then the rows written

rows == <<status, roles, grants, version>>
vars == <<status, roles, grants, version, lock, tx>>

UserStatus == {"NONE", "PENDING", "ACTIVE", "DISABLED"}

(* A role grants at most SCAN_ONLY_PERMISSIONS, or something beyond them.  *)
Grant == {"SCAN", "FULL"}

(* What one transaction writes: partial functions, and the users whose     *)
(* permissions_version it bumps.                                           *)
Writes ==
  [status : UNION {[S -> UserStatus \ {"NONE"}] : S \in SUBSET Users},
   roles : UNION {[S -> SUBSET Roles] : S \in SUBSET Users},
   grants : UNION {[S -> Grant] : S \in SUBSET Roles},
   bump : SUBSET Users]

Idle == [op |-> "idle"]
Tx == {Idle} \cup [op : {"locked"}, before : SUBSET Users] \cup [op : {"checked"}, writes : Writes]

TypeOK ==
  /\ status \in [Users -> UserStatus]
  /\ roles \in [Users -> SUBSET Roles]
  /\ grants \in [Roles -> Grant \cup {"NONE"}]
  /\ version \in [Users -> Nat]
  /\ lock \in Requests \cup {NoRequest}
  /\ tx \in [Requests -> Tx]
  /\ \A u \in Users : \A x \in roles[u] : grants[x] # "NONE"

Init ==
  /\ status = [u \in Users |-> IF u \in Admins THEN "ACTIVE" ELSE "NONE"]
  /\ roles = [u \in Users |-> {}]
  /\ grants = [x \in Roles |-> IF x \in SystemRoles THEN "FULL" ELSE "NONE"]
  /\ version = [u \in Users |-> 0]
  /\ lock = NoRequest
  /\ tx = [r \in Requests |-> Idle]

-----------------------------------------------------------------------------
(* SeatService.holders: a live PENDING or ACTIVE user is counted if a      *)
(* super-admin or if some role grants more than scanning.                  *)
counted(st, ro, gr) ==
  {u \in Users : /\ st[u] \in {"PENDING", "ACTIVE"}
                 /\ u \in Admins \/ \E x \in ro[u] : gr[x] = "FULL"}
Counted == counted(status, roles, grants)

(* A table as the writing transaction sees it.                             *)
over(table, written) ==
  [x \in DOMAIN table |-> IF x \in DOMAIN written THEN written[x] ELSE table[x]]

(* assertCapacity: only a mutation that newly counts someone is refused.   *)
assertCapacity(before, after) ==
  Cap = NoCap \/ after \subseteq before \/ Cardinality(after) <= Cap

(* Mutant: SELECT without FOR UPDATE.                                      *)
LockNotTaken(r) ==
  /\ tx[r] = Idle
  /\ lock' = r
  /\ tx' = [tx EXCEPT ![r] = [op |-> "locked", before |-> Counted]]
  /\ UNCHANGED rows

(* withSeatCheck, up to the mutation.                                      *)
Lock(r) ==
  /\ tx[r] = Idle
  /\ lock = NoRequest
  /\ lock' = r
  /\ tx' = [tx EXCEPT ![r] = [op |-> "locked", before |-> Counted]]
  /\ UNCHANGED rows

(* Who is counted once w is written.                                       *)
projected(w) ==
  counted(over(status, w.status), over(roles, w.roles), over(grants, w.grants))

(* The mutation, and the check on the projected counts.                    *)
mutate(r, w) ==
  /\ tx[r].op = "locked"
  /\ assertCapacity(tx[r].before, projected(w))
  /\ tx' = [tx EXCEPT ![r] = [op |-> "checked", writes |-> w]]
  /\ UNCHANGED <<rows, lock>>

NoChange == [x \in {} |-> x]
exists(u) == status[u] # "NONE"
boundTo(X) == {u \in Users : roles[u] \cap X # {}}

(* assignRoles: every role must exist.                                     *)
assignable == {x \in Roles : grants[x] # "NONE"}

(* UserService.create.                                                     *)
CreateUser(r, u, X) ==
  /\ ~ exists(u)
  /\ X \subseteq assignable
  /\ mutate(r, [status |-> [v \in {u} |-> "ACTIVE"], roles |-> [v \in {u} |-> X],
                grants |-> NoChange, bump |-> {}])

(* AuthService.signUpWithGoogle: an ACTIVE user without roles, in a tenant *)
(* that allows it.  An email that is taken is a 409.                       *)
SignUpWithGoogle(r, u) == SelfSignup /\ CreateUser(r, u, {})

(* UserService.setRoles.                                                   *)
SetRoles(r, u, X) ==
  /\ exists(u)
  /\ X \subseteq assignable
  /\ mutate(r, [status |-> NoChange, roles |-> [v \in {u} |-> X], grants |-> NoChange, bump |-> {u}])

(* UserService.setStatus.                                                  *)
SetStatus(r, u, s) ==
  /\ exists(u)
  /\ mutate(r, [status |-> [v \in {u} |-> s], roles |-> NoChange, grants |-> NoChange, bump |-> {}])

(* Mutant: the bound users keep their tokens.                              *)
GrantRolesKeepTokens(r, g) ==
  mutate(r, [status |-> NoChange, roles |-> NoChange, grants |-> g, bump |-> {}])

(* ImportService.import: each row of the sheet finds or creates a role and *)
(* replaces its grants, and every bound user is bumped.                    *)
GrantRoles(r, g) ==
  mutate(r, [status |-> NoChange, roles |-> NoChange, grants |-> g, bump |-> boundTo(DOMAIN g)])

(* RoleService.update with permission_codes: the same for a role that      *)
(* exists.                                                                 *)
UpdateRole(r, x, g) == grants[x] # "NONE" /\ GrantRoles(r, [y \in {x} |-> g])

Commit(r) ==
  /\ tx[r].op = "checked"
  /\ LET w == tx[r].writes
     IN /\ \A u \in w.bump : version[u] < MaxVersion
        /\ status' = over(status, w.status)
        /\ roles' = over(roles, w.roles)
        /\ grants' = over(grants, w.grants)
        /\ version' = [u \in Users |-> IF u \in w.bump THEN version[u] + 1 ELSE version[u]]
  /\ tx' = [tx EXCEPT ![r] = Idle]
  /\ lock' = NoRequest

(* A refused mutation throws; so may anything else before COMMIT.          *)
Rollback(r) ==
  /\ tx[r] # Idle
  /\ tx' = [tx EXCEPT ![r] = Idle]
  /\ lock' = NoRequest
  /\ UNCHANGED rows

-----------------------------------------------------------------------------
(* Mutations outside the seat check.  The rows of role x that a running    *)
(* transaction has written or referenced keep others out: the unique name  *)
(* and the foreign keys make them wait.                                    *)
untouched(x) ==
  \A r \in Requests :
    tx[r].op = "checked" =>
      /\ x \notin DOMAIN tx[r].writes.grants
      /\ \A u \in DOMAIN tx[r].writes.roles : x \notin tx[r].writes.roles[u]

(* RoleService.create: a new role has no users yet.                        *)
CreateRole(x, g) ==
  /\ grants[x] = "NONE"
  /\ untouched(x)
  /\ grants' = [grants EXCEPT ![x] = g]
  /\ UNCHANGED <<status, roles, version, lock, tx>>

(* RoleService.clone copies the committed grants of another role.          *)
CloneRole(x, y) == grants[y] # "NONE" /\ CreateRole(x, grants[y])

(* RoleService.delete: never a system role; a bound role is refused by the *)
(* check, or by the user_role foreign key if it was bound after the check. *)
DeleteRole(x) ==
  /\ grants[x] # "NONE"
  /\ x \notin SystemRoles
  /\ boundTo({x}) = {}
  /\ untouched(x)
  /\ grants' = [grants EXCEPT ![x] = "NONE"]
  /\ UNCHANGED <<status, roles, version, lock, tx>>

(* UserService.forceLogout: permissions_version + 1 in SQL; the sessions   *)
(* it revokes are not part of this model.                                  *)
ForceLogout(u) ==
  /\ exists(u)
  /\ version[u] < MaxVersion
  /\ version' = [version EXCEPT ![u] = @ + 1]
  /\ UNCHANGED <<status, roles, grants, lock, tx>>

GrantTables == UNION {[X -> Grant] : X \in (SUBSET Roles) \ {{}}}

Next ==
  \/ \E r \in Requests :
       \/ Lock(r) \/ Commit(r) \/ Rollback(r)
       \/ \E u \in Users : \E X \in SUBSET Roles : CreateUser(r, u, X) \/ SetRoles(r, u, X)
       \/ \E u \in Users : \E s \in UserStatus \ {"NONE"} : SetStatus(r, u, s)
       \/ \E u \in Users : SignUpWithGoogle(r, u)
       \/ \E g \in GrantTables : GrantRoles(r, g)
       \/ \E x \in Roles : \E g \in Grant : UpdateRole(r, x, g)
  \/ \E u \in Users : ForceLogout(u)
  \/ \E x \in Roles : \E g \in Grant : CreateRole(x, g)
  \/ \E x, y \in Roles : CloneRole(x, y)
  \/ \E x \in Roles : DeleteRole(x)

Spec == Init /\ [][Next]_vars

-----------------------------------------------------------------------------
(* "two concurrent creates cannot both slip under the cap": a step that    *)
(* newly counts someone leaves the tenant within its cap.                  *)
PromotionsFit ==
  [][Cap # NoCap /\ ~ (Counted' \subseteq Counted) => Cardinality(Counted') <= Cap]_vars

(* A user's effective permissions: the grants of the bound roles.          *)
permissions(u) == {grants[x] : x \in roles[u]}

(* "Effective permissions changed -> invalidate live tokens": an existing  *)
(* user's permissions never change without a new permissions_version.      *)
ChangeRevokesTokens ==
  [][\A u \in Users :
       exists(u) /\ permissions(u)' # permissions(u) => version'[u] > version[u]]_vars

-----------------------------------------------------------------------------
(* The inductive invariant behind both.                                    *)

(* The tenant row lock: at most one request is inside withSeatCheck.       *)
OneHolder == \A r \in Requests : tx[r] # Idle => lock = r

(* What the holder counted is still so: nobody else moves the count.       *)
BeforeIsCurrent == \A r \in Requests : tx[r].op = "locked" => tx[r].before = Counted

(* A checked mutation still fits, keeps the permissions of the users whose *)
(* tokens it leaves alone, and binds only roles that exist.                *)
fits(w) ==
  /\ assertCapacity(Counted, projected(w))
  /\ \A u \in Users :
       exists(u) /\ u \notin w.bump =>
         /\ u \notin DOMAIN w.roles
         /\ roles[u] \cap DOMAIN w.grants = {}
  /\ \A u \in Users : \A x \in over(roles, w.roles)[u] : over(grants, w.grants)[x] # "NONE"
CheckedFits == \A r \in Requests : tx[r].op = "checked" => fits(tx[r].writes)

IndInv == TypeOK /\ OneHolder /\ BeforeIsCurrent /\ CheckedFits
===============================================================================
