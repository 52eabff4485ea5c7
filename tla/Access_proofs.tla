----------------------------- MODULE Access_proofs -----------------------------
(***************************************************************************)
(* Theorems about who may do what.  Part 1, seats and roles (SeatCap): no  *)
(* interleaving of IAM requests takes a tenant past its seat cap, and none *)
(* changes a user's permissions under a live token.  Part 2, sessions      *)
(* (Sessions): revocation is instant, the lockout counts, and a tab keeps  *)
(* a session the server accepts.  The two share no state; both are for     *)
(* every set of users, roles and requests.                                 *)
(***************************************************************************)
EXTENDS SeatCap, Sessions, TLAPS

-----------------------------------------------------------------------------
(* Part 1.  Seats and roles.                                               *)

USE SeatAssumptions

(* A write of one user's status or roles, or of some roles' grants, is a   *)
(* well-formed set of writes.                                              *)
LEMMA WritesType ==
  ASSUME NEW w, NEW S \in SUBSET Users, NEW R \in SUBSET Users, NEW X \in SUBSET Roles,
         w = [status |-> w.status, roles |-> w.roles, grants |-> w.grants, bump |-> w.bump],
         w.status \in [S -> UserStatus \ {"NONE"}],
         w.roles \in [R -> SUBSET Roles],
         w.grants \in [X -> Grant],
         w.bump \in SUBSET Users
  PROVE  w \in Writes
  BY DEF Writes

(* The count depends only on the grants of the roles that are bound.       *)
LEMMA CountedSame ==
  ASSUME NEW st, NEW ro, NEW g, NEW h,
         \A u \in Users : \A x \in ro[u] : g[x] = h[x]
  PROVE  counted(st, ro, g) = counted(st, ro, h)
  BY DEF counted

(* The one-row sheet that RoleService.update amounts to.                   *)
LEMMA OneRowTable ==
  ASSUME NEW x \in Roles, NEW g \in Grant
  PROVE  [y \in {x} |-> g] \in GrantTables
<1>1. {x} \in (SUBSET Roles) \ {{}} /\ [y \in {x} |-> g] \in [{x} -> Grant]
  OBVIOUS
<1> QED
  BY <1>1 DEF GrantTables

LEMMA InitIndInv == Init => IndInv
  BY DEF Init, IndInv, TypeOK, OneHolder, BeforeIsCurrent, CheckedFits, UserStatus, Grant,
         Tx, Idle

(* A mutation by the holder of the lock.                                   *)
LEMMA MutateStep ==
  ASSUME IndInv, NEW r \in Requests, NEW w \in Writes, mutate(r, w),
         \A u \in Users :
           exists(u) /\ u \notin w.bump =>
             u \notin DOMAIN w.roles /\ roles[u] \cap DOMAIN w.grants = {},
         \A u \in Users : \A x \in over(roles, w.roles)[u] : over(grants, w.grants)[x] # "NONE"
  PROVE  IndInv'
<1>1. /\ UNCHANGED <<status, roles, grants, version, lock>>
      /\ tx[r].op = "locked"
      /\ tx' = [tx EXCEPT ![r] = [op |-> "checked", writes |-> w]]
  BY DEF mutate, rows
<1>2. TypeOK'
  <2>1. [op |-> "checked", writes |-> w] \in Tx
    BY DEF Tx
  <2> QED
    BY <1>1, <2>1 DEF IndInv, TypeOK
<1>3. fits(w)
  BY <1>1 DEF mutate, fits, IndInv, BeforeIsCurrent
<1>5. \A q \in Requests : tx'[q] = IF q = r THEN [op |-> "checked", writes |-> w] ELSE tx[q]
  BY <1>1 DEF IndInv, TypeOK
<1>6. \A q \in Requests : q # r => tx[q] = Idle
  BY <1>1 DEF IndInv, OneHolder, Idle
<1>7. OneHolder' /\ BeforeIsCurrent'
  BY <1>1, <1>5, <1>6 DEF IndInv, OneHolder, BeforeIsCurrent, Idle
<1>8. CheckedFits'
  <2> SUFFICES ASSUME NEW q \in Requests, tx'[q].op = "checked" PROVE fits(tx[q].writes)'
    BY DEF CheckedFits
  <2>1. tx'[q].writes = w
    BY <1>5, <1>6 DEF Idle
  <2> QED
    BY <1>1, <1>3, <2>1 DEF fits, Counted, projected, exists, assertCapacity
<1> QED
  BY <1>2, <1>7, <1>8 DEF IndInv

(* The four mutations write well-formed rows, bump whom they must, and     *)
(* bind only roles that exist.                                             *)
LEMMA MutationStep ==
  ASSUME IndInv, NEW r \in Requests,
         \/ \E u \in Users : \E X \in SUBSET Roles : CreateUser(r, u, X) \/ SetRoles(r, u, X)
         \/ \E u \in Users : \E s \in UserStatus \ {"NONE"} : SetStatus(r, u, s)
         \/ \E u \in Users : SignUpWithGoogle(r, u)
         \/ \E g \in GrantTables : GrantRoles(r, g)
         \/ \E x \in Roles : \E g \in Grant : UpdateRole(r, x, g)
  PROVE  IndInv'
<1>0. TypeOK
  BY DEF IndInv
<1>n. /\ NoChange \in [{} -> UserStatus \ {"NONE"}]
      /\ NoChange \in [{} -> SUBSET Roles]
      /\ NoChange \in [{} -> Grant]
      /\ DOMAIN NoChange = {}
  BY DEF NoChange
<1>o. over(roles, NoChange) = roles /\ over(grants, NoChange) = grants
  BY <1>0, <1>n DEF over, TypeOK
<1>1. ASSUME NEW u \in Users, NEW X \in SUBSET Roles, CreateUser(r, u, X) PROVE IndInv'
  <2> DEFINE w == [status |-> [v \in {u} |-> "ACTIVE"], roles |-> [v \in {u} |-> X],
                   grants |-> NoChange, bump |-> {}]
  <2>1. w \in Writes
    <3>1. /\ [v \in {u} |-> "ACTIVE"] \in [{u} -> UserStatus \ {"NONE"}]
          /\ [v \in {u} |-> X] \in [{u} -> SUBSET Roles]
      BY DEF UserStatus
    <3> QED
      BY <1>n, <3>1, WritesType
  <2>2. mutate(r, w) /\ ~ exists(u) /\ X \subseteq assignable
    BY <1>1 DEF CreateUser
  <2>3. \A v \in Users : exists(v) => v \notin DOMAIN w.roles /\ roles[v] \cap DOMAIN w.grants = {}
    BY <1>n, <2>2
  <2>4. \A v \in Users : \A x \in over(roles, w.roles)[v] : over(grants, w.grants)[x] # "NONE"
    BY <1>0, <1>o, <2>2 DEF over, TypeOK, assignable
  <2> HIDE DEF w
  <2> QED
    BY <2>1, <2>2, <2>3, <2>4, MutateStep
<1>2. ASSUME NEW u \in Users, NEW X \in SUBSET Roles, SetRoles(r, u, X) PROVE IndInv'
  <2> DEFINE w == [status |-> NoChange, roles |-> [v \in {u} |-> X], grants |-> NoChange,
                       bump |-> {u}]
  <2>1. w \in Writes
    BY <1>n, WritesType
  <2>2. mutate(r, w) /\ X \subseteq assignable
    BY <1>2 DEF SetRoles
  <2>3. \A v \in Users : v \notin w.bump =>
           v \notin DOMAIN w.roles /\ roles[v] \cap DOMAIN w.grants = {}
    BY <1>n
  <2>4. \A v \in Users : \A x \in over(roles, w.roles)[v] : over(grants, w.grants)[x] # "NONE"
    BY <1>0, <1>o, <2>2 DEF over, TypeOK, assignable
  <2> HIDE DEF w
  <2> QED
    BY <2>1, <2>2, <2>3, <2>4, MutateStep
<1>3. ASSUME NEW u \in Users, NEW s \in UserStatus \ {"NONE"}, SetStatus(r, u, s) PROVE IndInv'
  <2> DEFINE w == [status |-> [v \in {u} |-> s], roles |-> NoChange, grants |-> NoChange,
                       bump |-> {}]
  <2>1. w \in Writes
    BY <1>n, WritesType
  <2>2. mutate(r, w)
    BY <1>3 DEF SetStatus
  <2>3. \A v \in Users : v \notin DOMAIN w.roles /\ roles[v] \cap DOMAIN w.grants = {}
    BY <1>n
  <2>4. \A v \in Users : \A x \in over(roles, w.roles)[v] : over(grants, w.grants)[x] # "NONE"
    BY <1>0, <1>o DEF TypeOK
  <2> HIDE DEF w
  <2> QED
    BY <2>1, <2>2, <2>3, <2>4, MutateStep
<1>4. ASSUME NEW g \in GrantTables, GrantRoles(r, g) PROVE IndInv'
  <2> DEFINE w == [status |-> NoChange, roles |-> NoChange, grants |-> g,
                       bump |-> boundTo(DOMAIN g)]
  <2>0. PICK S \in SUBSET Roles : g \in [S -> Grant]
    BY DEF GrantTables
  <2>1. w \in Writes
    BY <1>n, <2>0, WritesType DEF boundTo
  <2>2. mutate(r, w)
    BY <1>4 DEF GrantRoles
  <2>3. \A v \in Users : v \notin w.bump =>
           v \notin DOMAIN w.roles /\ roles[v] \cap DOMAIN w.grants = {}
    BY <1>n DEF boundTo
  <2>4. \A v \in Users : \A x \in over(roles, w.roles)[v] : over(grants, w.grants)[x] # "NONE"
    BY <1>0, <1>o, <2>0 DEF over, TypeOK, Grant
  <2> HIDE DEF w
  <2> QED
    BY <2>1, <2>2, <2>3, <2>4, MutateStep
<1>5. ASSUME NEW u \in Users, SignUpWithGoogle(r, u) PROVE IndInv'
  BY <1>1, <1>5 DEF SignUpWithGoogle
<1>6. ASSUME NEW x \in Roles, NEW g \in Grant, UpdateRole(r, x, g) PROVE IndInv'
  BY <1>4, <1>6, OneRowTable DEF UpdateRole
<1> QED
  BY <1>1, <1>2, <1>3, <1>4, <1>5, <1>6

(* COMMIT makes the projected count the count.                             *)
LEMMA CommitEffect ==
  ASSUME IndInv, NEW r \in Requests, Commit(r)
  PROVE  /\ tx[r].writes \in Writes
         /\ fits(tx[r].writes)
         /\ Counted' = projected(tx[r].writes)
<1>1. tx[r] \in [op : {"checked"}, writes : Writes]
  BY DEF Commit, IndInv, TypeOK, Tx, Idle
<1>2. fits(tx[r].writes)
  BY DEF Commit, IndInv, CheckedFits
<1>3. Counted' = projected(tx[r].writes)
  BY DEF Commit, Counted, projected
<1> QED
  BY <1>1, <1>2, <1>3

LEMMA CommitStep ==
  ASSUME IndInv, NEW r \in Requests, Commit(r)
  PROVE  IndInv'
<1> DEFINE w == tx[r].writes
<1>0. w \in Writes /\ fits(w)
  BY CommitEffect
<1>1. status' \in [Users -> UserStatus]
  <2>1. PICK S \in SUBSET Users : w.status \in [S -> UserStatus \ {"NONE"}]
    BY <1>0 DEF Writes
  <2>2. over(status, w.status) \in [Users -> UserStatus]
    BY <2>1 DEF over, IndInv, TypeOK
  <2> QED
    BY <2>2 DEF Commit
<1>2. roles' \in [Users -> SUBSET Roles]
  <2>1. PICK S \in SUBSET Users : w.roles \in [S -> SUBSET Roles]
    BY <1>0 DEF Writes
  <2>2. over(roles, w.roles) \in [Users -> SUBSET Roles]
    BY <2>1 DEF over, IndInv, TypeOK
  <2> QED
    BY <2>2 DEF Commit
<1>3. grants' \in [Roles -> Grant \cup {"NONE"}]
  <2>1. PICK S \in SUBSET Roles : w.grants \in [S -> Grant]
    BY <1>0 DEF Writes
  <2>2. over(grants, w.grants) \in [Roles -> Grant \cup {"NONE"}]
    BY <2>1 DEF over, IndInv, TypeOK
  <2> QED
    BY <2>2 DEF Commit
<1>4. version' \in [Users -> Nat]
  BY DEF Commit, IndInv, TypeOK
<1>5. \A q \in Requests : tx'[q] = Idle
  BY DEF Commit, IndInv, TypeOK, OneHolder, Idle
<1>6. \A u \in Users : \A x \in roles'[u] : grants'[x] # "NONE"
  BY <1>0 DEF Commit, fits
<1>7. TypeOK'
  BY <1>1, <1>2, <1>3, <1>4, <1>5, <1>6 DEF Commit, IndInv, TypeOK, Tx
<1>8. OneHolder' /\ BeforeIsCurrent' /\ CheckedFits'
  BY <1>5 DEF OneHolder, BeforeIsCurrent, CheckedFits, Idle
<1> QED
  BY <1>7, <1>8 DEF IndInv

(* A role that nobody holds and no transaction has touched may come or go: *)
(* it changes neither the count nor what a checked mutation will make of   *)
(* it.                                                                     *)
LEMMA RoleStep ==
  ASSUME IndInv, NEW x \in Roles,
         boundTo({x}) = {}, untouched(x),
         NEW g \in Grant \cup {"NONE"},
         grants' = [grants EXCEPT ![x] = g],
         UNCHANGED <<status, roles, version, lock, tx>>
  PROVE  IndInv' /\ Counted' = Counted /\ \A u \in Users : permissions(u)' = permissions(u)
<1>0. /\ TypeOK
      /\ \A u \in Users : x \notin roles[u]
      /\ \A y \in Roles : y # x => grants'[y] = grants[y]
      /\ grants' \in [Roles -> Grant \cup {"NONE"}]
  BY DEF IndInv, TypeOK, boundTo
<1>1. TypeOK'
  BY <1>0 DEF TypeOK
<1>2. Counted' = Counted
  <2>1. \A u \in Users : \A y \in roles[u] : grants'[y] = grants[y]
    BY <1>0 DEF TypeOK
  <2>2. counted(status, roles, grants') = counted(status, roles, grants)
    BY <2>1 DEF counted
  <2> QED
    BY <2>2 DEF Counted
<1>3. OneHolder' /\ BeforeIsCurrent'
  BY <1>2 DEF IndInv, OneHolder, BeforeIsCurrent
<1>4. CheckedFits'
  <2> SUFFICES ASSUME NEW q \in Requests, tx'[q].op = "checked" PROVE fits(tx[q].writes)'
    BY DEF CheckedFits
  <2> DEFINE w == tx[q].writes
  <2>1. tx'[q].writes = w /\ fits(w) /\ w \in Writes
    <3>1. tx[q] \in [op : {"checked"}, writes : Writes]
      BY <1>0 DEF TypeOK, Tx, Idle
    <3> QED
      BY <3>1 DEF IndInv, CheckedFits
  <2>2. x \notin DOMAIN w.grants /\ \A u \in Users : x \notin over(roles, w.roles)[u]
    <3>1. /\ x \notin DOMAIN w.grants
          /\ \A u \in DOMAIN w.roles : x \notin w.roles[u]
      BY DEF untouched
    <3>2. \A u \in Users :
            over(roles, w.roles)[u] = IF u \in DOMAIN w.roles THEN w.roles[u] ELSE roles[u]
      BY <1>0 DEF over, TypeOK
    <3> QED
      BY <1>0, <3>1, <3>2
  <2>3. \A u \in Users : over(roles, w.roles)[u] \subseteq Roles
    <3>1. PICK S \in SUBSET Users : w.roles \in [S -> SUBSET Roles]
      BY <2>1 DEF Writes
    <3> QED
      BY <1>0, <3>1 DEF over, TypeOK
  <2>4. \A y \in Roles : y # x => over(grants', w.grants)[y] = over(grants, w.grants)[y]
    BY <1>0 DEF over, TypeOK
  <2>5. \A u \in Users : \A y \in over(roles, w.roles)[u] :
          over(grants', w.grants)[y] = over(grants, w.grants)[y]
    BY <2>2, <2>3, <2>4
  <2>6. counted(over(status, w.status), over(roles, w.roles), over(grants', w.grants))
          = projected(w)
    BY <2>5, CountedSame DEF projected
  <2> QED
    BY <1>2, <2>1, <2>5, <2>6 DEF fits, projected, exists, assertCapacity
<1>5. \A u \in Users : permissions(u)' = permissions(u)
  BY <1>0 DEF permissions, TypeOK
<1> QED
  BY <1>1, <1>2, <1>3, <1>4, <1>5 DEF IndInv

LEMMA RoleRowStep ==
  ASSUME IndInv,
         \/ \E x \in Roles : \E g \in Grant : CreateRole(x, g)
         \/ \E x, y \in Roles : CloneRole(x, y)
         \/ \E x \in Roles : DeleteRole(x)
  PROVE  IndInv' /\ Counted' = Counted /\ \A u \in Users : permissions(u)' = permissions(u)
<1>1. ASSUME NEW x \in Roles, NEW g \in Grant, CreateRole(x, g)
      PROVE  /\ boundTo({x}) = {} /\ untouched(x)
             /\ grants' = [grants EXCEPT ![x] = g]
             /\ UNCHANGED <<status, roles, version, lock, tx>>
  BY <1>1 DEF CreateRole, boundTo, IndInv, TypeOK
<1>2. ASSUME NEW x \in Roles, DeleteRole(x)
      PROVE  /\ boundTo({x}) = {} /\ untouched(x)
             /\ grants' = [grants EXCEPT ![x] = "NONE"]
             /\ UNCHANGED <<status, roles, version, lock, tx>>
  BY <1>2 DEF DeleteRole
<1>3. CASE \E x \in Roles : \E g \in Grant : CreateRole(x, g)
  BY <1>1, <1>3, RoleStep
<1>4. CASE \E x \in Roles : DeleteRole(x)
  BY <1>2, <1>4, RoleStep
<1>5. CASE \E x, y \in Roles : CloneRole(x, y)
  <2>1. PICK x \in Roles, y \in Roles : CloneRole(x, y)
    BY <1>5
  <2>2. grants[y] \in Grant
    BY <2>1 DEF CloneRole, IndInv, TypeOK
  <2> QED
    BY <1>3, <2>1, <2>2 DEF CloneRole
<1> QED
  BY <1>3, <1>4, <1>5

LEMMA ForceLogoutStep ==
  ASSUME IndInv, NEW u \in Users, ForceLogout(u)
  PROVE  IndInv'
<1>1. TypeOK'
  BY DEF ForceLogout, IndInv, TypeOK
<1>2. OneHolder' /\ BeforeIsCurrent'
  BY DEF ForceLogout, IndInv, OneHolder, BeforeIsCurrent, Counted
<1>3. CheckedFits'
  BY DEF ForceLogout, IndInv, CheckedFits, fits, Counted, projected, exists, assertCapacity
<1> QED
  BY <1>1, <1>2, <1>3 DEF IndInv

LEMMA LockStep ==
  ASSUME IndInv, NEW r \in Requests, Lock(r) \/ Rollback(r)
  PROVE  IndInv'
<1>0. TypeOK /\ OneHolder /\ UNCHANGED <<status, roles, grants, version>>
  BY DEF IndInv, Lock, Rollback, rows
<1>1. CASE Lock(r)
  <2>1. \A q \in Requests : tx[q] = Idle
    BY <1>0, <1>1 DEF Lock, OneHolder
  <2>2. [op |-> "locked", before |-> Counted] \in Tx
    BY DEF Tx, Counted, counted
  <2>3. \A q \in Requests :
          tx'[q] = IF q = r THEN [op |-> "locked", before |-> Counted] ELSE Idle
    BY <1>0, <1>1, <2>1 DEF Lock, TypeOK
  <2>4. TypeOK'
    BY <1>0, <1>1, <2>2 DEF Lock, TypeOK
  <2>5. Counted' = Counted
    BY <1>0 DEF Counted
  <2> QED
    BY <1>1, <2>3, <2>4, <2>5
    DEF Lock, IndInv, OneHolder, BeforeIsCurrent, CheckedFits, Idle
<1>2. CASE Rollback(r)
  <2>1. \A q \in Requests : tx'[q] = Idle
    BY <1>0, <1>2 DEF Rollback, OneHolder, TypeOK
  <2>2. TypeOK'
    BY <1>0, <1>2 DEF Rollback, TypeOK, Tx
  <2> QED
    BY <2>1, <2>2 DEF IndInv, OneHolder, BeforeIsCurrent, CheckedFits, Idle
<1> QED
  BY <1>1, <1>2

(* IndInv holds in every reachable state.                                  *)
THEOREM SeatInvariant == Spec => []IndInv
<1>1. IndInv /\ [Next]_vars => IndInv'
  <2> SUFFICES ASSUME IndInv, [Next]_vars PROVE IndInv'
    OBVIOUS
  <2>1. CASE UNCHANGED vars
    BY <2>1 DEF vars, IndInv, TypeOK, OneHolder, BeforeIsCurrent, CheckedFits, fits, Counted,
                projected, exists, assertCapacity
  <2> QED
    BY <2>1, LockStep, CommitStep, MutationStep, RoleRowStep, ForceLogoutStep DEF Next
<1> QED
  BY InitIndInv, <1>1, PTL DEF Spec

(* Rows keep their types, and no user is bound to a role that is gone.     *)
THEOREM TypeCorrect == Spec => []TypeOK
<1>1. IndInv => TypeOK
  BY DEF IndInv
<1> QED
  BY SeatInvariant, <1>1, PTL

(* A step that does not COMMIT moves neither the count nor permissions.    *)
LEMMA OnlyCommits ==
  ASSUME IndInv, [Next]_vars, \A r \in Requests : ~ Commit(r)
  PROVE  Counted' = Counted /\ \A u \in Users : permissions(u)' = permissions(u)
<1>1. CASE UNCHANGED rows
  BY <1>1 DEF rows, Counted, permissions
<1>2. CASE UNCHANGED vars
  BY <1>1, <1>2 DEF vars, rows
<1>3. ASSUME NEW r \in Requests, Lock(r) \/ Rollback(r) PROVE UNCHANGED rows
  BY <1>3 DEF Lock, Rollback
<1>4. ASSUME NEW r \in Requests, NEW w, mutate(r, w) PROVE UNCHANGED rows
  BY <1>4 DEF mutate, rows
<1>5. ASSUME NEW r \in Requests,
             \/ \E u \in Users : \E X \in SUBSET Roles : CreateUser(r, u, X) \/ SetRoles(r, u, X)
             \/ \E u \in Users : \E s \in UserStatus \ {"NONE"} : SetStatus(r, u, s)
             \/ \E u \in Users : SignUpWithGoogle(r, u)
             \/ \E g \in GrantTables : GrantRoles(r, g)
             \/ \E x \in Roles : \E g \in Grant : UpdateRole(r, x, g)
      PROVE  UNCHANGED rows
  BY <1>4, <1>5 DEF CreateUser, SetRoles, SetStatus, SignUpWithGoogle, GrantRoles, UpdateRole
<1>6. ASSUME NEW u \in Users, ForceLogout(u)
      PROVE  Counted' = Counted /\ \A v \in Users : permissions(v)' = permissions(v)
  BY <1>6 DEF ForceLogout, Counted, permissions
<1> QED
  BY <1>1, <1>2, <1>3, <1>5, <1>6, RoleRowStep DEF Next

(* "two concurrent creates cannot both slip under the cap": however        *)
(* requests interleave, a step that newly counts someone leaves at most    *)
(* Cap users counted.                                                      *)
THEOREM SeatsStayCapped == Spec => PromotionsFit
<1>1. IndInv /\ [Next]_vars =>
        [Cap # NoCap /\ ~ (Counted' \subseteq Counted) => Cardinality(Counted') <= Cap]_vars
  <2> SUFFICES ASSUME IndInv, [Next]_vars, Cap # NoCap, ~ (Counted' \subseteq Counted)
               PROVE  Cardinality(Counted') <= Cap
    OBVIOUS
  <2>1. PICK r \in Requests : Commit(r)
    BY OnlyCommits
  <2> QED
    BY <2>1, CommitEffect DEF fits, assertCapacity
<1> QED
  BY SeatInvariant, <1>1, PTL DEF Spec, PromotionsFit

(* A user's permissions change only together with permissions_version, so  *)
(* every access token issued before the change is refused after it.        *)
THEOREM TokensRevoked == Spec => ChangeRevokesTokens
<1>1. IndInv /\ [Next]_vars =>
        [\A u \in Users :
           exists(u) /\ permissions(u)' # permissions(u) => version'[u] > version[u]]_vars
  <2> SUFFICES ASSUME IndInv, [Next]_vars, NEW u \in Users,
                      exists(u), permissions(u)' # permissions(u)
               PROVE  version'[u] > version[u]
    OBVIOUS
  <2>1. PICK r \in Requests : Commit(r)
    BY OnlyCommits
  <2> DEFINE w == tx[r].writes
  <2>2. CASE u \in w.bump
    BY <2>1, <2>2 DEF Commit, IndInv, TypeOK
  <2>3. CASE u \notin w.bump
    <3>1. u \notin DOMAIN w.roles /\ roles[u] \cap DOMAIN w.grants = {}
      BY <2>1, <2>3, CommitEffect DEF fits
    <3>2. roles'[u] = roles[u]
      BY <2>1, <3>1 DEF Commit, over, IndInv, TypeOK
    <3>3. \A x \in roles[u] : grants'[x] = grants[x]
      BY <2>1, <3>1 DEF Commit, over, IndInv, TypeOK
    <3>4. permissions(u)' = permissions(u)
      BY <3>2, <3>3 DEF permissions
    <3> QED
      BY <3>4
  <2> QED
    BY <2>2, <2>3
<1> QED
  BY SeatInvariant, <1>1, PTL DEF Spec, ChangeRevokesTokens

-----------------------------------------------------------------------------
(* Part 2.  Sessions.                                                      *)

SigningOps == {"password", "google", "passwordTx", "googleTx"}
PasswordOps == {"password", "passwordTx"}

(* permissions_version counts the changes, in the user row, in every       *)
(* session and in what a sign-in under way has read.                       *)
VersionsCount ==
  /\ user.version = changes + 1
  /\ \A s \in DOMAIN session : session[s].pv = born[s] + 1
  /\ \A p \in Reqs : req[p].op \in SigningOps => req[p].row.version = req[p].at + 1

(* As long as no two password sign-ins overlap, the one under way has read *)
(* the counter and the lockout that are stored.                            *)
CounterIsCurrent ==
  overlap \/
    /\ user.failed = strikes
    /\ shouldLock(strikes) => user.lockedUntil = lastBad + LOCKOUT_MINUTES
    /\ \A p \in Reqs : req[p].op \in PasswordOps =>
         /\ req[p].row.failed = user.failed
         /\ \A q \in Reqs \ {p} : req[q].op \notin PasswordOps

(* A tab with a token has one to restore from, and while it restores it    *)
(* has none, restores once, and no sign-in will answer it.                 *)
RestoresAlone ==
  /\ tab # None => stored # None
  /\ \A p \in Reqs : req[p].op = "restore" =>
       /\ tab = None
       /\ \A q \in Reqs \ {p} : req[q].op # "restore"
       /\ \A q \in Reqs : req[q].op \in SigningOps => ~ req[q].web

AuthInv == SessionTypeOK /\ VersionsCount /\ CounterIsCurrent /\ RestoresAlone

LEMMA AuthInit == SessionInit => AuthInv
<1> SUFFICES ASSUME SessionInit PROVE AuthInv
  OBVIOUS
<1>1. SessionTypeOK
  <2>1. user \in UserRow /\ req \in [Reqs -> Request]
    BY DEF SessionInit, UserRow, Request
  <2>2. session \in Seq(SessionRow) /\ born \in Seq(Nat) /\ Len(born) = Len(session)
    BY DEF SessionInit
  <2>3. overlap \in BOOLEAN
    BY DEF SessionInit
  <2> QED
    BY <2>1, <2>2, <2>3, SessionAssumptions DEF SessionInit, SessionTypeOK
<1>2. VersionsCount
  BY DEF SessionInit, VersionsCount, SigningOps, Ready
<1>3. CounterIsCurrent
  BY SessionAssumptions DEF SessionInit, CounterIsCurrent, PasswordOps, shouldLock, Ready
<1>4. RestoresAlone
  BY DEF SessionInit, RestoresAlone, Ready
<1> QED
  BY <1>1, <1>2, <1>3, <1>4 DEF AuthInv

(* One request changes its record.                                         *)
LEMMA AuthSets ==
  ASSUME SessionTypeOK, NEW p \in Reqs, NEW r, Set(p, r)
  PROVE  /\ r \in Request => req' \in [Reqs -> Request]
         /\ req'[p] = r
         /\ \A q \in Reqs \ {p} : req'[q] = req[q]
  BY DEF SessionTypeOK, Set

LEMMA AuthDone ==
  ASSUME SessionTypeOK, NEW p \in Reqs, Done(p)
  PROVE  /\ req' \in [Reqs -> Request]
         /\ req'[p].op = "idle" /\ req'[p] = Ready
         /\ \A q \in Reqs \ {p} : req'[q] = req[q]
<1>1. Ready \in Request
  BY DEF Request
<1> QED
  BY <1>1, AuthSets DEF Done, Ready

(* What a sign-in has read.                                                *)
LEMMA SigningShape ==
  ASSUME SessionTypeOK, NEW p \in Reqs, req[p].op \in SigningOps
  PROVE  /\ req[p] \in Signing
         /\ req[p].row \in UserRow /\ req[p].at \in Nat /\ req[p].read \in Nat
         /\ req[p].web \in BOOLEAN
<1>1. req[p] \in Request
  BY DEF SessionTypeOK
<1>2. req[p] \in Signing
  BY <1>1 DEF Request, Signing, Ready, SigningOps
<1> QED
  BY <1>2 DEF Signing

(* The user row after each of its updates.                                 *)
LEMMA UserTypes ==
  ASSUME SessionTypeOK
  PROVE  /\ user \in UserRow
         /\ user.version \in Nat /\ user.failed \in Nat /\ user.lockedUntil \in Nat
<1>1. user \in UserRow
  BY DEF SessionTypeOK
<1> QED
  BY <1>1 DEF UserRow

LEMMA ResetWrites ==
  ASSUME SessionTypeOK
  PROVE  /\ reset(user) \in UserRow
         /\ reset(user).version = user.version
         /\ reset(user).failed = 0
  BY UserTypes DEF UserRow, reset

LEMMA BumpWrites ==
  ASSUME SessionTypeOK, user' = [user EXCEPT !.version = @ + 1]
  PROVE  /\ user' \in UserRow /\ user'.version = user.version + 1
         /\ user'.failed = user.failed /\ user'.lockedUntil = user.lockedUntil
<1> DEFINE v == user.version + 1
<1>1. v \in Nat
  BY UserTypes
<1>2. user' = [user EXCEPT !.version = v]
  OBVIOUS
<1> HIDE DEF v
<1>3. /\ user' \in UserRow /\ user'.version = v
      /\ user'.failed = user.failed /\ user'.lockedUntil = user.lockedUntil
  BY <1>1, <1>2, UserTypes, Zenon DEF UserRow
<1> QED
  BY <1>3 DEF v

LEMMA StatusWrites ==
  ASSUME SessionTypeOK, NEW p \in Reqs, setStatus(p)
  PROVE  /\ user' \in UserRow /\ user'.version = user.version
         /\ user'.failed = user.failed /\ user'.lockedUntil = user.lockedUntil
<1> DEFINE to == req[p].to
<1>0. req[p] \in Request /\ req[p].op = "setStatus"
  BY DEF setStatus, SessionTypeOK
<1>1. to \in {"ACTIVE", "DISABLED"}
  BY <1>0 DEF Request, Signing, Ready
<1>2. user' = [user EXCEPT !.status = to]
  BY DEF setStatus
<1> HIDE DEF to
<1> QED
  BY <1>1, <1>2, UserTypes, Zenon DEF UserRow

LEMMA StrikeWrites ==
  ASSUME SessionTypeOK, NEW p \in Reqs, PasswordBad(p)
  PROVE  /\ user' \in UserRow
         /\ user'.version = user.version
         /\ user'.failed = req[p].row.failed + 1
         /\ shouldLock(req[p].row.failed + 1) =>
              user'.lockedUntil = req[p].read + LOCKOUT_MINUTES
<1> DEFINE f == req[p].row.failed + 1
           l == IF shouldLock(f) THEN req[p].read + LOCKOUT_MINUTES ELSE req[p].row.lockedUntil
<1>1. user \in UserRow
  BY DEF SessionTypeOK
<1>2. req[p].row \in UserRow /\ req[p].read \in Nat
  BY SigningShape DEF PasswordBad, SigningOps
<1>3. f \in Nat /\ l \in Nat
  BY <1>2, SessionAssumptions DEF UserRow
<1>4. user' = [user EXCEPT !.failed = f, !.lockedUntil = l]
  BY DEF PasswordBad
<1> HIDE DEF f, l
<1>5. /\ user' \in UserRow /\ user'.version = user.version
      /\ user'.failed = f /\ user'.lockedUntil = l
  BY <1>1, <1>3, <1>4 DEF UserRow
<1> QED
  BY <1>5 DEF f, l

(* The sessions after a sign-in, and after a revocation.                   *)
LEMMA IssueWrites ==
  ASSUME SessionTypeOK, NEW p \in Reqs, issueSession(p)
  PROVE  /\ session' \in Seq(SessionRow) /\ born' \in Seq(Nat) /\ Len(born') = Len(session')
         /\ DOMAIN session' = DOMAIN session \cup {Len(session) + 1}
         /\ \A s \in DOMAIN session : session'[s] = session[s] /\ born'[s] = born[s]
         /\ session'[Len(session) + 1].pv = req[p].row.version
         /\ born'[Len(session) + 1] = req[p].at
<1> DEFINE new == [revoked |-> FALSE, pv |-> req[p].row.version, expires |-> now + JWT_REFRESH_TTL]
<1>1. req[p].row \in UserRow /\ req[p].at \in Nat
  BY SigningShape DEF issueSession, SigningOps
<1>2. new \in SessionRow /\ new.pv = req[p].row.version
  BY <1>1, SessionAssumptions DEF SessionRow, UserRow, SessionTypeOK
<1>3. session' = Append(session, new) /\ born' = Append(born, req[p].at)
  BY DEF issueSession
<1> HIDE DEF new
<1>4. session \in Seq(SessionRow) /\ born \in Seq(Nat) /\ Len(born) = Len(session)
  BY DEF SessionTypeOK
<1> QED
  BY <1>1, <1>2, <1>3, <1>4

LEMMA RevokeWrites ==
  ASSUME SessionTypeOK, NEW S
  PROVE  /\ revoke(S) \in Seq(SessionRow) /\ Len(revoke(S)) = Len(session)
         /\ DOMAIN revoke(S) = DOMAIN session
         /\ \A s \in DOMAIN session : revoke(S)[s].pv = session[s].pv
<1>1. session \in Seq(SessionRow)
  BY DEF SessionTypeOK
<1>2. \A s \in DOMAIN session : session[s] \in SessionRow
  BY <1>1
<1>3. ASSUME NEW s \in DOMAIN session
      PROVE  /\ [session[s] EXCEPT !.revoked = @ \/ s \in S] \in SessionRow
             /\ [session[s] EXCEPT !.revoked = @ \/ s \in S].pv = session[s].pv
  BY <1>2, Zenon DEF SessionRow
<1>4. DOMAIN session = 1 .. Len(session) /\ Len(session) \in Nat
  BY <1>1
<1>5. revoke(S) \in [1 .. Len(session) -> SessionRow]
  BY <1>3, <1>4, Zenon DEF revoke
<1>6. \A s \in DOMAIN session : revoke(S)[s].pv = session[s].pv
  BY <1>3, Zenon DEF revoke
<1> QED
  BY <1>4, <1>5, <1>6

(* The browser forgets its tokens.                                         *)
LEMMA SignOutWrites ==
  ASSUME SessionTypeOK, NEW p \in Reqs, signOut(p)
  PROVE  /\ req' \in [Reqs -> Request] /\ tab' = None /\ stored' = None
         /\ tab = None => req'[p] = Ready
         /\ tab # None => req'[p].op = "logout" /\ req'[p].token = tab
         /\ req'[p].op \in {"idle", "logout"}
         /\ \A q \in Reqs \ {p} : req'[q] = req[q]
<1> DEFINE r == IF tab = None THEN Ready ELSE [op |-> "logout", token |-> tab, web |-> TRUE]
<1>1. Set(p, r) /\ tab' = None /\ stored' = None
  BY DEF signOut
<1>2. r \in Request
  BY DEF Request, SessionTypeOK
<1> QED
  BY <1>1, <1>2, AuthSets DEF Ready

(* A reload: only the flag that says who waits for the answer changes.     *)
LEMMA ReloadWrites ==
  ASSUME SessionTypeOK, NEW p \in Reqs, Reload(p)
  PROVE  /\ req' \in [Reqs -> Request] /\ tab' = None /\ UNCHANGED stored
         /\ req[p].op = "idle" /\ req'[p].op = "restore"
         /\ \A q \in Reqs \ {p} :
              /\ req'[q].op = req[q].op
              /\ req[q].op \in SigningOps =>
                   /\ req'[q].row = req[q].row /\ req'[q].at = req[q].at
                   /\ ~ req'[q].web
<1>1. tab' = None /\ UNCHANGED stored /\ req[p].op = "idle"
  BY DEF Reload, Ready
<1>2. req'[p] = [op |-> "restore", sid |-> stored] /\ stored \in Sids
  BY DEF Reload, SessionTypeOK
<1>3. req'[p] \in Request /\ req'[p].op = "restore"
  BY <1>2 DEF Request
<1>4. ASSUME NEW q \in Reqs \ {p}
      PROVE  /\ req'[q] \in Request /\ req'[q].op = req[q].op
             /\ req[q].op \in SigningOps =>
                  /\ req'[q].row = req[q].row /\ req'[q].at = req[q].at
                  /\ ~ req'[q].web
  <2>0. /\ req[q] \in Request
        /\ req'[q] = IF "web" \in DOMAIN req[q] THEN [req[q] EXCEPT !.web = FALSE] ELSE req[q]
    BY DEF Reload, SessionTypeOK
  <2>1. CASE req[q] \in Signing
    <3>1. "web" \in DOMAIN req[q]
      BY <2>1 DEF Signing
    <3>2. req'[q] = [req[q] EXCEPT !.web = FALSE]
      BY <2>0, <3>1
    <3>3. /\ req'[q] \in Signing /\ req'[q].op = req[q].op
          /\ req'[q].row = req[q].row /\ req'[q].at = req[q].at /\ (req'[q].web = FALSE)
      BY <2>1, <3>2, Zenon DEF Signing
    <3> QED
      BY <3>3, Zenon DEF Request
  <2>2. CASE req[q] \in [op : {"call", "logout"}, token : Token, web : BOOLEAN]
    <3>1. "web" \in DOMAIN req[q] /\ req[q].op \notin SigningOps
      BY <2>2 DEF SigningOps
    <3>2. req'[q] = [req[q] EXCEPT !.web = FALSE]
      BY <2>0, <3>1
    <3>3. /\ req'[q] \in [op : {"call", "logout"}, token : Token, web : BOOLEAN]
          /\ req'[q].op = req[q].op
      BY <2>2, <3>2, Zenon
    <3> QED
      BY <3>1, <3>3, Zenon DEF Request
  <2>3. CASE req[q] \notin Signing
             /\ req[q] \notin [op : {"call", "logout"}, token : Token, web : BOOLEAN]
    <3>1. "web" \notin DOMAIN req[q] /\ req[q].op \notin SigningOps
      BY <2>0, <2>3 DEF Request, Ready, SigningOps
    <3> QED
      BY <2>0, <3>1
  <2> QED
    BY <2>1, <2>2, <2>3
<1>5. req' \in [Reqs -> Request]
  BY <1>3, <1>4 DEF Reload
<1> QED
  BY <1>1, <1>3, <1>4, <1>5

(* A sign-in that goes on keeps what it has read.                          *)
LEMMA SignInWrites ==
  ASSUME SessionTypeOK, NEW p \in Reqs, SignInUpdate(p)
  PROVE  /\ req' \in [Reqs -> Request]
         /\ \/ req[p].op = "password" /\ req'[p].op = "passwordTx"
            \/ req[p].op = "google" /\ req'[p].op = "googleTx"
         /\ req'[p].row = req[p].row /\ req'[p].at = req[p].at /\ req'[p].web = req[p].web
         /\ \A q \in Reqs \ {p} : req'[q] = req[q]
<1> DEFINE op == IF req[p].op = "password" THEN "passwordTx" ELSE "googleTx"
           r == [req[p] EXCEPT !.op = op]
<1>1. req[p].op \in {"password", "google"} /\ Set(p, r)
  BY DEF SignInUpdate
<1>2. req[p] \in Signing
  BY <1>1, SigningShape DEF SigningOps
<1>3. op \in {"passwordTx", "googleTx"}
  OBVIOUS
<1>4. /\ r \in Signing /\ r.op = op
      /\ r.row = req[p].row /\ r.at = req[p].at /\ (r.web = req[p].web)
  <2> HIDE DEF op
  <2> QED
    BY <1>2, <1>3, Zenon DEF Signing
<1>5. r \in Request
  BY <1>4, Zenon DEF Request
<1>6. req' \in [Reqs -> Request] /\ req'[p] = r /\ \A q \in Reqs \ {p} : req'[q] = req[q]
  BY <1>1, <1>5, AuthSets
<1> HIDE DEF r
<1> QED
  BY <1>1, <1>4, <1>6

LEMMA ForceWrites ==
  ASSUME SessionTypeOK, NEW p \in Reqs, ForceBump(p)
  PROVE  /\ req' \in [Reqs -> Request] /\ req'[p].op = "forceTx"
         /\ \A q \in Reqs \ {p} : req'[q] = req[q]
<1> DEFINE r == [req[p] EXCEPT !.op = "forceTx"]
<1>1. req[p].op = "force" /\ Set(p, r) /\ req[p] \in Request
  BY DEF ForceBump, SessionTypeOK
<1>2. req[p] \in [op : {"force", "forceTx"}, seen : SUBSET Sids]
  BY <1>1 DEF Request, Signing, Ready
<1>3. r \in [op : {"force", "forceTx"}, seen : SUBSET Sids] /\ r.op = "forceTx"
  BY <1>2, Zenon
<1>4. r \in Request
  BY <1>3, Zenon DEF Request
<1>5. req' \in [Reqs -> Request] /\ req'[p] = r /\ \A q \in Reqs \ {p} : req'[q] = req[q]
  BY <1>1, <1>4, AuthSets
<1> HIDE DEF r
<1> QED
  BY <1>3, <1>5

(* The type invariant is inductive.                                        *)
LEMMA AuthNextTypes ==
  ASSUME SessionTypeOK, [SessionNext]_sessionVars
  PROVE  SessionTypeOK'
<1> USE DEF dbVars, webVars, lockVars, countVars
<1>0. ASSUME UNCHANGED <<user, session, born>>,
             req' \in [Reqs -> Request],
             now' \in 0 .. MaxTime, ops' \in 0 .. MaxOps, changes' \in Nat,
             tenantRow' \in Reqs \cup {None}, userRow' \in Reqs \cup {None},
             tab' \in Token \cup {None}, stored' \in Sids \cup {None},
             UNCHANGED countVars
      PROVE  SessionTypeOK'
  BY <1>0 DEF SessionTypeOK
<1>1. ASSUME Op PROVE ops' \in 0 .. MaxOps
  BY <1>1, SessionAssumptions DEF Op, SessionTypeOK
<1>2. ASSUME NEW p \in Reqs, NEW web \in BOOLEAN, PasswordRead(p, web) PROVE SessionTypeOK'
  <2>1. [op |-> "password", row |-> user, at |-> changes, read |-> now, web |-> web]
          \in Signing
    BY SessionAssumptions DEF Signing, SessionTypeOK
  <2>2. req' \in [Reqs -> Request]
    BY <1>2, <2>1, AuthSets DEF PasswordRead, Request
  <2>3. overlap' \in BOOLEAN
    BY <1>2 DEF PasswordRead
  <2> QED
    BY <1>1, <1>2, <2>2, <2>3 DEF PasswordRead, SessionTypeOK
<1>3. ASSUME NEW p \in Reqs, GoogleRead(p) PROVE SessionTypeOK'
  <2>1. [op |-> "google", row |-> user, at |-> changes, read |-> now, web |-> FALSE]
          \in Signing
    BY SessionAssumptions DEF Signing, SessionTypeOK
  <2>2. req' \in [Reqs -> Request]
    BY <1>3, <2>1, AuthSets DEF GoogleRead, Request
  <2> QED
    BY <1>0, <1>1, <1>3, <2>2 DEF GoogleRead, SessionTypeOK
<1>4. ASSUME NEW p \in Reqs, NEW r \in Request, SeatCheck(p, r) PROVE SessionTypeOK'
  BY <1>0, <1>1, <1>4, AuthSets DEF SeatCheck, SessionTypeOK
<1>5. ASSUME NEW p \in Reqs, ForceRevoke(p) PROVE SessionTypeOK'
  <2> DEFINE seen == {s \in DOMAIN session : ~ session[s].revoked}
  <2>1. DOMAIN session \subseteq Sids
    BY DEF SessionTypeOK, Sids
  <2>2. [op |-> "force", seen |-> seen] \in Request
    BY <2>1 DEF Request
  <2>3. req' \in [Reqs -> Request]
    BY <1>5, <2>2, AuthSets DEF ForceRevoke
  <2> QED
    BY <1>0, <1>1, <1>5, <2>3 DEF ForceRevoke, SessionTypeOK
<1>6. ASSUME NEW p \in Reqs, Call(p) PROVE SessionTypeOK'
  <2>1. [op |-> "call", token |-> tab, web |-> TRUE] \in Request
    BY <1>6 DEF Call, Request, SessionTypeOK
  <2> QED
    BY <1>0, <1>6, <2>1, AuthSets DEF Call, SessionTypeOK
<1>7. ASSUME NEW p \in Reqs, PasswordBad(p) PROVE SessionTypeOK'
  <2>1. user' \in UserRow /\ req' \in [Reqs -> Request]
    BY <1>7, StrikeWrites, AuthDone DEF PasswordBad
  <2>2. strikes' \in Nat /\ lastBad' \in Nat
    BY <1>7, SigningShape DEF PasswordBad, SigningOps, SessionTypeOK
  <2> QED
    BY <1>7, <2>1, <2>2 DEF PasswordBad, SessionTypeOK
<1>8. ASSUME NEW p \in Reqs, SignInUpdate(p) PROVE SessionTypeOK'
  BY <1>0, <1>8, SignInWrites DEF SignInUpdate, SessionTypeOK
<1>9. ASSUME NEW p \in Reqs, SignInRefused(p) \/ CallLost(p) PROVE SessionTypeOK'
  BY <1>0, <1>9, AuthDone DEF SignInRefused, CallLost, SessionTypeOK
<1>10. ASSUME NEW p \in Reqs, issueSession(p) PROVE SessionTypeOK'
  <2>1. /\ session' \in Seq(SessionRow) /\ born' \in Seq(Nat) /\ Len(born') = Len(session')
        /\ req' \in [Reqs -> Request]
    BY <1>10, IssueWrites, AuthDone DEF issueSession
  <2>2. user' \in UserRow
    BY <1>10, ResetWrites DEF issueSession, SessionTypeOK
  <2>3. overlap' \in BOOLEAN
    BY <1>10 DEF issueSession, SessionTypeOK
  <2>4. tab' \in Token \cup {None} /\ stored' \in Sids \cup {None}
    BY <1>10, SessionAssumptions DEF issueSession, Token, Sids, SessionTypeOK
  <2>5. /\ now' \in 0 .. MaxTime /\ ops' \in 0 .. MaxOps /\ changes' \in Nat
        /\ tenantRow' \in Reqs \cup {None} /\ userRow' \in Reqs \cup {None}
        /\ lastBad' \in Nat
    BY <1>10 DEF issueSession, SessionTypeOK
  <2>6. strikes' \in Nat
    <3>1. strikes' = 0 \/ strikes' = strikes
      BY <1>10, Zenon DEF issueSession
    <3> QED
      BY <3>1 DEF SessionTypeOK
  <2> QED
    BY <2>1, <2>2, <2>3, <2>4, <2>5, <2>6 DEF SessionTypeOK
<1>11. ASSUME NEW p \in Reqs, setRoles(p) PROVE SessionTypeOK'
  <2>1. user' \in UserRow
    BY <1>11, BumpWrites DEF setRoles
  <2> QED
    BY <1>11, <2>1, AuthDone DEF setRoles, SessionTypeOK
<1>12. ASSUME NEW p \in Reqs, setStatus(p) PROVE SessionTypeOK'
  <2>1. user' \in UserRow
    BY <1>12, StatusWrites
  <2> QED
    BY <1>12, <2>1, AuthDone DEF setStatus, SessionTypeOK
<1>13. ASSUME NEW p \in Reqs, ForceBump(p) PROVE SessionTypeOK'
  BY <1>0, <1>13, ForceWrites DEF ForceBump, SessionTypeOK
<1>14. ASSUME NEW p \in Reqs, ForceCommit(p) PROVE SessionTypeOK'
  <2>1. session' \in Seq(SessionRow) /\ Len(session') = Len(session) /\ user' \in UserRow
    BY <1>14, RevokeWrites, BumpWrites DEF ForceCommit
  <2> QED
    BY <1>14, <2>1, AuthDone DEF ForceCommit, SessionTypeOK
<1>15. ASSUME NEW p \in Reqs, DeadlockAbort(p) \/ Fail(p) PROVE SessionTypeOK'
  BY <1>0, <1>15, AuthDone DEF DeadlockAbort, Fail, Release, SessionTypeOK
<1>16. ASSUME NEW p \in Reqs, UserSignsOut(p) PROVE SessionTypeOK'
  BY <1>0, <1>16, SignOutWrites DEF UserSignsOut, SessionTypeOK
<1>17. ASSUME NEW p \in Reqs, CallAnswered(p) PROVE SessionTypeOK'
  BY <1>0, <1>17, SignOutWrites, AuthDone DEF CallAnswered, SessionTypeOK
<1>18. ASSUME NEW p \in Reqs, LogoutAnswered(p) PROVE SessionTypeOK'
  <2>1. session' \in Seq(SessionRow) /\ Len(session') = Len(session)
    BY <1>18, RevokeWrites DEF LogoutAnswered, SessionTypeOK
  <2>2. /\ req' \in [Reqs -> Request]
        /\ tab' \in Token \cup {None} /\ stored' \in Sids \cup {None}
    BY <1>18, SignOutWrites, AuthDone DEF LogoutAnswered, SessionTypeOK
  <2> QED
    BY <1>18, <2>1, <2>2 DEF LogoutAnswered, SessionTypeOK
<1>19. ASSUME NEW p \in Reqs, Reload(p) PROVE SessionTypeOK'
  BY <1>0, <1>19, ReloadWrites DEF Reload, SessionTypeOK
<1>20. ASSUME NEW p \in Reqs, Restored(p) PROVE SessionTypeOK'
  <2>1. req[p].sid \in Sids
    BY <1>20 DEF Restored, SessionTypeOK, Request, Signing, Ready
  <2>2. tab' \in Token \cup {None} /\ stored' \in Sids \cup {None}
    BY <1>20, <2>1, SessionAssumptions DEF Restored, Token, SessionTypeOK
  <2> QED
    BY <1>0, <1>20, <2>2, AuthDone DEF Restored, SessionTypeOK
<1>21. CASE Tick
  BY <1>0, <1>21, SessionAssumptions DEF Tick, SessionTypeOK
<1>22. CASE UNCHANGED sessionVars
  BY <1>22 DEF sessionVars, SessionTypeOK
<1>23. /\ [op |-> "setRoles"] \in Request
       /\ \A to \in {"ACTIVE", "DISABLED"} : [op |-> "setStatus", to |-> to] \in Request
  BY DEF Request
<1> QED
  BY <1>2, <1>3, <1>4, <1>5, <1>6, <1>7, <1>8, <1>9, <1>10, <1>11, <1>12, <1>13, <1>14, <1>15,
       <1>16, <1>17, <1>18, <1>19, <1>20, <1>21, <1>22, <1>23 DEF SessionNext, ServerStep,
       Answer

(* How a step may treat the requests, the sessions and the user when it is *)
(* not one of the few that matter to the invariant.                        *)
KeepsRequest(q) ==
  \/ req'[q].op \notin SigningOps \cup {"restore"}
  \/ req[q].op = "restore" /\ req'[q].op = "restore"
  \/ /\ req[q].op \in SigningOps /\ req'[q].op \in SigningOps
     /\ req'[q].op \in PasswordOps => req[q].op \in PasswordOps
     /\ req'[q].row = req[q].row /\ req'[q].at = req[q].at
     /\ req'[q].web = req[q].web

KeepsRequests == \A q \in Reqs : KeepsRequest(q)

KeepsSessions ==
  /\ born' = born /\ DOMAIN session' = DOMAIN session
  /\ \A s \in DOMAIN session : session'[s].pv = session[s].pv

KeepsCounter ==
  /\ UNCHANGED countVars
  /\ user'.failed = user.failed /\ user'.lockedUntil = user.lockedUntil

QuietStep ==
  /\ KeepsRequests /\ KeepsSessions /\ KeepsCounter
  /\ \/ user'.version = user.version /\ changes' = changes
     \/ user'.version = user.version + 1 /\ changes' = changes + 1
  /\ UNCHANGED webVars \/ (tab' = None /\ stored' = None)

(* A request that ends, and one that is of no interest, keep the others.   *)
LEMMA DoneKeeps ==
  ASSUME SessionTypeOK, NEW p \in Reqs, Done(p)
  PROVE  KeepsRequests
<1>1. ASSUME NEW q \in Reqs PROVE KeepsRequest(q)
  <2>1. CASE q = p
    BY <2>1, AuthDone DEF KeepsRequest, SigningOps
  <2>2. CASE q # p
    <3>1. req'[q] = req[q]
      BY <2>2, AuthDone
    <3> QED
      BY <3>1 DEF KeepsRequest
  <2> QED
    BY <2>1, <2>2
<1> QED
  BY <1>1 DEF KeepsRequests

LEMMA SetKeeps ==
  ASSUME SessionTypeOK, NEW p \in Reqs, \A q \in Reqs \ {p} : req'[q] = req[q],
         req'[p].op \notin SigningOps \cup {"restore"}
  PROVE  KeepsRequests
<1>1. ASSUME NEW q \in Reqs PROVE KeepsRequest(q)
  <2>1. CASE q = p
    BY <2>1 DEF KeepsRequest
  <2>2. CASE q # p
    <3>1. req'[q] = req[q]
      BY <2>2
    <3> QED
      BY <3>1 DEF KeepsRequest
  <2> QED
    BY <2>1, <2>2
<1> QED
  BY <1>1 DEF KeepsRequests

(* Six actions matter to the invariant; every other step is quiet.         *)
LEMMA AuthSteps ==
  ASSUME SessionTypeOK, [SessionNext]_sessionVars
  PROVE  \/ QuietStep
         \/ \E p \in Reqs, web \in BOOLEAN : ~ Booting /\ PasswordRead(p, web)
         \/ \E p \in Reqs : GoogleRead(p)
         \/ \E p \in Reqs : PasswordBad(p)
         \/ \E p \in Reqs : issueSession(p)
         \/ \E p \in Reqs : ~ Booting /\ Reload(p)
         \/ \E p \in Reqs : Restored(p)
<1> USE DEF dbVars, webVars, lockVars
<1>a. ASSUME UNCHANGED <<session, born>> PROVE KeepsSessions
  BY <1>a DEF KeepsSessions
<1>b. ASSUME UNCHANGED <<user, countVars>> PROVE KeepsCounter
  BY <1>b DEF KeepsCounter
<1>0. ASSUME KeepsRequests, UNCHANGED <<dbVars, countVars>>,
             UNCHANGED webVars \/ (tab' = None /\ stored' = None)
      PROVE  QuietStep
  BY <1>0, <1>a, <1>b DEF QuietStep
<1>4. ASSUME NEW p \in Reqs, NEW r \in Request, SeatCheck(p, r),
             r.op \in {"setRoles", "setStatus"}
      PROVE  QuietStep
  BY <1>0, <1>4, AuthSets, SetKeeps DEF SeatCheck, SigningOps
<1>5. ASSUME NEW p \in Reqs, ForceRevoke(p) PROVE QuietStep
  <2> DEFINE r == [op |-> "force", seen |-> {s \in DOMAIN session : ~ session[s].revoked}]
  <2>1. Set(p, r) /\ r.op = "force"
    BY <1>5 DEF ForceRevoke
  <2> HIDE DEF r
  <2>2. KeepsRequests
    BY <2>1, AuthSets, SetKeeps DEF SigningOps
  <2> QED
    BY <1>0, <1>5, <2>2 DEF ForceRevoke
<1>6. ASSUME NEW p \in Reqs, Call(p) PROVE QuietStep
  BY <1>0, <1>6, AuthSets, SetKeeps DEF Call, SigningOps
<1>8. ASSUME NEW p \in Reqs, SignInUpdate(p) PROVE QuietStep
  <2>1. ASSUME NEW q \in Reqs PROVE KeepsRequest(q)
    <3>1. CASE q = p
      BY <1>8, <3>1, SignInWrites DEF KeepsRequest, SigningOps, PasswordOps
    <3>2. CASE q # p
      <4>1. req'[q] = req[q]
        BY <1>8, <3>2, SignInWrites
      <4> QED
        BY <4>1 DEF KeepsRequest
    <3> QED
      BY <3>1, <3>2
  <2>2. KeepsRequests
    BY <2>1 DEF KeepsRequests
  <2> QED
    BY <1>0, <1>8, <2>2 DEF SignInUpdate
<1>9. ASSUME NEW p \in Reqs, SignInRefused(p) \/ CallLost(p) PROVE QuietStep
  BY <1>0, <1>9, DoneKeeps DEF SignInRefused, CallLost
<1>11. ASSUME NEW p \in Reqs, setRoles(p) PROVE QuietStep
  BY <1>11, <1>a, BumpWrites, DoneKeeps DEF setRoles, QuietStep, KeepsCounter
<1>12. ASSUME NEW p \in Reqs, setStatus(p) PROVE QuietStep
  BY <1>12, <1>a, StatusWrites, DoneKeeps DEF setStatus, QuietStep, KeepsCounter
<1>13. ASSUME NEW p \in Reqs, ForceBump(p) PROVE QuietStep
  BY <1>0, <1>13, ForceWrites, SetKeeps DEF ForceBump, SigningOps
<1>14. ASSUME NEW p \in Reqs, ForceCommit(p) PROVE QuietStep
  <2>1. KeepsSessions
    BY <1>14, RevokeWrites DEF ForceCommit, KeepsSessions
  <2> QED
    BY <1>14, <2>1, BumpWrites, DoneKeeps DEF ForceCommit, QuietStep, KeepsCounter
<1>15. ASSUME NEW p \in Reqs, DeadlockAbort(p) \/ Fail(p) PROVE QuietStep
  BY <1>0, <1>15, DoneKeeps DEF DeadlockAbort, Fail
<1>c. ASSUME NEW p \in Reqs, signOut(p) PROVE KeepsRequests /\ tab' = None /\ stored' = None
  BY <1>c, SignOutWrites, SetKeeps DEF SigningOps
<1>16. ASSUME NEW p \in Reqs, UserSignsOut(p) PROVE QuietStep
  BY <1>0, <1>16, <1>c DEF UserSignsOut
<1>17. ASSUME NEW p \in Reqs, CallAnswered(p) PROVE QuietStep
  BY <1>0, <1>17, <1>c, DoneKeeps DEF CallAnswered
<1>18. ASSUME NEW p \in Reqs, LogoutAnswered(p) PROVE QuietStep
  <2>1. KeepsSessions
    BY <1>18, <1>a, RevokeWrites DEF LogoutAnswered, KeepsSessions
  <2>2. KeepsRequests /\ (UNCHANGED webVars \/ (tab' = None /\ stored' = None))
    BY <1>18, <1>c, DoneKeeps DEF LogoutAnswered
  <2> QED
    BY <1>18, <1>b, <2>1, <2>2 DEF LogoutAnswered, QuietStep
<1>20. ASSUME UNCHANGED req PROVE KeepsRequests
  BY <1>20 DEF KeepsRequests, KeepsRequest
<1>21. CASE Tick
  BY <1>0, <1>20, <1>21 DEF Tick
<1>22. CASE UNCHANGED sessionVars
  BY <1>0, <1>20, <1>22 DEF sessionVars
<1>23. /\ [op |-> "setRoles"] \in Request
       /\ \A to \in {"ACTIVE", "DISABLED"} : [op |-> "setStatus", to |-> to] \in Request
  BY DEF Request
<1> QED
  BY <1>4, <1>5, <1>6, <1>8, <1>9, <1>11, <1>12, <1>13, <1>14, <1>15, <1>16, <1>17, <1>18, <1>21,
     <1>22, <1>23 DEF SessionNext, ServerStep, Answer

(* The versions keep counting the changes.                                 *)
LEMMA NextVersions ==
  ASSUME SessionTypeOK, VersionsCount, [SessionNext]_sessionVars
  PROVE  VersionsCount'
<1> USE DEF dbVars, webVars
<1>0. user.version \in Nat /\ changes \in Nat /\ DOMAIN born = DOMAIN session
  BY UserTypes DEF SessionTypeOK
<1>a. ASSUME KeepsRequests,
             \/ user'.version = user.version /\ changes' = changes
             \/ user'.version = user.version + 1 /\ changes' = changes + 1
      PROVE  /\ user'.version = changes' + 1
             /\ \A p \in Reqs : req'[p].op \in SigningOps => req'[p].row.version = req'[p].at + 1
  <2>1. user'.version = changes' + 1
    BY <1>0, <1>a DEF VersionsCount
  <2>2. ASSUME NEW p \in Reqs, req'[p].op \in SigningOps
        PROVE  req'[p].row.version = req'[p].at + 1
    <3>1. req[p].op \in SigningOps /\ req'[p].row = req[p].row /\ req'[p].at = req[p].at
      BY <1>a, <2>2, Zenon DEF KeepsRequests, KeepsRequest, SigningOps
    <3> QED
      BY <3>1 DEF VersionsCount
  <2> QED
    BY <2>1, <2>2
<1>b. ASSUME KeepsSessions
      PROVE  \A s \in DOMAIN session' : session'[s].pv = born'[s] + 1
  BY <1>b DEF KeepsSessions, VersionsCount
<1>1. CASE QuietStep
  BY <1>1, <1>a, <1>b DEF QuietStep, VersionsCount
<1>2. ASSUME NEW p \in Reqs, UNCHANGED dbVars, NEW r, Set(p, r),
             r.row = user, r.at = changes
      PROVE  VersionsCount'
  <2>1. req'[p] = r /\ \A q \in Reqs \ {p} : req'[q] = req[q]
    BY <1>2, AuthSets
  <2> QED
    BY <1>2, <2>1 DEF VersionsCount
<1>3. ASSUME NEW p \in Reqs, NEW web \in BOOLEAN, PasswordRead(p, web) PROVE VersionsCount'
  BY <1>2, <1>3 DEF PasswordRead
<1>4. ASSUME NEW p \in Reqs, GoogleRead(p) PROVE VersionsCount'
  BY <1>2, <1>4 DEF GoogleRead
<1>5. ASSUME NEW p \in Reqs, PasswordBad(p) PROVE VersionsCount'
  <2>1. KeepsRequests /\ KeepsSessions
    BY <1>5, DoneKeeps DEF PasswordBad, KeepsSessions
  <2> QED
    BY <1>5, <1>a, <1>b, <2>1, StrikeWrites DEF PasswordBad, VersionsCount
<1>6. ASSUME NEW p \in Reqs, issueSession(p) PROVE VersionsCount'
  <2>1. KeepsRequests /\ changes' = changes
    BY <1>6, DoneKeeps DEF issueSession
  <2>2. user'.version = user.version
    BY <1>6, ResetWrites DEF issueSession
  <2>3. req[p].row.version = req[p].at + 1
    BY <1>6 DEF issueSession, VersionsCount, SigningOps
  <2>4. \A s \in DOMAIN session' : session'[s].pv = born'[s] + 1
    BY <1>6, <2>3, IssueWrites DEF VersionsCount
  <2> QED
    BY <1>a, <2>1, <2>2, <2>4 DEF VersionsCount
<1>7. ASSUME NEW p \in Reqs, Reload(p) PROVE VersionsCount'
  <2>1. UNCHANGED <<user, session, changes, born>>
    BY <1>7 DEF Reload
  <2>2. ASSUME NEW q \in Reqs, req'[q].op \in SigningOps PROVE req'[q].row.version = req'[q].at + 1
    BY <1>7, <2>2, ReloadWrites DEF VersionsCount, SigningOps
  <2> QED
    BY <2>1, <2>2 DEF VersionsCount
<1>8. ASSUME NEW p \in Reqs, Restored(p) PROVE VersionsCount'
  <2>1. KeepsRequests /\ KeepsSessions /\ UNCHANGED <<user, changes>>
    BY <1>8, DoneKeeps DEF Restored, KeepsSessions
  <2> QED
    BY <1>a, <1>b, <2>1 DEF VersionsCount
<1> QED
  BY <1>1, <1>3, <1>4, <1>5, <1>6, <1>7, <1>8, AuthSteps

(* Unless password sign-ins overlap, the counter stays exact.              *)
LEMMA NextCounter ==
  ASSUME SessionTypeOK, CounterIsCurrent, [SessionNext]_sessionVars
  PROVE  CounterIsCurrent'
<1> USE DEF dbVars, webVars
<1> DEFINE Exact == /\ user.failed = strikes
                    /\ shouldLock(strikes) => user.lockedUntil = lastBad + LOCKOUT_MINUTES
           Alone(p) == /\ req[p].row.failed = user.failed
                       /\ \A q \in Reqs \ {p} : req[q].op \notin PasswordOps
<1>0. ASSUME KeepsCounter,
             \A q \in Reqs : req'[q].op \in PasswordOps =>
                req[q].op \in PasswordOps /\ req'[q].row = req[q].row
      PROVE  CounterIsCurrent'
  <2>1. overlap' = overlap /\ strikes' = strikes /\ lastBad' = lastBad
    BY <1>0 DEF KeepsCounter, countVars
  <2>2. CASE overlap
    BY <2>1, <2>2 DEF CounterIsCurrent
  <2>3. CASE ~ overlap
    <3>1. Exact'
      BY <1>0, <2>1, <2>3 DEF CounterIsCurrent, KeepsCounter, shouldLock
    <3>2. ASSUME NEW p \in Reqs, req'[p].op \in PasswordOps PROVE Alone(p)'
      BY <1>0, <2>3, <3>2 DEF CounterIsCurrent, KeepsCounter
    <3> QED
      BY <3>1, <3>2 DEF CounterIsCurrent
  <2> QED
    BY <2>2, <2>3
<1>b. ASSUME KeepsRequests
      PROVE  \A q \in Reqs : req'[q].op \in PasswordOps =>
                req[q].op \in PasswordOps /\ req'[q].row = req[q].row
  BY <1>b, Zenon DEF KeepsRequests, KeepsRequest, SigningOps, PasswordOps
<1>c. ASSUME UNCHANGED <<user, countVars>> PROVE KeepsCounter
  BY <1>c DEF KeepsCounter
<1>1. CASE QuietStep
  BY <1>0, <1>1, <1>b DEF QuietStep
<1>3. ASSUME NEW p \in Reqs, NEW web \in BOOLEAN, PasswordRead(p, web) PROVE CounterIsCurrent'
  <2>1. CASE overlap'
    BY <2>1 DEF CounterIsCurrent
  <2>2. CASE ~ overlap'
    <3>1. ~ overlap /\ \A q \in Reqs : req[q].op \notin PasswordOps
      BY <1>3, <2>2 DEF PasswordRead, PasswordOps
    <3>2. UNCHANGED <<user, strikes, lastBad>>
      BY <1>3 DEF PasswordRead
    <3>3. req'[p].row = user /\ \A q \in Reqs \ {p} : req'[q] = req[q]
      BY <1>3, AuthSets DEF PasswordRead
    <3>4. Exact'
      BY <3>1, <3>2 DEF CounterIsCurrent, shouldLock
    <3>5. \A q \in Reqs : req'[q].op \in PasswordOps => Alone(q)'
      BY <3>1, <3>2, <3>3
    <3> QED
      BY <3>4, <3>5 DEF CounterIsCurrent
  <2> QED
    BY <2>1, <2>2
<1>4. ASSUME NEW p \in Reqs, GoogleRead(p) PROVE CounterIsCurrent'
  <2>1. UNCHANGED <<user, countVars>>
    BY <1>4 DEF GoogleRead
  <2>2. req'[p].op = "google" /\ \A q \in Reqs \ {p} : req'[q] = req[q]
    BY <1>4, AuthSets DEF GoogleRead
  <2> QED
    BY <1>0, <1>c, <2>1, <2>2 DEF PasswordOps
<1>5. ASSUME NEW p \in Reqs, PasswordBad(p) PROVE CounterIsCurrent'
  <2>1. overlap' = overlap /\ strikes' = strikes + 1 /\ lastBad' = req[p].read
    BY <1>5 DEF PasswordBad
  <2>2. CASE overlap
    BY <2>1, <2>2 DEF CounterIsCurrent
  <2>3. CASE ~ overlap
    <3>1. /\ req[p].row.failed = strikes
          /\ \A q \in Reqs \ {p} : req[q].op \notin PasswordOps
      BY <1>5, <2>3 DEF CounterIsCurrent, PasswordBad, PasswordOps
    <3>2. Exact'
      BY <1>5, <2>1, <3>1, StrikeWrites DEF shouldLock
    <3>3. req'[p].op = "idle" /\ \A q \in Reqs \ {p} : req'[q] = req[q]
      BY <1>5, AuthDone DEF PasswordBad
    <3>4. \A q \in Reqs : req'[q].op \notin PasswordOps
      BY <3>1, <3>3 DEF PasswordOps
    <3> QED
      BY <3>2, <3>4 DEF CounterIsCurrent
  <2> QED
    BY <2>2, <2>3
<1>6. ASSUME NEW p \in Reqs, issueSession(p) PROVE CounterIsCurrent'
  <2>0. KeepsRequests
    BY <1>6, DoneKeeps DEF issueSession
  <2>1. CASE req[p].op = "passwordTx"
    <3>1. /\ user' = reset(user) /\ strikes' = 0
          /\ overlap' = \E q \in Reqs \ {p} : req[q].op \in {"password", "passwordTx"}
      BY <1>6, <2>1, Zenon DEF issueSession
    <3>2. CASE overlap'
      BY <3>2 DEF CounterIsCurrent
    <3>3. CASE ~ overlap'
      <4>1. \A q \in Reqs \ {p} : req[q].op \notin PasswordOps
        BY <3>1, <3>3, Zenon DEF PasswordOps
      <4>2. req'[p].op = "idle" /\ \A q \in Reqs \ {p} : req'[q] = req[q]
        BY <1>6, AuthDone DEF issueSession
      <4>3. \A q \in Reqs : req'[q].op \notin PasswordOps
        BY <4>1, <4>2 DEF PasswordOps
      <4>4. user'.failed = 0
        BY <3>1, ResetWrites
      <4>5. Exact'
        BY <3>1, <4>4, SessionAssumptions DEF shouldLock
      <4> QED
        BY <4>3, <4>5 DEF CounterIsCurrent
    <3> QED
      BY <3>2, <3>3
  <2>2. CASE req[p].op # "passwordTx"
    <3>1. UNCHANGED <<user, countVars>>
      BY <1>6, <2>2, Zenon DEF issueSession, countVars
    <3> QED
      BY <1>0, <1>b, <1>c, <2>0, <3>1
  <2> QED
    BY <2>1, <2>2
<1>7. ASSUME NEW p \in Reqs, Reload(p) PROVE CounterIsCurrent'
  <2>1. UNCHANGED <<user, countVars>>
    BY <1>7 DEF Reload
  <2>2. \A q \in Reqs : req'[q].op \in PasswordOps =>
           req[q].op \in PasswordOps /\ req'[q].row = req[q].row
    BY <1>7, ReloadWrites DEF PasswordOps, SigningOps
  <2> QED
    BY <1>0, <1>c, <2>1, <2>2
<1>8. ASSUME NEW p \in Reqs, Restored(p) PROVE CounterIsCurrent'
  <2>1. KeepsRequests /\ UNCHANGED <<user, countVars>>
    BY <1>8, DoneKeeps DEF Restored
  <2> QED
    BY <1>0, <1>b, <1>c, <2>1
<1> QED
  BY <1>1, <1>3, <1>4, <1>5, <1>6, <1>7, <1>8, AuthSteps

(* A tab that restores its session stays alone with it.                    *)
LEMMA NextRestores ==
  ASSUME SessionTypeOK, RestoresAlone, [SessionNext]_sessionVars
  PROVE  RestoresAlone'
<1> USE DEF dbVars
<1>0. ASSUME \A q \in Reqs : req'[q].op = "restore" => req[q].op = "restore",
             \A q \in Reqs : req'[q].op \in SigningOps =>
                \/ req[q].op \in SigningOps /\ req'[q].web = req[q].web
                \/ ~ req'[q].web,
             tab' # None => stored' # None,
             tab' = None \/ tab' = tab
      PROVE  RestoresAlone'
  BY <1>0, Zenon DEF RestoresAlone
<1>b. ASSUME KeepsRequests
      PROVE  /\ \A q \in Reqs : req'[q].op = "restore" => req[q].op = "restore"
             /\ \A q \in Reqs : req'[q].op \in SigningOps =>
                  req[q].op \in SigningOps /\ req'[q].web = req[q].web
  <2>1. "restore" \notin SigningOps
    BY DEF SigningOps
  <2> QED
    BY <1>b, <2>1, Zenon DEF KeepsRequests, KeepsRequest
<1>1. CASE QuietStep
  <2>1. (tab' # None => stored' # None) /\ (tab' = None \/ tab' = tab)
    BY <1>1 DEF QuietStep, RestoresAlone, webVars
  <2> QED
    BY <1>0, <1>1, <1>b, <2>1 DEF QuietStep
<1>c. ASSUME UNCHANGED webVars
      PROVE  (tab' # None => stored' # None) /\ (tab' = None \/ tab' = tab)
  BY <1>c DEF webVars, RestoresAlone
<1>3. ASSUME NEW p \in Reqs, NEW web \in BOOLEAN, ~ Booting, PasswordRead(p, web)
      PROVE  RestoresAlone'
  <2>1. req'[p].op = "password" /\ \A q \in Reqs \ {p} : req'[q] = req[q]
    BY <1>3, AuthSets DEF PasswordRead
  <2>2. \A q \in Reqs : req'[q].op # "restore"
    BY <1>3, <2>1 DEF Booting
  <2>3. tab' # None => stored' # None
    BY <1>3, <1>c DEF PasswordRead
  <2> QED
    BY <2>2, <2>3 DEF RestoresAlone
<1>4. ASSUME NEW p \in Reqs, GoogleRead(p) PROVE RestoresAlone'
  <2> DEFINE r == [op |-> "google", row |-> user, at |-> changes, read |-> now, web |-> FALSE]
  <2>1. req'[p] = r /\ \A q \in Reqs \ {p} : req'[q] = req[q]
    BY <1>4, AuthSets DEF GoogleRead
  <2>2. (req'[p].web = FALSE) /\ req'[p].op = "google"
    BY <2>1
  <2> HIDE DEF r
  <2>3. UNCHANGED webVars
    BY <1>4 DEF GoogleRead
  <2> QED
    BY <1>0, <1>c, <2>1, <2>2, <2>3
<1>5. ASSUME NEW p \in Reqs, PasswordBad(p) PROVE RestoresAlone'
  BY <1>0, <1>5, <1>b, <1>c, DoneKeeps DEF PasswordBad
<1>6. ASSUME NEW p \in Reqs, issueSession(p) PROVE RestoresAlone'
  <2>0. KeepsRequests
    BY <1>6, DoneKeeps DEF issueSession
  <2>1. CASE req[p].web
    <3>1. stored' = Len(session) + 1
      BY <1>6, <2>1, Zenon DEF issueSession
    <3>2. stored' # None
      BY <3>1, SessionAssumptions DEF SessionTypeOK
    <3>3. \A q \in Reqs : req[q].op # "restore"
      BY <1>6, <2>1, Zenon DEF issueSession, RestoresAlone, SigningOps
    <3> QED
      BY <1>b, <2>0, <3>2, <3>3, Zenon DEF RestoresAlone
  <2>2. CASE ~ req[p].web
    <3>1. UNCHANGED webVars
      BY <1>6, <2>2, Zenon DEF issueSession
    <3> QED
      BY <1>0, <1>b, <1>c, <2>0, <3>1
  <2> QED
    BY <2>1, <2>2
<1>7. ASSUME NEW p \in Reqs, ~ Booting, Reload(p) PROVE RestoresAlone'
  <2>1. tab' = None /\ \A q \in Reqs \ {p} : req'[q].op # "restore"
    BY <1>7, ReloadWrites DEF Booting
  <2>2. req'[p].op \notin SigningOps
    BY <1>7, ReloadWrites DEF SigningOps
  <2>3. \A q \in Reqs : req'[q].op \in SigningOps => ~ req'[q].web
    BY <1>7, <2>2, ReloadWrites, Zenon
  <2> QED
    BY <2>1, <2>3, Zenon DEF RestoresAlone
<1>8. ASSUME NEW p \in Reqs, Restored(p) PROVE RestoresAlone'
  <2>1. req'[p].op = "idle" /\ \A q \in Reqs \ {p} : req'[q] = req[q]
    BY <1>8, AuthDone DEF Restored
  <2>2. \A q \in Reqs : req'[q].op # "restore"
    BY <1>8, <2>1 DEF Restored, RestoresAlone
  <2>3. req[p].sid \in Sids
    BY <1>8 DEF Restored, SessionTypeOK, Request, Signing, Ready
  <2>4. tab' # None => stored' # None
    BY <1>8, <2>3, SessionAssumptions DEF Restored, Sids
  <2> QED
    BY <2>2, <2>4 DEF RestoresAlone
<1> QED
  BY <1>1, <1>3, <1>4, <1>5, <1>6, <1>7, <1>8, AuthSteps

LEMMA AuthNext == AuthInv /\ [SessionNext]_sessionVars => AuthInv'
  BY AuthNextTypes, NextVersions, NextCounter, NextRestores DEF AuthInv

(* The type invariant of the session model: rows, requests and tokens keep *)
(* their shape for every account history, lockout policy and token life.   *)
THEOREM SessionTypeCorrect == SessionSpec => []SessionTypeOK
<1>1. AuthInv => SessionTypeOK
  BY DEF AuthInv
<1> QED
  BY <1>1, AuthInit, AuthNext, PTL DEF SessionSpec

(* A session the guard or refresh accepts was signed in after the last     *)
(* permission change and forced logout, also when the sign-in read the     *)
(* user before they committed (completeSignIn, JwtGuard.canActivate).      *)
THEOREM RevocationIsInstant == SessionSpec => []AcceptedIsFresh
<1>1. ASSUME AuthInv PROVE AcceptedIsFresh
  <2>1. ASSUME NEW s \in DOMAIN session, liveSession(s) PROVE born[s] = changes
    <3>1. session[s].pv = user.version /\ user.version = changes + 1 /\ session[s].pv = born[s] + 1
      BY <1>1, <2>1 DEF liveSession, AuthInv, VersionsCount
    <3>2. born[s] \in Nat /\ changes \in Nat
      BY <1>1 DEF AuthInv, SessionTypeOK
    <3> QED
      BY <3>1, <3>2
  <2> QED
    BY <2>1 DEF AcceptedIsFresh
<1> QED
  BY <1>1, AuthInit, AuthNext, PTL DEF SessionSpec

(* Unless password sign-ins overlap, failed_login_count is the number of   *)
(* bad passwords since the last sign-in and the lock dates from the last   *)
(* of them (loginInTenant), whatever else writes the user row meanwhile.   *)
THEOREM LockoutCounts == SessionSpec => []LockoutExact
<1>1. AuthInv => LockoutExact
  BY DEF AuthInv, CounterIsCurrent, LockoutExact
<1> QED
  BY <1>1, AuthInit, AuthNext, PTL DEF SessionSpec

(* The steps on which a tab may lose a token that is still good.           *)
LEMMA KeepsLiveSession ==
  ASSUME AuthInv, SessionNext,
         tab # None, stored' = None, canActivate(tab)
  PROVE  \/ \E p \in Reqs : req[p] = Ready /\ req'[p] # Ready
         \/ \E p \in Reqs : /\ req[p].op \in {"call", "logout"}
                            /\ req'[p] # req[p] /\ req[p].token # tab
<1> USE DEF webVars
<1>0. SessionTypeOK /\ stored # None /\ stored' # stored
  BY DEF AuthInv, RestoresAlone
<1> DEFINE Allowed == \/ \E p \in Reqs : req[p] = Ready /\ req'[p] # Ready
                      \/ \E p \in Reqs : /\ req[p].op \in {"call", "logout"}
                                         /\ req'[p] # req[p] /\ req[p].token # tab
<1>1. ASSUME NEW p \in Reqs, UserSignsOut(p) PROVE Allowed
  <2>1. req[p] = Ready /\ req'[p].op = "logout"
    BY <1>0, <1>1, SignOutWrites DEF UserSignsOut
  <2> QED
    BY <2>1 DEF Ready
<1>2. ASSUME NEW p \in Reqs, CallAnswered(p) PROVE Allowed
  <2>1. signOut(p) /\ ~ canActivate(req[p].token) /\ req[p].op = "call"
    BY <1>0, <1>2, Zenon DEF CallAnswered
  <2>2. req'[p].op = "logout"
    BY <1>0, <2>1, SignOutWrites
  <2>3. req[p].token # tab
    BY <2>1
  <2> HIDE DEF Allowed
  <2>4. req'[p] # req[p]
    BY <2>1, <2>2
  <2> QED
    BY <2>1, <2>3, <2>4 DEF Allowed
<1>3. ASSUME NEW p \in Reqs, LogoutAnswered(p) PROVE Allowed
  <2>1. signOut(p) /\ ~ canActivate(req[p].token) /\ req[p].op = "logout"
    BY <1>0, <1>3, Zenon DEF LogoutAnswered
  <2>2. req'[p].token = tab
    BY <1>0, <2>1, SignOutWrites
  <2>3. req[p].token # tab
    BY <2>1
  <2>4. req'[p] # req[p]
    BY <2>2, <2>3
  <2> QED
    BY <2>1, <2>3, <2>4
<1>4. ASSUME NEW p \in Reqs, Restored(p) PROVE FALSE
  BY <1>4 DEF Restored, AuthInv, RestoresAlone
<1>5. ASSUME NEW p \in Reqs, issueSession(p) PROVE FALSE
  <2>1. UNCHANGED stored \/ stored' = Len(session) + 1
    BY <1>5, Zenon DEF issueSession
  <2>2. Len(session) + 1 \in Nat
    BY <1>0 DEF SessionTypeOK
  <2> QED
    BY <1>0, <2>1, <2>2, SessionAssumptions
<1>6. ASSUME NEW p \in Reqs,
             \/ \E web \in BOOLEAN : PasswordRead(p, web)
             \/ PasswordBad(p) \/ GoogleRead(p)
             \/ SignInUpdate(p) \/ SignInRefused(p)
             \/ \E r \in Request : SeatCheck(p, r)
             \/ setRoles(p) \/ setStatus(p)
             \/ ForceRevoke(p) \/ ForceBump(p) \/ ForceCommit(p)
             \/ DeadlockAbort(p) \/ Fail(p)
             \/ CallLost(p) \/ Call(p) \/ Reload(p)
      PROVE  FALSE
  BY <1>0, <1>6, Zenon DEF PasswordRead, PasswordBad, GoogleRead,
       SignInUpdate, SignInRefused, SeatCheck, setRoles, setStatus,
       ForceRevoke, ForceBump, ForceCommit, DeadlockAbort, Fail,
       CallLost, Call, Reload
<1>7. ASSUME Tick PROVE FALSE
  BY <1>0, <1>7 DEF Tick
<1>8. /\ [op |-> "setRoles"] \in Request
      /\ \A to \in {"ACTIVE", "DISABLED"} : [op |-> "setStatus", to |-> to] \in Request
  BY DEF Request
<1> HIDE DEF Allowed
<1>9. Allowed
  BY <1>1, <1>2, <1>3, <1>4, <1>5, <1>6, <1>7, <1>8 DEF SessionNext, ServerStep, Answer
<1> QED
  BY <1>9 DEF Allowed

(* A tab drops a session the server would still accept only when the user  *)
(* signs out or when a 401 answers a request with another token (the       *)
(* interceptor of apps/web/src/api/client.ts); a restore never drops one.  *)
THEOREM TabKeepsSession == SessionSpec => TabKeepsLiveSession
<1> DEFINE Kept == tab # None /\ stored' = None /\ canActivate(tab) =>
       \/ \E p \in Reqs : req[p] = Ready /\ req'[p] # Ready
       \/ \E p \in Reqs : /\ req[p].op \in {"call", "logout"}
                          /\ req'[p] # req[p] /\ req[p].token # tab
<1>1. AuthInv /\ [SessionNext]_sessionVars => [Kept]_sessionVars
  BY KeepsLiveSession
<1> HIDE DEF Kept
<1>2. SessionSpec => [][Kept]_sessionVars
  BY <1>1, AuthInit, AuthNext, PTL DEF SessionSpec
<1> QED
  BY <1>2 DEF Kept, TabKeepsLiveSession
=============================================================================
