------------------------------ MODULE Sessions ------------------------------
(***************************************************************************)
(* Sign-in, lockout, instant revocation and the browser's session, for one *)
(* user account of one tenant (apps/api/src/iam/auth.service.ts and        *)
(* user.service.ts, apps/api/src/auth, apps/web/src/session and api).      *)
(*                                                                         *)
(* A password sign-in reads the user in one transaction, verifies the      *)
(* password, and writes in another.  Row locks: whatever updates the user  *)
(* locks its row to COMMIT; withSeatCheck locks the tenant row FOR UPDATE, *)
(* and an insert into session or audit_log needs a key-share lock on it.   *)
(* A statement after which a handler only commits is one step with COMMIT. *)
(***************************************************************************)
EXTENDS Integers, Sequences

CONSTANTS
  Reqs,               \* requests that may be open at a time
  LOCKOUT_THRESHOLD,
  LOCKOUT_MINUTES,    \* length of a lockout, in ticks
  JWT_ACCESS_TTL,     \* life of an access token, in ticks
  JWT_REFRESH_TTL,    \* life of a session, in ticks
  MaxOps,             \* bound: requests that write users
  MaxTime,            \* bound: the clock
  None

ASSUME SessionAssumptions ==
  /\ LOCKOUT_THRESHOLD \in Nat \ {0} /\ LOCKOUT_MINUTES \in Nat \ {0}
  /\ JWT_ACCESS_TTL \in Nat /\ JWT_REFRESH_TTL \in Nat
  /\ MaxOps \in Nat /\ MaxTime \in Nat
  /\ None \notin Reqs \cup Nat

VARIABLES
  user,      \* status, permissions_version, failed_login_count, locked_until
  session,   \* issued sessions, by sid: revoked, permissions_version, expires_at
  now,       \* the clock
  tenantRow, \* the request that holds the tenant row FOR UPDATE, or None
  userRow,   \* the request that holds the user row, or None
  req,       \* open requests
  tab,       \* the browser's access token in memory, or None
  stored,    \* erp.refresh_token in localStorage: a session, or None
  ops,       \* writing requests so far
  changes,   \* history: permission changes and forced logouts committed
  born,      \* history: changes when the sign-in of a session read the user
  strikes,   \* history: bad passwords since the last password sign-in
  lastBad,   \* history: when the last bad password was checked
  overlap    \* history: two password sign-ins overlapped since then

dbVars == <<user, session, changes, born>>
webVars == <<tab, stored>>
lockVars == <<tenantRow, userRow>>
countVars == <<strikes, lastBad, overlap>>
sessionVars == <<dbVars, webVars, lockVars, countVars, req, now, ops>>

-----------------------------------------------------------------------------
Sids == Nat \ {0}
UserRow == [status : {"ACTIVE", "DISABLED"}, version : Nat, failed : Nat, lockedUntil : Nat]
SessionRow == [revoked : BOOLEAN, pv : Nat, expires : Nat]

(* An access token: the session (sid) and its expiry; its pv is the pv of  *)
(* the session.                                                            *)
Token == [sid : Sids, exp : Nat]

Ready == [op |-> "idle"]
Signing == [op : {"password", "google", "passwordTx", "googleTx"}, row : UserRow, at : Nat,
            read : Nat, web : BOOLEAN]
Request ==
  {Ready} \cup Signing
  \cup [op : {"setRoles"}]
  \cup [op : {"setStatus"}, to : {"ACTIVE", "DISABLED"}]
  \cup [op : {"force", "forceTx"}, seen : SUBSET Sids]
  \cup [op : {"call", "logout"}, token : Token, web : BOOLEAN]
  \cup [op : {"restore"}, sid : Sids]

SessionTypeOK ==
  /\ user \in UserRow
  /\ session \in Seq(SessionRow)
  /\ now \in 0 .. MaxTime
  /\ tenantRow \in Reqs \cup {None} /\ userRow \in Reqs \cup {None}
  /\ req \in [Reqs -> Request]
  /\ tab \in Token \cup {None} /\ stored \in Sids \cup {None}
  /\ ops \in 0 .. MaxOps /\ changes \in Nat
  /\ born \in Seq(Nat) /\ Len(born) = Len(session)
  /\ strikes \in Nat /\ lastBad \in Nat /\ overlap \in BOOLEAN

SessionInit ==
  /\ user = [status |-> "ACTIVE", version |-> 1, failed |-> 0, lockedUntil |-> 0]
  /\ session = <<>> /\ born = <<>>
  /\ now = 0 /\ ops = 0 /\ changes = 0
  /\ tenantRow = None /\ userRow = None
  /\ req = [p \in Reqs |-> Ready]
  /\ tab = None /\ stored = None
  /\ strikes = 0 /\ lastBad = 0 /\ overlap = FALSE

Set(p, r) == req' = [req EXCEPT ![p] = r]
Done(p) == Set(p, Ready)
Op == ops < MaxOps /\ ops' = ops + 1

shouldLock(failed) == failed >= LOCKOUT_THRESHOLD
isLocked(row, t) == row.lockedUntil > t

(* What JwtGuard and refresh ask of a session row and its user.            *)
liveSession(s) ==
  /\ ~ session[s].revoked
  /\ now < session[s].expires
  /\ user.status = "ACTIVE"
  /\ session[s].pv = user.version

(* JwtGuard.canActivate, with verifyAccess.                                *)
canActivate(token) == now < token.exp /\ liveSession(token.sid)

-----------------------------------------------------------------------------
(* Signing in.  The first transaction of a password sign-in, up to the     *)
(* lockout check; web says that the request is the browser's login form.   *)
PasswordRead(p, web) ==
  /\ req[p] = Ready
  /\ ~ isLocked(user, now)
  /\ web => tab = None
  /\ Set(p, [op |-> "password", row |-> user, at |-> changes, read |-> now, web |-> web])
  /\ overlap' = (overlap \/ \E q \in Reqs : req[q].op \in {"password", "passwordTx"})
  /\ Op
  /\ UNCHANGED <<dbVars, webVars, lockVars, now, strikes, lastBad>>

(* A bad password: the count read earlier plus one, in its own transaction.*)
PasswordBad(p) ==
  LET failed == req[p].row.failed + 1
  IN /\ req[p].op = "password"
     /\ userRow = None
     /\ user' = [user EXCEPT !.failed = failed,
          !.lockedUntil = IF shouldLock(failed) THEN req[p].read + LOCKOUT_MINUTES
                          ELSE req[p].row.lockedUntil]
     /\ strikes' = strikes + 1
     /\ lastBad' = req[p].read
     /\ Done(p)
     /\ UNCHANGED <<session, changes, born, webVars, lockVars, now, ops, overlap>>

(* signInWithIdentity: one transaction, but the user is read before its    *)
(* row is locked.                                                          *)
GoogleRead(p) ==
  /\ req[p] = Ready
  /\ user.status = "ACTIVE"
  /\ ~ isLocked(user, now)
  /\ Set(p, [op |-> "google", row |-> user, at |-> changes, read |-> now, web |-> FALSE])
  /\ Op
  /\ UNCHANGED <<dbVars, webVars, lockVars, countVars, now>>

(* The update of the user row that precedes issueSession.                  *)
SignInUpdate(p) ==
  /\ req[p].op \in {"password", "google"}
  /\ req[p].row.status = "ACTIVE"
  /\ userRow = None
  /\ userRow' = p
  /\ Set(p, [req[p] EXCEPT !.op = IF @ = "password" THEN "passwordTx" ELSE "googleTx"])
  /\ UNCHANGED <<dbVars, webVars, countVars, tenantRow, now, ops>>

(* The account is not ACTIVE.                                              *)
SignInRefused(p) ==
  /\ req[p].op = "password"
  /\ req[p].row.status # "ACTIVE"
  /\ Done(p)
  /\ UNCHANGED <<dbVars, webVars, lockVars, countVars, now, ops>>

(* Mutant: a sign-in does not reset the counter.                           *)
resetNot(row) == row

(* failedLoginCount: 0, lockedUntil: null                                  *)
reset(row) == [row EXCEPT !.failed = 0, !.lockedUntil = 0]

(* completeSignIn and COMMIT: the session row needs the tenant row.        *)
issueSession(p) ==
  LET s == Len(session) + 1
  IN /\ req[p].op \in {"passwordTx", "googleTx"}
     /\ tenantRow = None
     /\ session' = Append(session, [revoked |-> FALSE, pv |-> req[p].row.version,
                                    expires |-> now + JWT_REFRESH_TTL])
     /\ born' = Append(born, req[p].at)
     /\ user' = IF req[p].op = "passwordTx" THEN reset(user) ELSE user
     /\ IF req[p].op = "passwordTx"
        THEN /\ strikes' = 0
             /\ overlap' = \E q \in Reqs \ {p} : req[q].op \in {"password", "passwordTx"}
        ELSE UNCHANGED <<strikes, overlap>>
     /\ IF req[p].web THEN tab' = [sid |-> s, exp |-> now + JWT_ACCESS_TTL] /\ stored' = s
        ELSE UNCHANGED webVars
     /\ userRow' = None
     /\ Done(p)
     /\ UNCHANGED <<changes, tenantRow, now, ops, lastBad>>

-----------------------------------------------------------------------------
(* Changes of the user under withSeatCheck: UserService.setRoles (and the  *)
(* role edit and the import, for a bound user) and setStatus.              *)

SeatCheck(p, r) ==
  /\ req[p] = Ready
  /\ tenantRow = None
  /\ tenantRow' = p
  /\ Set(p, r)
  /\ Op
  /\ UNCHANGED <<dbVars, webVars, countVars, userRow, now>>

setRoles(p) ==
  /\ req[p].op = "setRoles"
  /\ userRow = None
  /\ user' = [user EXCEPT !.version = @ + 1]
  /\ changes' = changes + 1
  /\ tenantRow' = None
  /\ Done(p)
  /\ UNCHANGED <<session, born, webVars, countVars, userRow, now, ops>>

(* Neither the version nor the sessions are touched.                       *)
setStatus(p) ==
  /\ req[p].op = "setStatus"
  /\ userRow = None
  /\ user' = [user EXCEPT !.status = req[p].to]
  /\ tenantRow' = None
  /\ Done(p)
  /\ UNCHANGED <<session, changes, born, webVars, countVars, userRow, now, ops>>

(* forceLogout: revoke the sessions it sees, bump the version, and write   *)
(* the audit row.                                                          *)
ForceRevoke(p) ==
  /\ req[p] = Ready
  /\ Set(p, [op |-> "force", seen |-> {s \in DOMAIN session : ~ session[s].revoked}])
  /\ Op
  /\ UNCHANGED <<dbVars, webVars, lockVars, countVars, now>>

ForceBump(p) ==
  /\ req[p].op = "force"
  /\ userRow = None
  /\ userRow' = p
  /\ Set(p, [req[p] EXCEPT !.op = "forceTx"])
  /\ UNCHANGED <<dbVars, webVars, countVars, tenantRow, now, ops>>

revoke(S) == [s \in DOMAIN session |-> [session[s] EXCEPT !.revoked = @ \/ s \in S]]

(* Mutant: the sessions are revoked, but the version is not bumped.        *)
ForceCommitNoBump(p) ==
  /\ req[p].op = "forceTx"
  /\ tenantRow = None
  /\ session' = revoke(req[p].seen)
  /\ changes' = changes + 1
  /\ userRow' = None
  /\ Done(p)
  /\ UNCHANGED <<user, born, webVars, countVars, tenantRow, now, ops>>

ForceCommit(p) ==
  /\ req[p].op = "forceTx"
  /\ tenantRow = None
  /\ session' = revoke(req[p].seen)
  /\ user' = [user EXCEPT !.version = @ + 1]
  /\ changes' = changes + 1
  /\ userRow' = None
  /\ Done(p)
  /\ UNCHANGED <<born, webVars, countVars, tenantRow, now, ops>>

-----------------------------------------------------------------------------
(* UnitOfWork.withTransaction: any error rolls back and frees the rows.    *)

(* Mutant: the error path returns without ROLLBACK.                        *)
ReleaseNot(p) == UNCHANGED lockVars

Release(p) ==
  /\ tenantRow' = IF tenantRow = p THEN None ELSE tenantRow
  /\ userRow' = IF userRow = p THEN None ELSE userRow

WaitsForUser(p) == req[p].op \in {"setRoles", "setStatus"} /\ tenantRow = p
WaitsForTenant(p) == req[p].op \in {"passwordTx", "googleTx", "forceTx"} /\ userRow = p

(* PostgreSQL aborts one of two transactions that wait for each other.     *)
DeadlockAbort(p) ==
  /\ \E q \in Reqs : \/ WaitsForUser(p) /\ WaitsForTenant(q)
                     \/ WaitsForTenant(p) /\ WaitsForUser(q)
  /\ Release(p)
  /\ Done(p)
  /\ UNCHANGED <<dbVars, webVars, countVars, now, ops>>

(* Another failure of a transaction; a lost password attempt is not one    *)
(* that was refused.                                                       *)
Fail(p) ==
  /\ req[p].op \in {"password", "google", "passwordTx", "googleTx", "setRoles", "setStatus",
                    "force", "forceTx"}
  /\ Release(p)
  /\ Done(p)
  /\ UNCHANGED <<dbVars, webVars, countVars, now, ops>>

-----------------------------------------------------------------------------
(* The browser: one tab, whose requests carry the token in memory.         *)

Booting == \E p \in Reqs : req[p].op = "restore"

Call(p) ==
  /\ req[p] = Ready
  /\ tab # None
  /\ Set(p, [op |-> "call", token |-> tab, web |-> TRUE])
  /\ UNCHANGED <<dbVars, webVars, lockVars, countVars, now, ops>>

(* SessionProvider.signOut: send the logout with the token at hand, then   *)
(* forget it.                                                              *)
signOut(p) ==
  /\ Set(p, IF tab = None THEN Ready ELSE [op |-> "logout", token |-> tab, web |-> TRUE])
  /\ tab' = None
  /\ stored' = None

UserSignsOut(p) ==
  /\ req[p] = Ready
  /\ tab # None
  /\ signOut(p)
  /\ UNCHANGED <<dbVars, lockVars, countVars, now, ops>>

(* Mutant: the interceptor takes every error for a dead session.           *)
CallAnsweredAnyError(p) ==
  /\ req[p].op = "call"
  /\ IF req[p].web THEN signOut(p) ELSE Done(p) /\ UNCHANGED webVars
  /\ UNCHANGED <<dbVars, lockVars, countVars, now, ops>>

(* The answer to a call: a 401 signs the tab out, whatever it holds now.   *)
CallAnswered(p) ==
  /\ req[p].op = "call"
  /\ IF req[p].web /\ ~ canActivate(req[p].token) THEN signOut(p)
     ELSE Done(p) /\ UNCHANGED webVars
  /\ UNCHANGED <<dbVars, lockVars, countVars, now, ops>>

(* AuthService.logout behind the guard; its own 401 is intercepted too.    *)
LogoutAnswered(p) ==
  /\ req[p].op = "logout"
  /\ IF canActivate(req[p].token)
     THEN session' = revoke({req[p].token.sid}) /\ Done(p) /\ UNCHANGED webVars
     ELSE /\ UNCHANGED session
          /\ IF req[p].web THEN signOut(p) ELSE Done(p) /\ UNCHANGED webVars
  /\ UNCHANGED <<user, changes, born, lockVars, countVars, now, ops>>

(* A call or a logout is lost on the network: mutations are not retried.   *)
CallLost(p) ==
  /\ req[p].op \in {"call", "logout"}
  /\ Done(p)
  /\ UNCHANGED <<dbVars, webVars, lockVars, countVars, now, ops>>

(* A page reload empties the memory; answers to the old page go nowhere.   *)
(* restoreSession then runs before the app renders.                        *)
Reload(p) ==
  /\ req[p] = Ready
  /\ stored # None
  /\ tab' = None
  /\ req' = [q \in Reqs |->
       IF q = p THEN [op |-> "restore", sid |-> stored]
       ELSE IF "web" \in DOMAIN req[q] THEN [req[q] EXCEPT !.web = FALSE] ELSE req[q]]
  /\ UNCHANGED <<dbVars, stored, lockVars, countVars, now, ops>>

(* refresh: the session must be live; a failure of any kind clears the     *)
(* tokens.                                                                 *)
Restored(p) ==
  /\ req[p].op = "restore"
  /\ \/ /\ liveSession(req[p].sid)
        /\ tab' = [sid |-> req[p].sid, exp |-> now + JWT_ACCESS_TTL]
        /\ stored' = req[p].sid
     \/ tab' = None /\ stored' = None
  /\ Done(p)
  /\ UNCHANGED <<dbVars, lockVars, countVars, now, ops>>

Tick ==
  /\ now < MaxTime
  /\ now' = now + 1
  /\ UNCHANGED <<dbVars, webVars, lockVars, countVars, req, ops>>

-----------------------------------------------------------------------------
(* What the server does with an open request.                              *)
ServerStep(p) ==
  \/ PasswordBad(p) \/ SignInUpdate(p) \/ SignInRefused(p) \/ issueSession(p)
  \/ setRoles(p) \/ setStatus(p) \/ ForceBump(p) \/ ForceCommit(p)
  \/ DeadlockAbort(p)

Answer(p) == CallAnswered(p) \/ LogoutAnswered(p) \/ CallLost(p) \/ Restored(p)

SessionNext ==
  \/ \E p \in Reqs :
       \/ ServerStep(p) \/ Answer(p) \/ Fail(p)
       \/ GoogleRead(p)
       \/ SeatCheck(p, [op |-> "setRoles"])
       \/ \E to \in {"ACTIVE", "DISABLED"} : SeatCheck(p, [op |-> "setStatus", to |-> to])
       \/ ForceRevoke(p)
       \/ ~ Booting /\ \/ \E web \in BOOLEAN : PasswordRead(p, web)
                       \/ Call(p) \/ UserSignsOut(p) \/ Reload(p)
  \/ Tick

(* A request that can go on does: the handlers of an open transaction run, *)
(* PostgreSQL breaks deadlocks, and answers arrive or the browser gives up.*)
SessionSpec ==
  /\ SessionInit /\ [][SessionNext]_sessionVars
  /\ \A p \in Reqs : WF_sessionVars(ServerStep(p) \/ Answer(p))

-----------------------------------------------------------------------------
(* A session the guard accepts was signed in after the last permission     *)
(* change and the last forced logout: also one whose sign-in was under way *)
(* when they committed (completeSignIn with the version read earlier).     *)
AcceptedIsFresh ==
  \A s \in DOMAIN session : liveSession(s) => born[s] = changes

(* Unless password sign-ins overlapped, failed_login_count is the number   *)
(* of bad passwords since the last password sign-in and an account that    *)
(* reached the threshold is locked from its last one on (loginInTenant).   *)
LockoutExact ==
  overlap \/ /\ user.failed = strikes
             /\ shouldLock(strikes) => user.lockedUntil = lastBad + LOCKOUT_MINUTES

(* A tab loses a session that the server would still accept only when the  *)
(* user signs out, or on a 401 for an older token (the interceptor of      *)
(* apps/web/src/api/client.ts and signOut), or while it restores.          *)
TabKeepsLiveSession ==
  [][tab # None /\ stored' = None /\ canActivate(tab) =>
       \/ \E p \in Reqs : req[p] = Ready /\ req'[p] # Ready
       \/ \E p \in Reqs : /\ req[p].op \in {"call", "logout"}
                          /\ req'[p] # req[p] /\ req[p].token # tab]_sessionVars

(* Every request ends, although a sign-in or a forced logout locks the     *)
(* user and then the tenant row while setRoles and setStatus lock them in  *)
(* the opposite order.                                                     *)
RequestsSettle == \A p \in Reqs : req[p] # Ready ~> req[p] = Ready
=============================================================================
