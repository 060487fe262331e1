------------------------------ MODULE Accounts ------------------------------
(***************************************************************************)
(* User rows of the production platform (production/service.py): login     *)
(* with lockout, the persisted token version, and the administrative calls *)
(* that change it.  A call is split where the code leaves a transaction:   *)
(* login() reads the row and the clock, spends its Argon2 time, and        *)
(* settles in a second transaction on the row as it is then; update_user,  *)
(* change_password and revoke_tokens read the token version in one         *)
(* transaction and write the number after it in another.                   *)
(*                                                                         *)
(* Passwords stand for their hashes.  A token is its claims: nobody makes  *)
(* one without the signing key, so what verify() checks of the signature   *)
(* and the issuer holds.  Security events and audit records are left out.  *)
(* Bounds: the number of administrative calls (Ops), MaxTime for the clock.*)
(***************************************************************************)
EXTENDS Integers, FiniteSets

CONSTANTS Users, Passwords, Roles,
          Logins,     \* clients calling login(), one call after another
          Ops,        \* administrative calls
          None,
          Threshold,  \* login_lockout_threshold
          LockTime,   \* login_lockout_seconds
          TTL,        \* token_ttl_seconds
          MaxTime     \* bound on the clock

ASSUME AccountsAssumption ==
  /\ Threshold \in Nat \ {0}
  /\ LockTime \in Nat \ {0}
  /\ TTL \in Nat
  /\ MaxTime \in Nat \ {0}
  /\ None \notin Users \cup Passwords \cup Roles

VARIABLES
  now,
  user,     \* the platform_users row, or NoUser once deleted
  lpc,      \* where each login is
  login,    \* what it was called with and read
  tokens,   \* issued tokens: the claims verify and validate_principal look at
  opc, op,  \* administrative calls: where they are, request and version read
  strikes,  \* auxiliary: failures recorded since the last success or lapsed lock
  clean     \* auxiliary: no write has yet overwritten a version it had not read

userVars == <<user, strikes>>
loginVars == <<lpc, login, tokens>>
opVars == <<opc, op, clean>>
accountsVars == <<now, userVars, loginVars, opVars>>

NoUser == [active |-> FALSE, role |-> None, hash |-> None, version |-> 0,
           failures |-> 0, lockedUntil |-> 0]   \* lockedUntil NULL is 0
NoLogin == [user |-> None, hash |-> None, failures |-> 0, now |-> 0, version |-> 0, role |-> None]

\* current_locked_until > t
LockedAt(r, t) == r.lockedUntil > t

\* What update_user, change_password and revoke_tokens may be asked to do.
Requests == [kind : {"role"}, to : Roles] \cup [kind : {"password"}, to : Passwords]
              \cup [kind : {"deactivate", "reactivate", "revoke"}, to : {None}]
NoOp == [user |-> None, kind |-> "none", to |-> None, base |-> 0]

\* PasswordService.verify; a missing row is compared with a hash no password has.
Verifies(hash, password) == hash # None /\ hash = password

\* TokenService.issue: the claims of a row as it was returned.
Claims(u, version, role, password) ==
  [user |-> u, version |-> version, role |-> role, exp |-> now + TTL, password |-> password]

\* TokenService.verify: only the expiry can fail for a token that was issued.
Unexpired(t) == t.exp > now

\* validate_principal: the row still agrees with the token's claims.
ClaimsCurrent(t) == /\ user[t.user].active
                    /\ user[t.user].version = t.version
                    /\ user[t.user].role = t.role

\* principal_from_token
Valid(t) == Unexpired(t) /\ ClaimsCurrent(t)
-----------------------------------------------------------------------------
AccountsInit ==
  /\ now = 1
  /\ user \in [Users -> {[active |-> TRUE, role |-> r, hash |-> p, version |-> 1,
                          failures |-> 0, lockedUntil |-> 0] : r \in Roles, p \in Passwords}]
  /\ lpc = [l \in Logins |-> "new"]
  /\ login = [l \in Logins |-> NoLogin]
  /\ tokens = {}
  /\ opc = [o \in Ops |-> "new"]
  /\ op = [o \in Ops |-> NoOp]
  /\ strikes = [u \in Users |-> 0]
  /\ clean = TRUE

\* The call returns a token or raises; the client may call again.
Return(l) == /\ lpc' = [lpc EXCEPT ![l] = "new"]
             /\ login' = [login EXCEPT ![l] = NoLogin]

\* login() reads the row and the clock; Argon2 compares with the hash it read.
ReadUser(l) ==
  /\ lpc[l] = "new"
  /\ \E u \in Users, p \in Passwords :
       LET r == user[u]
           valid == r.active /\ ~LockedAt(r, now) /\ Verifies(r.hash, p)
       IN /\ r # NoUser      \* an unknown account is refused at once
          /\ login' = [login EXCEPT ![l] =
               IF valid THEN [NoLogin EXCEPT !.user = u, !.hash = r.hash]
               ELSE [NoLogin EXCEPT !.user = u, !.failures = r.failures, !.now = now]]
          /\ lpc' = [lpc EXCEPT ![l] = IF valid THEN "correct" ELSE "failed"]
  /\ UNCHANGED <<now, userVars, tokens, opVars>>

\* The row a failed attempt leaves, from the current row r and the clock reading
\* t taken before Argon2.  (Mutant: the count of the first read is used.)
FailedOnFirstRead(r, t, first) ==
  LET n == first + 1
  IN [r EXCEPT !.failures = IF n >= Threshold THEN Threshold ELSE n,
               !.lockedUntil = IF n >= Threshold THEN t + LockTime ELSE @]
AfterFailure(r, t, first) ==
  IF LockedAt(r, t)
  THEN [r EXCEPT !.failures = IF @ < Threshold THEN Threshold ELSE @]
  ELSE LET n == (IF r.lockedUntil # 0 THEN 0 ELSE r.failures) + 1
       IN [r EXCEPT !.failures = IF n >= Threshold THEN Threshold ELSE n,
                    !.lockedUntil = IF n >= Threshold THEN t + LockTime ELSE 0]

\* The failure transaction, under the row lock; a deleted row makes one() raise.
RecordFailure(l) ==
  LET u == login[l].user
      r == user[u]
      t == login[l].now
  IN
  /\ lpc[l] = "failed"
  /\ Return(l)
  /\ IF r = NoUser THEN UNCHANGED userVars
     ELSE /\ user' = [user EXCEPT ![u] = AfterFailure(r, t, login[l].failures)]
          /\ strikes' = [strikes EXCEPT ![u] =
               IF ~LockedAt(r, t) /\ r.lockedUntil # 0 THEN 1
               ELSE IF @ < Threshold THEN @ + 1 ELSE @]
  /\ UNCHANGED <<now, tokens, opVars>>

\* The row still warrants the success decided before Argon2.  (Mutants: the lock,
\* the password is not looked at again.)
RevalidatedUnlocked(r, first) == r.active /\ r.hash = first
RevalidatedAnyHash(r, first) == r.active /\ ~LockedAt(r, now)
Revalidated(r, first) == r.active /\ ~LockedAt(r, now) /\ r.hash = first

\* The success transaction, under the same row lock: revalidate, then clear.
Settle(l) ==
  LET u == login[l].user
      r == user[u]
  IN
  /\ lpc[l] = "correct"
  /\ \/ /\ Revalidated(r, login[l].hash)
        /\ user' = [user EXCEPT ![u].failures = 0, ![u].lockedUntil = 0]
        /\ strikes' = [strikes EXCEPT ![u] = 0]
        /\ login' = [login EXCEPT ![l].version = r.version, ![l].role = r.role]
        /\ lpc' = [lpc EXCEPT ![l] = "issuing"]
     \/ /\ ~Revalidated(r, login[l].hash)
        /\ Return(l)
        /\ UNCHANGED userVars
  /\ UNCHANGED <<now, tokens, opVars>>

\* The token is signed after the transaction, from the row it returned.
Issue(l) ==
  /\ lpc[l] = "issuing"
  /\ Return(l)
  /\ tokens' = tokens \cup {Claims(login[l].user, login[l].version, login[l].role, login[l].hash)}
  /\ UNCHANGED <<now, userVars, opVars>>
-----------------------------------------------------------------------------
\* An administrative call fetches the row (a missing one raises).
ReadOp(o) ==
  /\ opc[o] = "new"
  /\ \E u \in Users, q \in Requests :
       /\ user[u] # NoUser
       /\ op' = [op EXCEPT ![o] = [user |-> u, kind |-> q.kind, to |-> q.to, base |-> user[u].version]]
  /\ opc' = [opc EXCEPT ![o] = "read"]
  /\ UNCHANGED <<now, userVars, loginVars, clean>>

\* Every request but reactivation writes a new token version.  (Mutant: a
\* deactivation does not.)
RevokesNotDeactivated(kind) == kind \notin {"reactivate", "deactivate"}
Revokes(kind) == kind # "reactivate"

\* The UPDATE: the version written is the one read plus one.
Applied(r, q) ==
  [r EXCEPT !.role = IF q.kind = "role" THEN q.to ELSE @,
            !.hash = IF q.kind = "password" THEN q.to ELSE @,
            !.active = IF q.kind = "deactivate" THEN FALSE
                       ELSE IF q.kind = "reactivate" THEN TRUE ELSE @,
            !.version = IF Revokes(q.kind) THEN q.base + 1 ELSE @]

WriteOp(o) ==
  LET q == op[o] IN
  /\ opc[o] = "read"
  /\ opc' = [opc EXCEPT ![o] = "done"]
  /\ op' = [op EXCEPT ![o] = NoOp]
  /\ IF user[q.user] = NoUser THEN UNCHANGED <<user, clean>>
     ELSE /\ user' = [user EXCEPT ![q.user] = Applied(@, q)]
          /\ clean' = (clean /\ (Revokes(q.kind) => user[q.user].version = q.base))
  /\ UNCHANGED <<now, strikes, loginVars>>

\* delete_user
DeleteUser(u) ==
  /\ user[u] # NoUser
  /\ user' = [user EXCEPT ![u] = NoUser]
  /\ UNCHANGED <<now, strikes, loginVars, opVars>>

Tick == now < MaxTime /\ now' = now + 1 /\ UNCHANGED <<userVars, loginVars, opVars>>

AccountsNext ==
  \/ \E l \in Logins : ReadUser(l) \/ RecordFailure(l) \/ Settle(l) \/ Issue(l)
  \/ \E o \in Ops : ReadOp(o) \/ WriteOp(o)
  \/ \E u \in Users : DeleteUser(u)
  \/ Tick

AccountsSpec == AccountsInit /\ [][AccountsNext]_accountsVars
-----------------------------------------------------------------------------
\* While an account is locked no login, right or wrong, however old the row it read,
\* clears or moves the lock (docs/PHASE6_2_RELIABILITY_HARDENING.md:9).
LiveLockKept ==
  [][\A u \in Users : LockedAt(user[u], now) /\ user'[u] # NoUser =>
        user'[u].lockedUntil = user[u].lockedUntil /\ user'[u].failures = user[u].failures]_accountsVars

\* Concurrent wrong guesses lose no increment: once Threshold failures are on record
\* since the last success or lapsed lock, the account carries a lock.
ThresholdLocks == \A u \in Users :
  user[u] # NoUser /\ strikes[u] >= Threshold => user[u].lockedUntil # 0

\* As long as no two administrative calls overlapped on a user, a call that revokes
\* leaves no token of that user acceptable, and none becomes acceptable again by
\* reactivation or by a role given back.
RevokedNow(u) == \E o \in Ops : /\ opc[o] = "read" /\ opc'[o] = "done"
                                /\ op[o].user = u /\ op[o].kind # "reactivate"

RevocationEffective ==
  [][clean' => \A t \in tokens : ~Valid(t) \/ RevokedNow(t.user) => ~Valid(t)']_accountsVars

\* A token that is accepted was obtained with the password that is still the user's:
\* a login that raced a password change gets nothing usable.
TokensOfCurrentPassword ==
  clean => \A t \in tokens : Valid(t) => t.password = user[t.user].hash
=============================================================================
