--------------------------- MODULE AccountSession ---------------------------
(***************************************************************************)
(* Sessions of one account: SessionUseCase (internal/application/auth/     *)
(* session.go), the code senders of account.go, UpdateProfile of           *)
(* internal/application/profile, the auth middleware and the Redis token   *)
(* store, run by concurrent API calls.                                     *)
(*                                                                         *)
(* A use case reads the user's row and, some steps later, either updates   *)
(* single columns or saves EVERY column of the row it read (GORM's Save).  *)
(* An access and a refresh token are issued together and carry one         *)
(* token_version: a pair, named by the call that issued it.  Expired       *)
(* tokens are left out: a denylist entry lives as long as its token.       *)
(***************************************************************************)
EXTENDS OneTimePassword

CONSTANTS
    Earlier,       \* the pair, or the reset token, issued before
    Passwords, Erased,    \* password hashes; the empty one of an erased account
    MaxFailures,   \* loginMaxAttempts
    MaxStale,      \* bound: saves that overwrite a concurrent change
    MaxFaults      \* bound: Redis or database errors that the code forgives

ASSUME SessionAssumption ==
    /\ Earlier \notin Calls
    /\ Erased \notin Passwords
    /\ MaxFailures \in Nat \ {0} /\ MaxStale \in Nat /\ MaxFaults \in Nat

VARIABLES
    user,      \* the row of users
    op, pc,    \* op[c], pc[c]: the operation of call c and its next step
    read,      \* read[c]: the row as c read it
    token,     \* token[c]: the refresh or reset token c was given
    secret,    \* secret[c]: the new password c was given
    issued,    \* the pairs issued so far
    version,   \* version[p]: the token_version in pair p
    denied,    \* the denylist of refresh tokens
    resets,    \* the reset tokens whose jti is in Redis
    stale,     \* how many saves overwrote a concurrent change
    faults,
    basis,     \* history: basis[p] = the password pair p goes back to
    revoked    \* history: the pairs that a revocation has hit

rowVars == <<user, stale, revoked>>
callVars == <<op, pc, read, token, secret>>
pairVars == <<issued, version, basis>>
storeVars == <<denied, resets>>
vars == <<otpVars, rowVars, callVars, pairVars, storeVars, faults>>

Pairs == Calls \union {Earlier}

User == [password : Passwords \union {Erased}, version : Nat, verified : BOOLEAN,
         failed : Nat, locked : BOOLEAN, erased : BOOLEAN]

Operations == {"none", "login", "verify_email", "refresh", "logout", "logout_all",
               "resend_otp", "forgot_password", "verify_reset", "reset", "change", "profile"}
Step == {"idle", "lookup", "failure", "clear", "otp", "save", "issue", "deny", "bump",
         "grant", "send", "done"}

SessionTypeOK ==
    /\ CodeTypeOK
    /\ user \in User
    /\ op \in [Calls -> Operations] /\ pc \in [Calls -> Step]
    /\ read \in [Calls -> User]
    /\ token \in [Calls -> Pairs]
    /\ secret \in [Calls -> Passwords]
    /\ issued \subseteq Pairs /\ version \in [Pairs -> Nat]
    /\ denied \subseteq Pairs /\ resets \subseteq Pairs
    /\ stale \in 0 .. MaxStale /\ faults \in 0 .. MaxFaults
    /\ basis \in [Pairs -> Passwords \union {Erased}]
    /\ revoked \subseteq issued

Registered(pw, verified) ==
    [password |-> pw, version |-> 0, verified |-> verified, failed |-> 0,
     locked |-> FALSE, erased |-> FALSE]

\* A new account with its verification code, or a verified one with a session;
\* a password reset may have got as far as its reset token.
Init ==
    /\ \E pw \in Passwords, verified \in BOOLEAN :
          /\ user = Registered(pw, verified)
          /\ codes = IF verified THEN <<>> ELSE <<NewCode("email_verification")>>
          /\ issued = IF verified THEN {Earlier} ELSE {}
          /\ read = [c \in Calls |-> Registered(pw, verified)]
          /\ secret = [c \in Calls |-> pw]
          /\ basis = [p \in Pairs |-> pw]
    /\ resets \in {{}, {Earlier}}
    /\ otp = [c \in Calls |-> "idle"] /\ found = [c \in Calls |-> 0]
    /\ op = [c \in Calls |-> "none"] /\ pc = [c \in Calls |-> "idle"]
    /\ token = [c \in Calls |-> Earlier]
    /\ version = [p \in Pairs |-> 0]
    /\ denied = {}
    /\ stale = 0 /\ faults = 0
    /\ revoked = {}

Goto(c, step) == pc' = [pc EXCEPT ![c] = step]
Begin(c, o, step) ==
    pc[c] = "idle" /\ op' = [op EXCEPT ![c] = o] /\ Goto(c, step)
Present(c, t) == token' = [token EXCEPT ![c] = t]
Read(c) == read' = [read EXCEPT ![c] = user]
Fault == faults < MaxFaults /\ faults' = faults + 1

\* authenticate of the middleware: the row exists and has the token's version.
Accepted(p) == p \in issued /\ ~user.erased /\ version[p] = user.version

-----------------------------------------------------------------------------
\* How the operations begin

\* Login, up to the comparison of the password with the row it read.
Login(c) ==
    /\ \E pw \in Passwords :
          LET step == CASE user.erased \/ user.locked \/ ~user.verified -> "done"
                        [] pw # user.password -> "failure"
                        [] user.failed > 0 -> "clear"
                        [] OTHER -> "issue"
          IN  Begin(c, "login", step)
    /\ Read(c)
    /\ UNCHANGED <<otpVars, rowVars, token, secret, pairVars, storeVars, faults>>

\* The calls that start from an e-mail address.
BeginByEmail(c) ==
    /\ \E o \in {"verify_email", "verify_reset", "resend_otp", "forgot_password"} :
          Begin(c, o, "lookup")
    /\ UNCHANGED <<otpVars, rowVars, read, token, secret, pairVars, storeVars, faults>>

\* The calls behind RequireAuth; a logout presents any refresh token of the user.
BeginAuthorized(c) ==
    /\ \E p \in Pairs : Accepted(p)
    /\ \/ \E o \in {"profile", "change"} : Begin(c, o, "lookup") /\ UNCHANGED token
       \/ Begin(c, "logout_all", "bump") /\ UNCHANGED token
       \/ \E t \in issued : Begin(c, "logout", "deny") /\ Present(c, t)
    /\ UNCHANGED <<otpVars, rowVars, read, secret, pairVars, storeVars, faults>>

\* RefreshToken: a Redis error lets a denied token through.
BeginRefresh(c) ==
    /\ \E t \in issued :
          /\ Present(c, t)
          /\ \/ /\ Begin(c, "refresh", IF t \in denied THEN "done" ELSE "lookup")
                /\ UNCHANGED faults
             \/ Begin(c, "refresh", "lookup") /\ Fault
    /\ UNCHANGED <<otpVars, rowVars, read, secret, pairVars, storeVars>>

\* Mutant: the jti stays in Redis until the password has changed.
BeginResetKeepsToken(c) ==
    /\ \E t \in resets :
          /\ Present(c, t)
          /\ Begin(c, "reset", "lookup")
    /\ UNCHANGED <<otpVars, rowVars, read, secret, pairVars, storeVars, faults>>

\* ResetPassword, up to ConsumeResetJTI (GETDEL).
BeginReset(c) ==
    /\ \E t \in Pairs :
          /\ Present(c, t)
          /\ Begin(c, "reset", IF t \in resets THEN "lookup" ELSE "done")
          /\ resets' = resets \ {t}
    /\ UNCHANGED <<otpVars, rowVars, read, secret, pairVars, denied, faults>>

-----------------------------------------------------------------------------
\* FindByID or FindByEmail, and what is decided on the row

\* Mutant: a refresh does not compare the versions.
LookupSkipsVersion(c) ==
    /\ pc[c] = "lookup"
    /\ Read(c)
    /\ Goto(c, IF user.erased THEN "done" ELSE IF op[c] = "refresh" THEN "issue" ELSE "save")
    /\ UNCHANGED <<otpVars, rowVars, op, token, secret, pairVars, storeVars, faults>>

Lookup(c) ==
    /\ pc[c] = "lookup"
    /\ Read(c)
    /\ \/ user.erased /\ Goto(c, "done") /\ UNCHANGED secret
       \/ /\ ~user.erased
          /\ \/ /\ op[c] \in {"verify_email", "verify_reset"}
                /\ Goto(c, "otp") /\ UNCHANGED secret
             \/ /\ op[c] \in {"resend_otp", "forgot_password"}
                /\ Goto(c, "send") /\ UNCHANGED secret
             \/ /\ op[c] = "refresh"
                /\ Goto(c, IF version[token[c]] = user.version THEN "issue" ELSE "done")
                /\ UNCHANGED secret
             \/ op[c] = "profile" /\ Goto(c, "save") /\ UNCHANGED secret
             \/ /\ op[c] \in {"reset", "change"}
                /\ Goto(c, "save")
                /\ \E pw \in Passwords : secret' = [secret EXCEPT ![c] = pw]
             \* the old password does not match
             \/ op[c] = "change" /\ Goto(c, "done") /\ UNCHANGED secret
    /\ UNCHANGED <<otpVars, rowVars, op, token, pairVars, storeVars, faults>>

-----------------------------------------------------------------------------
\* Login attempts

\* UpdateLoginAttempt with the count that was read plus one; an error is
\* forgiven, and an erased row is not matched.
FailedAttempt(c) ==
    LET count == read[c].failed + 1
    IN  /\ pc[c] = "failure"
        /\ Goto(c, "done")
        /\ \/ /\ user' = IF user.erased THEN user
                         ELSE [user EXCEPT !.failed = count, !.locked = count >= MaxFailures]
              /\ UNCHANGED faults
           \/ Fault /\ UNCHANGED user
        /\ UNCHANGED <<otpVars, stale, revoked, op, read, token, secret, pairVars, storeVars>>

ClearAttempts(c) ==
    /\ pc[c] = "clear"
    /\ Goto(c, "issue")
    /\ \/ /\ user' = IF user.erased THEN user
                     ELSE [user EXCEPT !.failed = 0, !.locked = FALSE]
          /\ UNCHANGED faults
       \/ Fault /\ UNCHANGED user
    /\ UNCHANGED <<otpVars, stale, revoked, op, read, token, secret, pairVars, storeVars>>

-----------------------------------------------------------------------------
\* Codes

OtpScope(c) ==
    IF op[c] \in {"verify_email", "resend_otp"} THEN "email_verification" ELSE "password_reset"

CheckCode(c) ==
    /\ pc[c] = "otp"
    /\ \/ /\ FindCode(c, OtpScope(c))
          /\ IF otp'[c] = "refused" THEN Goto(c, "done") ELSE UNCHANGED pc
       \/ CountWrongAttempt(c) /\ Goto(c, "done")
       \/ MarkUsed(c) /\ Goto(c, IF op[c] = "verify_email" THEN "save" ELSE "grant")
    /\ UNCHANGED <<rowVars, op, read, token, secret, pairVars, storeVars, faults>>

\* StoreResetJTI
GrantReset(c) ==
    /\ pc[c] = "grant"
    /\ resets' = resets \union {c}
    /\ Goto(c, "done")
    /\ UNCHANGED <<otpVars, rowVars, op, read, token, secret, pairVars, denied, faults>>

SendCode(c) ==
    /\ pc[c] = "send"
    /\ \/ ExpireAllActive(c, OtpScope(c)) /\ UNCHANGED pc
       \/ CreateCode(c, OtpScope(c)) /\ Goto(c, "done")
    /\ UNCHANGED <<rowVars, op, read, token, secret, pairVars, storeVars, faults>>

-----------------------------------------------------------------------------
\* Writes of the whole row

\* What the other fields of a save can undo: the password, the version, the
\* erasure.  (Counters of failed logins are overwritten too, and not counted.)
Credentials(u) == <<u.password, u.version, u.erased>>

\* Mutant: a new password leaves the version as it is.
SavedSameVersion(c) ==
    CASE op[c] = "verify_email" -> [read[c] EXCEPT !.verified = TRUE]
      [] op[c] \in {"change", "reset"} -> [read[c] EXCEPT !.password = secret[c]]
      [] OTHER -> read[c]

\* The row as the operation writes it.  A reset or a change of the password
\* increments token_version in the same transaction; a reset also clears the
\* lockout.
Saved(c) ==
    CASE op[c] = "verify_email" -> [read[c] EXCEPT !.verified = TRUE]
      [] op[c] = "change" -> [read[c] EXCEPT !.password = secret[c], !.version = @ + 1]
      [] op[c] = "reset" -> [read[c] EXCEPT !.password = secret[c], !.version = @ + 1,
                                            !.failed = 0, !.locked = FALSE]
      [] OTHER -> read[c]

\* UserRepository.Update.  GORM's Save inserts over the row it cannot update:
\* a row erased meanwhile comes back.
Save(c) ==
    /\ pc[c] = "save"
    /\ user' = Saved(c)
    /\ IF Credentials(user) = Credentials(read[c])
       THEN UNCHANGED stale
       ELSE stale < MaxStale /\ stale' = stale + 1
    /\ revoked' = IF op[c] \in {"reset", "change"} THEN issued ELSE revoked
    /\ Goto(c, IF op[c] = "profile" THEN "done" ELSE "issue")
    /\ UNCHANGED <<otpVars, op, read, token, secret, pairVars, storeVars, faults>>

\* LogoutAll: one UPDATE, which does not match an erased row.
BumpVersion(c) ==
    /\ pc[c] = "bump"
    /\ user' = IF user.erased THEN user ELSE [user EXCEPT !.version = @ + 1]
    /\ revoked' = issued
    /\ Goto(c, "done")
    /\ UNCHANGED <<otpVars, stale, op, read, token, secret, pairVars, storeVars, faults>>

-----------------------------------------------------------------------------
\* Tokens

NewPassword(c) == op[c] \in {"reset", "change"}

\* IssueTokenPair for the version that was read, plus one after a new password.
\* History: a refreshed pair goes back to the password of the pair it replaces,
\* and shares its fate.
Issue(c) ==
    /\ pc[c] = "issue"
    /\ issued' = issued \union {c}
    /\ version' = [version EXCEPT ![c] = read[c].version + IF NewPassword(c) THEN 1 ELSE 0]
    /\ basis' = [basis EXCEPT ![c] =
                    CASE NewPassword(c) -> secret[c]
                      [] op[c] = "refresh" -> basis[token[c]]
                      [] OTHER -> read[c].password]
    /\ revoked' = IF op[c] = "refresh" /\ token[c] \in revoked
                  THEN revoked \union {c} ELSE revoked
    /\ Goto(c, IF op[c] = "refresh" THEN "deny" ELSE "done")
    /\ UNCHANGED <<otpVars, user, stale, op, read, token, secret, storeVars, faults>>

\* Mutant: the old refresh token stays valid.
DenyNothing(c) ==
    /\ pc[c] = "deny"
    /\ Goto(c, "done")
    /\ UNCHANGED <<otpVars, rowVars, op, read, token, secret, pairVars, storeVars, faults>>

\* DenylistRefreshJTI after a refresh, or as a logout; an error is forgiven.
Deny(c) ==
    /\ pc[c] = "deny"
    /\ Goto(c, "done")
    /\ \/ denied' = denied \union {token[c]} /\ UNCHANGED faults
       \/ Fault /\ UNCHANGED denied
    /\ UNCHANGED <<otpVars, rowVars, op, read, token, secret, pairVars, resets>>

-----------------------------------------------------------------------------
\* The environment

\* The 15 minutes of a lockout are over, in the row and in every copy of it.
Unlock ==
    /\ user.locked
    /\ user' = [user EXCEPT !.locked = FALSE]
    /\ read' = [c \in Calls |-> [read[c] EXCEPT !.locked = FALSE]]
    /\ UNCHANGED <<otpVars, stale, revoked, op, pc, token, secret, pairVars, storeVars, faults>>

\* UserRepository.Anonymize, by a job of DeletionLifecycle.
Anonymize ==
    /\ ~user.erased
    /\ user' = [user EXCEPT !.password = Erased, !.version = @ + 1, !.erased = TRUE]
    /\ revoked' = issued
    /\ UNCHANGED <<otpVars, stale, callVars, pairVars, storeVars, faults>>

-----------------------------------------------------------------------------
Arrive(c) ==
    Login(c) \/ BeginByEmail(c) \/ BeginAuthorized(c) \/ BeginRefresh(c) \/ BeginReset(c)

Proceed(c) ==
    \/ Lookup(c) \/ FailedAttempt(c) \/ ClearAttempts(c) \/ CheckCode(c) \/ GrantReset(c)
    \/ SendCode(c) \/ Save(c) \/ BumpVersion(c) \/ Issue(c) \/ Deny(c)

Next == (\E c \in Calls : Arrive(c) \/ Proceed(c)) \/ Unlock \/ Anonymize

Spec == Init /\ [][Next]_vars

-----------------------------------------------------------------------------
\* Properties

\* Unless a save overwrote a concurrent change, no pair issued before a
\* logout-all, a new password or an erasure is accepted again, nor one that was
\* refreshed from such a pair, whatever logins and refreshes were under way.
RevocationHolds == stale = 0 => \A p \in revoked : ~Accepted(p)

\* What the API promises of logout-all, without that condition: the session that
\* was there before is not accepted again.
LogoutAllIsFinal ==
    \A c \in Calls : op[c] = "logout_all" /\ pc[c] = "done" => ~Accepted(Earlier)

\* Unless a save overwrote a concurrent change, every accepted session goes
\* back to the password in force: none survives the password it began with,
\* not even when it is refreshed.
SessionsFollowPassword ==
    stale = 0 => \A p \in issued : Accepted(p) => basis[p] = user.password

\* Two calls never change the password with one reset token, even when a save
\* overwrites the other's (ConsumeResetJTI is atomic).
Consumed(c) == op[c] = "reset" /\ (pc[c] \in {"lookup", "save", "issue"} \/ c \in issued)

ResetTokenSingleUse ==
    \A b, c \in Calls : Consumed(b) /\ Consumed(c) /\ token[b] = token[c] => b = c

\* A refresh token that a finished refresh or logout has withdrawn is not
\* exchanged again, as long as Redis did not fail.
Withdrawn(t) ==
    \E b \in Calls :
        /\ pc[b] = "done" /\ token[b] = t
        /\ op[b] = "logout" \/ (op[b] = "refresh" /\ b \in issued)

RotatedTokenRejected ==
    [][\A c \in Calls :
          BeginRefresh(c) /\ Withdrawn(token'[c]) /\ faults' = 0 => pc'[c] = "done"]_vars

\* A code that was accepted, or guessed wrong as often as allowed, by calls that
\* have finished with it is not accepted any more.
WrongGuesses(n) == {b \in Calls : otp[b] = "failed" /\ found[b] = n}

SpentCodeRejected ==
    [][\A c \in Calls :
          otp[c] = "idle" /\ otp'[c] = "matched" =>
              /\ Cardinality(WrongGuesses(found'[c])) < MaxWrong
              /\ \A b \in Calls : otp[b] = "accepted" => found[b] # found'[c]]_vars

-----------------------------------------------------------------------------
\* The abstract registry of sessions this module implements.
Registry == INSTANCE SessionRegistry
    WITH Sessions <- Pairs, Passwords <- Passwords \union {Erased},
         accepted <- {p \in issued : Accepted(p)}, opened <- issued,
         password <- user.password, overwritten <- (stale > 0)

\* A session lives from its issue to the next logout-all, new password or
\* erasure, which ends all of them, and the password never changes under one.
ImplementsRegistry == Registry!Spec
=============================================================================
