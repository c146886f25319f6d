----------------------- MODULE AccountSession_proofs -----------------------
(***************************************************************************)
(* Proofs about AccountSession and its codes, for any number of concurrent *)
(* calls, passwords, attempts and faults.                                  *)
(*                                                                         *)
(* Path says which steps an operation passes through; SingleUse where the  *)
(* reset tokens are; Versions, that nothing a call has read or issued is   *)
(* ahead of the user's row; Counted relates the rows of the codes to the   *)
(* calls that have finished with them.                                     *)
(***************************************************************************)
EXTENDS AccountSession, FiniteSetTheorems, SequenceTheorems, TLAPS

\* The steps an operation can be at; a pair is issued only once.
Path ==
    \A c \in Calls :
        /\ op[c] = "none" <=> pc[c] = "idle"
        /\ op[c] = "login" => pc[c] \in {"failure", "clear", "issue", "done"}
        /\ op[c] = "verify_email" => pc[c] \in {"lookup", "otp", "save", "issue", "done"}
        /\ op[c] = "refresh" => pc[c] \in {"lookup", "issue", "deny", "done"}
        /\ op[c] = "logout" => pc[c] \in {"deny", "done"}
        /\ op[c] = "logout_all" => pc[c] \in {"bump", "done"}
        /\ op[c] \in {"resend_otp", "forgot_password"} => pc[c] \in {"lookup", "send", "done"}
        /\ op[c] = "verify_reset" => pc[c] \in {"lookup", "otp", "grant", "done"}
        /\ op[c] \in {"reset", "change"} => pc[c] \in {"lookup", "save", "issue", "done"}
        /\ op[c] = "profile" => pc[c] \in {"lookup", "save", "done"}
        /\ c \in issued => pc[c] \in {"deny", "done"}

Granted(t) == t \in Calls => op[t] = "verify_reset" /\ pc[t] = "done"

\* A reset token in Redis was granted and is consumed by nobody; one that was
\* consumed has been granted and is no longer in Redis.
SingleUse ==
    /\ \A t \in resets : Granted(t)
    /\ \A c \in Calls : Consumed(c) => token[c] \notin resets /\ Granted(token[c])
    /\ ResetTokenSingleUse

\* The version that call c issues its pair for.
Target(c) == read[c].version + IF NewPassword(c) THEN 1 ELSE 0

\* A row that is saved was not erased, a token that is refreshed was issued and,
\* once looked up, has the version that was read.
Reading ==
    /\ revoked \subseteq issued
    /\ \A c \in Calls :
          /\ pc[c] \in {"otp", "save"} => ~read[c].erased
          /\ op[c] = "refresh" => token[c] \in issued
          /\ op[c] = "refresh" /\ pc[c] = "issue" => version[token[c]] = read[c].version

\* No version runs ahead of the row's, and the row's own version means the row's
\* own password, for what calls have read, will issue and have issued.
Current(v, pw) == v = user.version /\ ~user.erased => pw = user.password

UpToDate ==
    /\ \A c \in Calls :
          /\ read[c].version <= user.version
          /\ Current(read[c].version, read[c].password)
          /\ NewPassword(c) /\ pc[c] = "issue" =>
                Target(c) <= user.version /\ Current(Target(c), secret[c])
    /\ \A p \in issued :
          /\ version[p] <= user.version
          /\ Current(version[p], basis[p])
    /\ \A p \in revoked : ~user.erased => version[p] < user.version

Versions == Reading /\ (stale = 0 => UpToDate)

\* A code counts the wrong guesses of the calls that found it, and is used once
\* a call was accepted with it.
Counted ==
    /\ \A c \in Calls :
          /\ otp[c] \in {"matched", "mismatched", "accepted", "failed"} => found[c] \in DOMAIN codes
          /\ otp[c] = "accepted" => codes[found[c]].used
    /\ \A n \in DOMAIN codes : Cardinality(WrongGuesses(n)) <= codes[n].attempts

\* Without Redis errors the tokens that were withdrawn are on the denylist.
Denied == faults = 0 => \A t \in Pairs : Withdrawn(t) => t \in denied

-----------------------------------------------------------------------------
\* Types

\* A function on 1 .. n is a sequence of length n.
LEMMA FunctionIsSequence ==
    ASSUME NEW S, NEW n \in Nat, NEW f \in [1 .. n -> S]
    PROVE  f \in Seq(S) /\ Len(f) = n
<1>1. f \in Seq(S) BY SeqDef
<1>2. DOMAIN f = 1 .. n /\ DOMAIN f = 1 .. Len(f) /\ Len(f) \in Nat
  BY <1>1, LenProperties
<1> QED BY <1>1, <1>2

\* The step of a call on the codes keeps their types.
LEMMA CodeTypeStep ==
    ASSUME CodeTypeOK, NEW c \in Calls, NEW s \in Scopes,
           \/ FindCode(c, s) \/ CountWrongAttempt(c) \/ MarkUsed(c)
           \/ ExpireAllActive(c, s) \/ CreateCode(c, s)
    PROVE  CodeTypeOK'
<1>1. codes \in [1 .. Len(codes) -> Code] /\ DOMAIN codes = 1 .. Len(codes) /\ Len(codes) \in Nat
  BY LenProperties DEF CodeTypeOK
<1>2. otp' \in [Calls -> OtpPhase]
  BY DEF CodeTypeOK, FindCode, CountWrongAttempt, MarkUsed, ExpireAllActive, CreateCode,
         OtpGoto, OtpPhase
<1>3. CASE FindCode(c, s)
  BY <1>1, <1>2, <1>3 DEF CodeTypeOK, FindCode, Newest, ActiveCodes
<1>4. CASE CountWrongAttempt(c) \/ MarkUsed(c) \/ ExpireAllActive(c, s)
  <2>1. codes' \in [1 .. Len(codes) -> Code]
    <3>1. CASE CountWrongAttempt(c)
      <4>1. ASSUME NEW n \in 1 .. Len(codes)
            PROVE  [codes[n] EXCEPT !.attempts = codes[n].attempts + 1] \in Code
        <5>1. codes[n] \in Code /\ codes[n].attempts + 1 \in Nat BY <1>1 DEF Code
        <5> QED BY <5>1 DEF Code
      <4> QED BY <1>1, <3>1, <4>1 DEF CountWrongAttempt
    <3>2. CASE MarkUsed(c) BY <1>1, <3>2 DEF MarkUsed, Code
    <3>3. CASE ExpireAllActive(c, s) BY <1>1, <3>3 DEF ExpireAllActive, Code
    <3> QED BY <1>4, <3>1, <3>2, <3>3
  <2>2. codes' \in Seq(Code) /\ Len(codes') = Len(codes)
    BY <1>1, <2>1, FunctionIsSequence
  <2>3. UNCHANGED found
    BY <1>4 DEF CountWrongAttempt, MarkUsed, ExpireAllActive
  <2> QED BY <1>2, <2>2, <2>3 DEF CodeTypeOK
<1>5. CASE CreateCode(c, s)
  <2>1. NewCode(s) \in Code BY DEF NewCode, Code
  <2>2. codes' \in Seq(Code) /\ Len(codes') = Len(codes) + 1
    BY <1>1, <1>5, <2>1, AppendProperties DEF CreateCode, CodeTypeOK
  <2> QED BY <1>1, <1>2, <1>5, <2>2 DEF CodeTypeOK, CreateCode
<1> QED BY <1>3, <1>4, <1>5

\* The first row is well typed.
LEMMA SessionTypeInit == ASSUME Init PROVE SessionTypeOK
<1> USE SessionAssumption
<1>1. PICK pw \in Passwords, verified \in BOOLEAN :
          /\ user = Registered(pw, verified)
          /\ codes = IF verified THEN <<>> ELSE <<NewCode("email_verification")>>
          /\ issued = IF verified THEN {Earlier} ELSE {}
          /\ read = [c \in Calls |-> Registered(pw, verified)]
          /\ secret = [c \in Calls |-> pw]
          /\ basis = [p \in Pairs |-> pw]
  BY DEF Init
<1>2. Registered(pw, verified) \in User BY DEF Registered, User
<1>3. codes \in Seq(Code) /\ Len(codes) \in Nat
  <2>1. NewCode("email_verification") \in Code BY DEF NewCode, Code, Scopes
  <2> QED BY <1>1, <2>1, LenProperties
<1>4. CodeTypeOK BY <1>3 DEF Init, CodeTypeOK, OtpPhase
<1> QED BY <1>1, <1>2, <1>4 DEF Init, SessionTypeOK, Operations, Step, Pairs

\* UpdateLoginAttempt leaves a row a row.
LEMMA LoginAttemptTyped ==
    ASSUME NEW u \in User, NEW n \in Nat, NEW b \in BOOLEAN
    PROVE  [u EXCEPT !.failed = n, !.locked = b] \in User
  BY Zenon DEF User

\* What an operation saves is a row.
LEMMA SavedTyped == ASSUME SessionTypeOK, NEW c \in Calls PROVE Saved(c) \in User
<1>1. /\ read[c] \in User /\ read[c].version + 1 \in Nat
      /\ secret[c] \in Passwords \union {Erased}
  BY DEF SessionTypeOK, User
<1>2. ASSUME NEW u \in User PROVE [u EXCEPT !.verified = TRUE] \in User
  BY DEF User
<1>3. ASSUME NEW u \in User, NEW pw \in Passwords \union {Erased}, NEW n \in Nat
      PROVE  /\ [u EXCEPT !.password = pw, !.version = n] \in User
             /\ [u EXCEPT !.password = pw, !.version = n, !.failed = 0, !.locked = FALSE] \in User
  BY DEF User
<1> QED BY <1>1, <1>2, <1>3 DEF Saved

\* No step of a call, and nothing the environment does, breaks a type.
LEMMA SessionTypeStep == ASSUME SessionTypeOK, [Next]_vars PROVE SessionTypeOK'
<1> USE SessionAssumption
<1>1. ASSUME NEW c \in Calls, Arrive(c) PROVE SessionTypeOK'
  <2>1. UNCHANGED otpVars => CodeTypeOK' BY DEF SessionTypeOK, CodeTypeOK, otpVars
  <2>2. CASE Login(c)
    BY <2>1, <2>2 DEF Login, Begin, Goto, Read, SessionTypeOK, Operations, Step, rowVars,
                      pairVars, storeVars
  <2>3. CASE BeginByEmail(c)
    BY <2>1, <2>3 DEF BeginByEmail, Begin, Goto, SessionTypeOK, Operations, Step, rowVars,
                      pairVars, storeVars
  <2>4. CASE BeginAuthorized(c)
    BY <2>1, <2>4 DEF BeginAuthorized, Begin, Goto, Present, SessionTypeOK, Operations, Step,
                      rowVars, pairVars, storeVars
  <2>5. CASE BeginRefresh(c)
    BY <2>1, <2>5 DEF BeginRefresh, Begin, Goto, Present, Fault, SessionTypeOK, Operations, Step,
                      rowVars, pairVars, storeVars
  <2>6. CASE BeginReset(c)
    BY <2>1, <2>6 DEF BeginReset, Begin, Goto, Present, SessionTypeOK, Operations, Step, rowVars,
                      pairVars
  <2> QED BY <1>1, <2>2, <2>3, <2>4, <2>5, <2>6 DEF Arrive
<1>2. ASSUME NEW c \in Calls, Proceed(c) PROVE SessionTypeOK'
  <2>1. UNCHANGED otpVars => CodeTypeOK' BY DEF SessionTypeOK, CodeTypeOK, otpVars
  <2>2. CASE Lookup(c)
    BY <2>1, <2>2 DEF Lookup, Goto, Read, SessionTypeOK, Step, rowVars, pairVars, storeVars
  <2>3. CASE FailedAttempt(c)
    <3>1. read[c].failed + 1 \in Nat /\ (read[c].failed + 1 >= MaxFailures) \in BOOLEAN
      BY DEF SessionTypeOK, User
    <3>2. user' \in User
      <4>1. user \in User BY DEF SessionTypeOK
      <4>2. [user EXCEPT !.failed = read[c].failed + 1,
                         !.locked = read[c].failed + 1 >= MaxFailures] \in User
        BY <3>1, <4>1, LoginAttemptTyped
      <4> QED BY <2>3, <4>1, <4>2, Zenon DEF FailedAttempt
    <3> QED BY <2>1, <2>3, <3>2 DEF FailedAttempt, Goto, Fault, SessionTypeOK, Step, pairVars,
                                    storeVars
  <2>4. CASE ClearAttempts(c)
    <3>1. user' \in User
      <4>1. user \in User BY DEF SessionTypeOK
      <4>2. [user EXCEPT !.failed = 0, !.locked = FALSE] \in User
        BY <4>1, LoginAttemptTyped
      <4> QED BY <2>4, <4>1, <4>2, Zenon DEF ClearAttempts
    <3> QED BY <2>1, <2>4, <3>1 DEF ClearAttempts, Goto, Fault, SessionTypeOK, Step, pairVars,
                                    storeVars
  <2>5. CASE CheckCode(c)
    <3>1. OtpScope(c) \in Scopes BY DEF OtpScope, Scopes
    <3>2. CodeTypeOK'
      BY <2>5, <3>1, CodeTypeStep DEF CheckCode, SessionTypeOK
    <3> QED BY <2>5, <3>2 DEF CheckCode, Goto, SessionTypeOK, Step, rowVars, pairVars, storeVars
  <2>6. CASE GrantReset(c)
    BY <2>1, <2>6 DEF GrantReset, Goto, SessionTypeOK, Step, Pairs, rowVars, pairVars
  <2>7. CASE SendCode(c)
    <3>1. OtpScope(c) \in Scopes BY DEF OtpScope, Scopes
    <3>2. CodeTypeOK'
      BY <2>7, <3>1, CodeTypeStep DEF SendCode, SessionTypeOK
    <3> QED BY <2>7, <3>2 DEF SendCode, Goto, SessionTypeOK, Step, rowVars, pairVars, storeVars
  <2>8. CASE Save(c)
    <3> QED BY <2>1, <2>8, SavedTyped DEF Save, Goto, SessionTypeOK, Step, pairVars, storeVars
  <2>9. CASE BumpVersion(c)
    BY <2>1, <2>9 DEF BumpVersion, Goto, SessionTypeOK, User, Step, pairVars, storeVars
  <2>10. CASE Issue(c)
    <3>1. read[c].version \in Nat /\ read[c].password \in Passwords \union {Erased}
      BY DEF SessionTypeOK, User
    <3> QED BY <2>1, <2>10, <3>1 DEF Issue, Goto, SessionTypeOK, Step, Pairs, storeVars
  <2>11. CASE Deny(c)
    BY <2>1, <2>11 DEF Deny, Goto, Fault, SessionTypeOK, Step, rowVars, pairVars
  <2> QED BY <1>2, <2>2, <2>3, <2>4, <2>5, <2>6, <2>7, <2>8, <2>9, <2>10, <2>11 DEF Proceed
<1>3. CASE Unlock \/ Anonymize
  <2>1. CodeTypeOK' BY <1>3 DEF Unlock, Anonymize, SessionTypeOK, CodeTypeOK, otpVars
  <2>2. user' \in User /\ read' \in [Calls -> User]
    <3>1. CASE Unlock
      <4>1. \A u \in User : [u EXCEPT !.locked = FALSE] \in User BY DEF User
      <4> QED BY <3>1, <4>1 DEF Unlock, SessionTypeOK
    <3>2. CASE Anonymize
      <4>1. user \in User /\ user.version + 1 \in Nat BY DEF SessionTypeOK, User
      <4>2. user' \in User BY <3>2, <4>1 DEF Anonymize, User
      <4> QED BY <3>2, <4>2 DEF Anonymize, SessionTypeOK, callVars
    <3> QED BY <1>3, <3>1, <3>2
  <2> QED BY <1>3, <2>1, <2>2 DEF Unlock, Anonymize, SessionTypeOK, callVars, pairVars, storeVars
<1>4. CASE UNCHANGED vars
  BY <1>4 DEF vars, otpVars, rowVars, callVars, pairVars, storeVars, SessionTypeOK, CodeTypeOK
<1> QED BY <1>1, <1>2, <1>3, <1>4 DEF Next

\* The variables of a session keep their types: a call has looked up a code that
\* is in the table, only issued pairs are revoked, errors stay within bounds.
THEOREM SessionTypeCorrect == Spec => []SessionTypeOK
  BY SessionTypeInit, SessionTypeStep, PTL DEF Spec

-----------------------------------------------------------------------------
\* The course of an operation

\* Every step leads an operation to one of its own steps.
LEMMA PathStep == ASSUME SessionTypeOK, Path, [Next]_vars PROVE Path'
<1> USE SessionAssumption
<1> USE DEF Path, SessionTypeOK
<1>1. ASSUME NEW c \in Calls, Arrive(c) PROVE Path'
  <2>1. CASE Login(c) BY <2>1 DEF Login, Begin, Goto, pairVars
  <2>2. CASE BeginByEmail(c) BY <2>2 DEF BeginByEmail, Begin, Goto, pairVars
  <2>3. CASE BeginAuthorized(c) BY <2>3 DEF BeginAuthorized, Begin, Goto, pairVars
  <2>4. CASE BeginRefresh(c) BY <2>4 DEF BeginRefresh, Begin, Goto, pairVars
  <2>5. CASE BeginReset(c) BY <2>5 DEF BeginReset, Begin, Goto, pairVars
  <2> QED BY <1>1, <2>1, <2>2, <2>3, <2>4, <2>5 DEF Arrive
<1>2. ASSUME NEW c \in Calls, Proceed(c) PROVE Path'
  <2>1. CASE Lookup(c) BY <2>1 DEF Lookup, Goto, pairVars
  <2>2. CASE FailedAttempt(c) BY <2>2 DEF FailedAttempt, Goto, pairVars
  <2>3. CASE ClearAttempts(c) BY <2>3 DEF ClearAttempts, Goto, pairVars
  <2>4. CASE CheckCode(c) BY <2>4 DEF CheckCode, Goto, Operations, pairVars
  <2>5. CASE GrantReset(c) BY <2>5 DEF GrantReset, Goto, pairVars
  <2>6. CASE SendCode(c) BY <2>6 DEF SendCode, Goto, pairVars
  <2>7. CASE Save(c) BY <2>7 DEF Save, Goto, Operations, pairVars
  <2>8. CASE BumpVersion(c) BY <2>8 DEF BumpVersion, Goto, pairVars
  <2>9. CASE Issue(c) BY <2>9 DEF Issue, Goto
  <2>10. CASE Deny(c) BY <2>10 DEF Deny, Goto, pairVars
  <2> QED BY <1>2, <2>1, <2>2, <2>3, <2>4, <2>5, <2>6, <2>7, <2>8, <2>9, <2>10 DEF Proceed
<1>3. CASE Unlock \/ Anonymize
  BY <1>3 DEF Unlock, Anonymize, callVars, pairVars
<1>4. CASE UNCHANGED vars
  BY <1>4 DEF vars, callVars, pairVars
<1> QED BY <1>1, <1>2, <1>3, <1>4 DEF Next

\* Path holds in every reachable state.
LEMMA PathInvariant == Spec => [](SessionTypeOK /\ Path)
<1>1. Init => Path
  BY SessionAssumption DEF Init, Path
<1>2. SessionTypeOK /\ Path /\ [Next]_vars => Path'
  BY PathStep
<1> QED BY <1>1, <1>2, SessionTypeCorrect, PTL DEF Spec

-----------------------------------------------------------------------------
\* Reset tokens

\* Only BeginReset consumes a reset token and only GrantReset stores one.
LEMMA SingleUseStep ==
    ASSUME SessionTypeOK, Path, SingleUse, [Next]_vars PROVE SingleUse'
<1> USE DEF SessionTypeOK, Path, SingleUse, Granted, Consumed, ResetTokenSingleUse
<1>1. ASSUME NEW c \in Calls, Arrive(c) PROVE SingleUse'
  <2>1. CASE Login(c)
    BY <2>1 DEF Login, Begin, Goto, pairVars, storeVars
  <2>2. CASE BeginByEmail(c)
    BY <2>2 DEF BeginByEmail, Begin, Goto, pairVars, storeVars
  <2>3. CASE BeginAuthorized(c)
    BY <2>3 DEF BeginAuthorized, Begin, Goto, Present, pairVars, storeVars
  <2>4. CASE BeginRefresh(c)
    BY <2>4 DEF BeginRefresh, Begin, Goto, Present, pairVars, storeVars
  <2>5. CASE BeginReset(c)
    BY <2>5 DEF BeginReset, Begin, Goto, Present, pairVars
  <2> QED BY <1>1, <2>1, <2>2, <2>3, <2>4, <2>5 DEF Arrive
<1>2. ASSUME NEW c \in Calls, Proceed(c) PROVE SingleUse'
  <2>1. CASE Lookup(c) BY <2>1 DEF Lookup, Goto, pairVars, storeVars
  <2>2. CASE FailedAttempt(c) BY <2>2 DEF FailedAttempt, Goto, pairVars, storeVars
  <2>3. CASE ClearAttempts(c) BY <2>3 DEF ClearAttempts, Goto, pairVars, storeVars
  <2>4. CASE CheckCode(c) BY <2>4 DEF CheckCode, Goto, pairVars, storeVars
  <2>5. CASE GrantReset(c) BY <2>5 DEF GrantReset, Goto, Operations, pairVars
  <2>6. CASE SendCode(c) BY <2>6 DEF SendCode, Goto, pairVars, storeVars
  <2>7. CASE Save(c) BY <2>7 DEF Save, Goto, pairVars, storeVars
  <2>8. CASE BumpVersion(c) BY <2>8 DEF BumpVersion, Goto, pairVars, storeVars
  <2>9. CASE Issue(c) BY <2>9 DEF Issue, Goto, storeVars
  <2>10. CASE Deny(c) BY <2>10 DEF Deny, Goto, pairVars
  <2> QED BY <1>2, <2>1, <2>2, <2>3, <2>4, <2>5, <2>6, <2>7, <2>8, <2>9, <2>10 DEF Proceed
<1>3. CASE Unlock \/ Anonymize
  BY <1>3 DEF Unlock, Anonymize, callVars, pairVars, storeVars
<1>4. CASE UNCHANGED vars
  BY <1>4 DEF vars, callVars, pairVars, storeVars
<1> QED BY <1>1, <1>2, <1>3, <1>4 DEF Next

\* Two resets never go through with one reset token, whatever the two calls do
\* in between: GETDEL gives its jti to one of them.
THEOREM ResetTokenSingleUseHolds == Spec => []ResetTokenSingleUse
<1>1. Init => SingleUse
  BY SessionAssumption DEF Init, SingleUse, Granted, Consumed, ResetTokenSingleUse
<1>2. SessionTypeOK /\ Path /\ SingleUse /\ [Next]_vars => SingleUse'
  BY SingleUseStep
<1>3. SingleUse => ResetTokenSingleUse BY DEF SingleUse
<1> QED BY <1>1, <1>2, <1>3, PathInvariant, PTL DEF Spec

-----------------------------------------------------------------------------
\* Revocation

\* What a call has read and was given stays with it until it has used it.
LEMMA ReadingStep ==
    ASSUME SessionTypeOK, Path, Reading, [Next]_vars PROVE Reading'
<1> USE DEF SessionTypeOK, Path, Reading
<1>1. ASSUME NEW c \in Calls, Arrive(c) PROVE Reading'
  <2>1. CASE Login(c)
    BY <2>1 DEF Login, Begin, Goto, Read, rowVars, pairVars
  <2>2. CASE BeginByEmail(c)
    BY <2>2 DEF BeginByEmail, Begin, Goto, rowVars, pairVars
  <2>3. CASE BeginAuthorized(c)
    BY <2>3 DEF BeginAuthorized, Begin, Goto, Present, rowVars, pairVars
  <2>4. CASE BeginRefresh(c)
    BY <2>4 DEF BeginRefresh, Begin, Goto, Present, rowVars, pairVars
  <2>5. CASE BeginReset(c)
    BY <2>5 DEF BeginReset, Begin, Goto, Present, rowVars, pairVars
  <2> QED BY <1>1, <2>1, <2>2, <2>3, <2>4, <2>5 DEF Arrive
<1>2. ASSUME NEW c \in Calls, Proceed(c) PROVE Reading'
  <2>1. CASE Lookup(c) BY <2>1 DEF Lookup, Goto, Read, rowVars, pairVars
  <2>2. CASE FailedAttempt(c) BY <2>2 DEF FailedAttempt, Goto, pairVars
  <2>3. CASE ClearAttempts(c) BY <2>3 DEF ClearAttempts, Goto, pairVars
  <2>4. CASE CheckCode(c) BY <2>4 DEF CheckCode, Goto, rowVars, pairVars
  <2>5. CASE GrantReset(c) BY <2>5 DEF GrantReset, Goto, rowVars, pairVars
  <2>6. CASE SendCode(c) BY <2>6 DEF SendCode, Goto, rowVars, pairVars
  <2>7. CASE Save(c) BY <2>7 DEF Save, Goto, pairVars
  <2>8. CASE BumpVersion(c) BY <2>8 DEF BumpVersion, Goto, pairVars
  <2>9. CASE Issue(c) BY <2>9 DEF Issue, Goto
  <2>10. CASE Deny(c) BY <2>10 DEF Deny, Goto, rowVars, pairVars
  <2> QED BY <1>2, <2>1, <2>2, <2>3, <2>4, <2>5, <2>6, <2>7, <2>8, <2>9, <2>10 DEF Proceed
<1>3. CASE Unlock \/ Anonymize
  <2>1. \A c \in Calls : read'[c].version = read[c].version /\ read'[c].erased = read[c].erased
    BY <1>3 DEF Unlock, Anonymize, User, callVars
  <2> QED BY <1>3, <2>1 DEF Unlock, Anonymize, callVars, pairVars
<1>4. CASE UNCHANGED vars
  BY <1>4 DEF vars, rowVars, callVars, pairVars
<1> QED BY <1>1, <1>2, <1>3, <1>4 DEF Next

\* While no save overwrites a concurrent change, the row's version only grows,
\* and grows with its password; an erased row stays erased.
LEMMA RowMoves ==
    ASSUME SessionTypeOK, Reading, [Next]_vars, stale' = 0
    PROVE  /\ stale = 0
           /\ \/ /\ user'.version = user.version /\ user'.password = user.password
                 /\ user'.erased = user.erased
              \/ user'.version = user.version + 1
           /\ user.erased => user'.erased
<1> USE SessionAssumption DEF SessionTypeOK, User
<1>1. user \in User /\ stale \in Nat
  OBVIOUS
<1>2. ASSUME NEW c \in Calls, Arrive(c)
      PROVE  UNCHANGED <<user, stale>>
  BY <1>2 DEF Arrive, Login, BeginByEmail, BeginAuthorized, BeginRefresh, BeginReset, rowVars
<1>3. ASSUME NEW c \in Calls, Proceed(c), ~FailedAttempt(c), ~ClearAttempts(c), ~Save(c), ~BumpVersion(c)
      PROVE  UNCHANGED <<user, stale>>
  BY <1>3 DEF Proceed, Lookup, CheckCode, GrantReset, SendCode, Issue, Deny, rowVars
<1>4. ASSUME NEW c \in Calls, FailedAttempt(c) \/ ClearAttempts(c)
      PROVE  /\ stale' = stale /\ user'.version = user.version
             /\ user'.password = user.password /\ user'.erased = user.erased
  BY <1>1, <1>4 DEF FailedAttempt, ClearAttempts
<1>5. ASSUME NEW c \in Calls, Save(c)
      PROVE  /\ stale = 0 /\ Credentials(user) = Credentials(read[c]) /\ ~read[c].erased
             /\ user' = Saved(c)
  BY <1>1, <1>5 DEF Save, Reading
<1>6. ASSUME NEW c \in Calls, Save(c)
      PROVE  /\ user.version = read[c].version /\ user.password = read[c].password
             /\ user.erased = read[c].erased /\ ~user.erased
  BY <1>5, <1>6 DEF Credentials
<1>7. ASSUME NEW c \in Calls
      PROVE  \/ /\ Saved(c).version = read[c].version /\ Saved(c).password = read[c].password
                /\ Saved(c).erased = read[c].erased
             \/ Saved(c).version = read[c].version + 1
  BY DEF Saved
<1>8. ASSUME NEW c \in Calls, BumpVersion(c)
      PROVE  /\ stale' = stale
             /\ user.erased => user' = user
             /\ ~user.erased => user'.version = user.version + 1
  BY <1>1, <1>8 DEF BumpVersion
<1>9. CASE Unlock \/ Anonymize
  BY <1>1, <1>9 DEF Unlock, Anonymize
<1>10. CASE UNCHANGED vars
  BY <1>10 DEF vars, rowVars
<1>11. ASSUME NEW c \in Calls, Proceed(c)
       PROVE  /\ stale = 0
              /\ \/ /\ user'.version = user.version /\ user'.password = user.password
                    /\ user'.erased = user.erased
                 \/ user'.version = user.version + 1
              /\ user.erased => user'.erased
  BY <1>1, <1>3, <1>4, <1>5, <1>6, <1>7, <1>8, <1>11
<1> QED BY <1>1, <1>2, <1>9, <1>10, <1>11 DEF Next

\* A call's copy of the row changes only when it reads the row as it is.
LEMMA ReadMoves ==
    ASSUME SessionTypeOK, [Next]_vars, NEW d \in Calls
    PROVE  \/ read'[d].version = read[d].version /\ read'[d].password = read[d].password
           \/ read'[d] = user /\ user' = user
<1> USE DEF SessionTypeOK
<1>1. ASSUME NEW c \in Calls, Arrive(c) PROVE read' = read \/ (Read(c) /\ user' = user)
  BY <1>1 DEF Arrive, Login, BeginByEmail, BeginAuthorized, BeginRefresh, BeginReset, rowVars
<1>2. ASSUME NEW c \in Calls, Proceed(c) PROVE read' = read \/ (Read(c) /\ user' = user)
  BY <1>2 DEF Proceed, Lookup, FailedAttempt, ClearAttempts, CheckCode, GrantReset, SendCode,
              Save, BumpVersion, Issue, Deny, rowVars
<1>3. ASSUME NEW c \in Calls, Read(c), user' = user PROVE read'[d] = read[d] \/ read'[d] = user
  BY <1>3 DEF Read
<1>4. CASE Unlock \/ Anonymize \/ UNCHANGED vars
  BY <1>4 DEF Unlock, Anonymize, User, vars, callVars
<1> QED BY <1>1, <1>2, <1>3, <1>4 DEF Next

\* A call about to issue a pair for a new password has just saved it, in the
\* version that the pair will have, or was about to do so before.
LEMMA PasswordMoves ==
    ASSUME SessionTypeOK, Path, [Next]_vars, NEW d \in Calls,
           NewPassword(d)', pc'[d] = "issue"
    PROVE  \/ /\ NewPassword(d) /\ pc[d] = "issue"
              /\ Target(d)' = Target(d) /\ secret'[d] = secret[d]
           \/ user'.version = Target(d)' /\ user'.password = secret'[d]
<1> USE DEF SessionTypeOK, NewPassword, Target
<1>1. ASSUME NEW c \in Calls, Arrive(c) PROVE op'[d] = op[d] /\ pc[d] = "issue" /\ d # c
  BY <1>1 DEF Arrive, Login, BeginByEmail, BeginAuthorized, BeginRefresh, BeginReset, Begin, Goto
<1>2. ASSUME NEW c \in Calls, Arrive(c) PROVE read'[d] = read[d] /\ secret'[d] = secret[d]
  BY <1>1, <1>2 DEF Arrive, Login, BeginByEmail, BeginAuthorized, BeginRefresh, BeginReset, Read
<1>3. ASSUME NEW c \in Calls, Proceed(c), ~Save(c)
      PROVE  /\ op'[d] = op[d] /\ pc[d] = "issue"
             /\ read'[d] = read[d] /\ secret'[d] = secret[d]
  <2>1. CASE Lookup(c)
    BY <2>1 DEF Lookup, Goto, Read
  <2>2. CASE FailedAttempt(c) \/ ClearAttempts(c)
    BY <2>2 DEF FailedAttempt, ClearAttempts, Goto, Path
  <2>3. CASE CheckCode(c) \/ GrantReset(c) \/ SendCode(c)
    BY <2>3 DEF CheckCode, GrantReset, SendCode, Goto
  <2>4. CASE BumpVersion(c) \/ Issue(c) \/ Deny(c)
    BY <2>4 DEF BumpVersion, Issue, Deny, Goto
  <2> QED BY <1>3, <2>1, <2>2, <2>3, <2>4 DEF Proceed
<1>4. ASSUME NEW c \in Calls, Save(c), d # c
      PROVE  /\ op'[d] = op[d] /\ pc[d] = "issue"
             /\ read'[d] = read[d] /\ secret'[d] = secret[d]
  BY <1>4 DEF Save, Goto
<1>5. CASE Save(d)
  <2>1. /\ NewPassword(d) /\ user' = Saved(d)
        /\ read' = read /\ op' = op /\ secret' = secret
    BY <1>5 DEF Save
  <2>2. Saved(d).version = read[d].version + 1 /\ Saved(d).password = secret[d]
    BY <2>1 DEF Saved, User
  <2> QED BY <2>1, <2>2
<1>6. CASE Unlock \/ Anonymize \/ UNCHANGED vars
  BY <1>6 DEF Unlock, Anonymize, User, vars, callVars
<1> QED BY <1>1, <1>2, <1>3, <1>4, <1>5, <1>6 DEF Next

\* A pair is new because its call issues it, or stays as it was.
LEMMA PairMoves ==
    ASSUME SessionTypeOK, Path, [Next]_vars, NEW p \in issued'
    PROVE  \/ p \in issued /\ version'[p] = version[p] /\ basis'[p] = basis[p]
           \/ p \in Calls /\ Issue(p)
<1> USE DEF SessionTypeOK
<1>1. ASSUME NEW c \in Calls, Arrive(c) PROVE UNCHANGED pairVars
  BY <1>1 DEF Arrive, Login, BeginByEmail, BeginAuthorized, BeginRefresh, BeginReset
<1>2. ASSUME NEW c \in Calls, Proceed(c), ~Issue(c) PROVE UNCHANGED pairVars
  BY <1>2 DEF Proceed, Lookup, FailedAttempt, ClearAttempts, CheckCode, GrantReset, SendCode,
              Save, BumpVersion, Deny
<1>3. ASSUME NEW c \in Calls, Issue(c), p # c
      PROVE  p \in issued /\ version'[p] = version[p] /\ basis'[p] = basis[p]
  BY <1>3 DEF Issue
<1>4. CASE Unlock \/ Anonymize \/ UNCHANGED vars
  BY <1>4 DEF Unlock, Anonymize, vars, pairVars
<1> QED BY <1>1, <1>2, <1>3, <1>4 DEF Next, pairVars

\* A pair is revoked by a step that puts the row past every issued pair, or
\* because it replaces a revoked one.
LEMMA RevokedMoves ==
    ASSUME SessionTypeOK, Path, Reading, [Next]_vars, stale' = 0, NEW p \in revoked'
    PROVE  \/ p \in revoked
           \/ p \in issued /\ (user'.version = user.version + 1 \/ user'.erased)
           \/ p \in Calls /\ Issue(p) /\ op[p] = "refresh" /\ token[p] \in revoked
<1> USE DEF SessionTypeOK
<1>1. ASSUME NEW c \in Calls, Arrive(c) PROVE UNCHANGED revoked
  BY <1>1 DEF Arrive, Login, BeginByEmail, BeginAuthorized, BeginRefresh, BeginReset, rowVars
<1>2. ASSUME NEW c \in Calls, Proceed(c), ~Issue(c), ~Save(c), ~BumpVersion(c)
      PROVE  UNCHANGED revoked
  BY <1>2 DEF Proceed, Lookup, FailedAttempt, ClearAttempts, CheckCode, GrantReset, SendCode,
              Deny, rowVars
<1>3. ASSUME NEW c \in Calls, Issue(c)
      PROVE  \/ p \in revoked
             \/ p = c /\ op[c] = "refresh" /\ token[c] \in revoked
  BY <1>3 DEF Issue
<1>4. ASSUME NEW c \in Calls, Save(c), p \notin revoked
      PROVE  p \in issued /\ user'.version = user.version + 1
  <2>1. p \in issued /\ op[c] \in {"reset", "change"} /\ user' = Saved(c)
    BY <1>4 DEF Save
  <2>2. Credentials(user) = Credentials(read[c])
    BY <1>4, SessionAssumption DEF Save
  <2>3. Saved(c).version = read[c].version + 1
    BY <2>1 DEF Saved, User
  <2> QED BY <2>1, <2>2, <2>3 DEF Credentials
<1>5. ASSUME NEW c \in Calls, BumpVersion(c), p \notin revoked
      PROVE  p \in issued /\ (user'.version = user.version + 1 \/ user'.erased)
  BY <1>5 DEF BumpVersion, User
<1>6. CASE Anonymize
  BY <1>6 DEF Anonymize, User
<1>7. CASE Unlock \/ UNCHANGED vars
  BY <1>7 DEF Unlock, vars, rowVars
<1> QED BY <1>1, <1>2, <1>3, <1>4, <1>5, <1>6, <1>7 DEF Next

\* Until a save overwrites a concurrent change, no step makes a version that was
\* read or issued run ahead of the row, or puts an old password to a new version.
LEMMA UpToDateStep ==
    ASSUME SessionTypeOK, Path, Reading, UpToDate, [Next]_vars, stale' = 0, SessionTypeOK'
    PROVE  UpToDate'
<1>1. /\ user.version \in Nat /\ user'.version \in Nat
      /\ \A p \in issued : version[p] \in Nat
      /\ \A c \in Calls : read[c].version \in Nat /\ Target(c) \in Nat
  BY DEF SessionTypeOK, User, Target
<1>2. ASSUME NEW v \in Nat, NEW pw, v <= user.version, Current(v, pw)
      PROVE  v <= user'.version /\ (v = user'.version /\ ~user'.erased => pw = user'.password)
  BY <1>1, <1>2, RowMoves DEF Current
<1>3. ASSUME NEW v \in Nat, ~user.erased => v < user.version
      PROVE  ~user'.erased => v < user'.version
  BY <1>1, <1>3, RowMoves
<1>4. ASSUME NEW d \in Calls
      PROVE  /\ read'[d].version <= user'.version
             /\ Current(read[d].version, read[d].password)'
  BY <1>1, <1>2, ReadMoves DEF UpToDate, Current
<1>5. ASSUME NEW d \in Calls, NewPassword(d)', pc'[d] = "issue"
      PROVE  Target(d)' <= user'.version /\ Current(Target(d), secret[d])'
  BY <1>1, <1>2, <1>5, PasswordMoves DEF UpToDate, Current
<1>6. ASSUME NEW p \in Calls, Issue(p)
      PROVE  /\ user' = user /\ p \notin issued
             /\ version'[p] = Target(p) /\ Target(p) <= user.version
             /\ Current(Target(p), basis'[p])
  <2>1. /\ pc[p] = "issue" /\ user' = user /\ p \notin issued
        /\ version'[p] = Target(p)
        /\ basis'[p] = CASE NewPassword(p) -> secret[p]
                          [] op[p] = "refresh" -> basis[token[p]]
                          [] OTHER -> read[p].password
    BY <1>6 DEF Issue, Target, SessionTypeOK, Path, Pairs
  <2>2. CASE NewPassword(p)
    <3>1. basis'[p] = secret[p] BY <2>1, <2>2 DEF NewPassword
    <3> QED BY <2>1, <2>2, <3>1 DEF UpToDate
  <2>3. CASE op[p] = "refresh"
    BY <1>1, <2>1, <2>3 DEF UpToDate, Reading, Target, NewPassword
  <2>4. CASE ~NewPassword(p) /\ op[p] # "refresh"
    BY <1>1, <2>1, <2>4 DEF UpToDate, Target
  <2> QED BY <2>1, <2>2, <2>3, <2>4
<1>7. ASSUME NEW p \in issued'
      PROVE  version'[p] <= user'.version /\ Current(version[p], basis[p])'
  BY <1>1, <1>2, <1>6, <1>7, PairMoves DEF UpToDate, Current
<1>8. ASSUME NEW p \in revoked'
      PROVE  ~user'.erased => version'[p] < user'.version
  <2>1. CASE p \in revoked
    <3>1. p \in issued /\ version'[p] = version[p]
      BY <1>6, <2>1, <1>8, PairMoves DEF Reading, SessionTypeOK
    <3> QED BY <1>1, <1>3, <2>1, <3>1 DEF UpToDate
  <2>2. CASE p \in issued /\ (user'.version = user.version + 1 \/ user'.erased)
    <3>1. version'[p] = version[p]
      BY <1>6, <2>2, <1>8, PairMoves DEF SessionTypeOK
    <3> QED BY <1>1, <2>2, <3>1 DEF UpToDate
  <2>3. CASE p \in Calls /\ Issue(p) /\ op[p] = "refresh" /\ token[p] \in revoked
    <3>1. Target(p) = version[token[p]]
      BY <1>1, <2>3 DEF Issue, Reading, Target, NewPassword
    <3> QED BY <1>6, <2>3, <3>1 DEF UpToDate
  <2> QED BY <1>8, <2>1, <2>2, <2>3, RevokedMoves
<1> QED BY <1>4, <1>5, <1>7, <1>8 DEF UpToDate

\* Versions holds in every reachable state.
LEMMA VersionsInvariant == Spec => []Versions
<1>1. Init => Versions
  <2>1. Init => Reading BY DEF Init, Reading, Registered
  <2>2. Init => UpToDate
    <3> SUFFICES ASSUME Init PROVE UpToDate OBVIOUS
    <3>1. PICK pw \in Passwords : /\ user.password = pw /\ user.version = 0
                                  /\ read = [c \in Calls |-> user]
                                  /\ basis = [p \in Pairs |-> pw]
      BY DEF Init, Registered
    <3>2. /\ issued \subseteq Pairs /\ revoked = {}
          /\ version = [p \in Pairs |-> 0] /\ pc = [c \in Calls |-> "idle"]
      BY DEF Init, Pairs
    <3> QED BY <3>1, <3>2 DEF UpToDate, Current
  <2> QED BY <2>1, <2>2 DEF Versions
<1>2. SessionTypeOK /\ SessionTypeOK' /\ Path /\ Versions /\ [Next]_vars => Versions'
  BY ReadingStep, RowMoves, UpToDateStep DEF Versions
<1> QED BY <1>1, <1>2, PathInvariant, PTL DEF Spec

\* Unless a save overwrote a concurrent change, a pair that a logout-all, a new
\* password or an erasure has revoked, or one refreshed from it, is never
\* accepted again.
THEOREM RevocationHoldsAlways == Spec => []RevocationHolds
<1>1. SessionTypeOK /\ Versions => RevocationHolds
  BY DEF SessionTypeOK, User, Versions, UpToDate, RevocationHolds, Accepted
<1> QED BY <1>1, PathInvariant, VersionsInvariant, PTL

\* Unless a save overwrote a concurrent change, every accepted session goes back
\* to the password in force.
THEOREM SessionsFollowPasswordHolds == Spec => []SessionsFollowPassword
<1>1. Versions => SessionsFollowPassword
  BY DEF Versions, UpToDate, Current, SessionsFollowPassword, Accepted
<1> QED BY <1>1, VersionsInvariant, PTL

-----------------------------------------------------------------------------
(***************************************************************************)
(* The refinement of SessionRegistry.  A step leaves the row's version,    *)
(* and with it every session, as it is; or it puts the version past all of *)
(* them; or a save has overwritten a concurrent change by then.            *)
(***************************************************************************)
LEMMA PairsAreKept ==
    ASSUME SessionTypeOK, [Next]_vars PROVE issued \subseteq issued'
<1>1. ASSUME NEW c \in Calls, Arrive(c) PROVE UNCHANGED pairVars
  BY <1>1 DEF Arrive, Login, BeginByEmail, BeginAuthorized, BeginRefresh, BeginReset
<1>2. ASSUME NEW c \in Calls, Proceed(c), ~Issue(c) PROVE UNCHANGED pairVars
  BY <1>2 DEF Proceed, Lookup, FailedAttempt, ClearAttempts, CheckCode, GrantReset, SendCode,
              Save, BumpVersion, Deny
<1>3. ASSUME NEW c \in Calls, Issue(c) PROVE issued \subseteq issued'
  BY <1>3 DEF Issue
<1>4. CASE Unlock \/ Anonymize \/ UNCHANGED vars
  BY <1>4 DEF Unlock, Anonymize, vars, pairVars
<1> QED BY <1>1, <1>2, <1>3, <1>4 DEF Next, pairVars

LEMMA RegistryStep ==
    ASSUME SessionTypeOK, SessionTypeOK', Path, Versions, [Next]_vars
    PROVE  [Registry!Next]_(Registry!vars)
<1> DEFINE live == {p \in issued : Accepted(p)}
<1>0. /\ stale \in Nat /\ stale' \in Nat /\ user \in User /\ user' \in User
      /\ issued \subseteq Pairs /\ issued' \subseteq Pairs
      /\ version \in [Pairs -> Nat] /\ version' \in [Pairs -> Nat]
  BY SessionAssumption DEF SessionTypeOK
<1>1. CASE stale' # 0
  <2>1. (stale > 0)' = TRUE
    BY <1>0, <1>1
  <2>2. live' \subseteq issued' /\ user'.password \in Passwords \union {Erased}
    BY <1>0 DEF User
  <2>3. Registry!Overwrite
    BY <1>0, <2>1, <2>2, PairsAreKept DEF Registry!Overwrite
  <2> QED BY <2>3 DEF Registry!Next
<1>2. CASE stale' = 0
  <2>1. stale = 0 /\ Reading /\ UpToDate
    BY <1>2, RowMoves DEF Versions
  <2>2. (stale > 0)' = (stale > 0)
    BY <1>2, <2>1
  <2>3. \A p \in issued' : (p \in issued /\ version'[p] = version[p]) \/ (p \in Calls /\ Issue(p))
    BY PairMoves
  <2>4. CASE \E c \in Calls : Issue(c)
    <3>1. PICK c \in Calls : Issue(c)
      BY <2>4
    <3>2. /\ user' = user /\ c \notin issued /\ issued' = issued \union {c}
          /\ \A p \in issued : version'[p] = version[p]
      BY <3>1 DEF Issue, Path, SessionTypeOK
    <3>3. live' \in {live, live \union {c}}
      <4>1. \A p \in issued : Accepted(p)' <=> Accepted(p)
        BY <3>2 DEF Accepted
      <4>2. CASE Accepted(c)'
        BY <3>2, <4>1, <4>2
      <4>3. CASE ~Accepted(c)'
        BY <3>2, <4>1, <4>3
      <4> QED BY <4>2, <4>3
    <3>4. Registry!Open(c)
      BY <2>2, <3>2, <3>3 DEF Registry!Open
    <3> QED BY <3>4 DEF Registry!Next, Pairs
  <2>5. CASE ~ \E c \in Calls : Issue(c)
    <3>1. issued' = issued /\ \A p \in issued : version'[p] = version[p]
      BY <2>3, <2>5, PairsAreKept
    <3>2. CASE /\ user'.version = user.version /\ user'.password = user.password
               /\ user'.erased = user.erased
      <4>1. \A p \in issued : Accepted(p)' <=> Accepted(p)
        BY <3>1, <3>2 DEF Accepted
      <4>2. live' = live
        BY <3>1, <4>1
      <4> QED BY <2>2, <3>1, <3>2, <4>2 DEF Registry!vars
    <3>3. CASE user'.version = user.version + 1
      <4>1. ASSUME NEW p \in issued PROVE ~Accepted(p)'
        <5>1. version[p] \in Nat /\ user.version \in Nat /\ version[p] <= user.version
          BY <1>0, <2>1 DEF UpToDate, User
        <5> QED BY <3>1, <3>3, <5>1 DEF Accepted
      <4>2. live' = {}
        BY <3>1, <4>1
      <4>3. user'.password \in Passwords \union {Erased}
        BY <1>0 DEF User
      <4>4. Registry!EndAll
        BY <2>2, <3>1, <4>2, <4>3 DEF Registry!EndAll
      <4> QED BY <4>4 DEF Registry!Next
    <3> QED BY <1>2, <2>1, <3>2, <3>3, RowMoves
  <2> QED BY <2>4, <2>5
<1> QED BY <1>1, <1>2

\* A session lives from its issue to the next logout-all, new password or
\* erasure, which ends all of them at once; none comes back, and the password
\* never changes under one, until a save overwrites a concurrent change.
THEOREM SessionsImplementRegistry == Spec => ImplementsRegistry
<1>1. Init => Registry!Init
  <2> SUFFICES ASSUME Init PROVE Registry!Init OBVIOUS
  <2>1. /\ issued \subseteq Pairs /\ stale = 0 /\ user.version = 0 /\ ~user.erased
        /\ user.password \in Passwords /\ \A p \in Pairs : version[p] = 0
    BY DEF Init, Registered, Pairs
  <2>2. {p \in issued : Accepted(p)} = issued
    BY <2>1 DEF Accepted
  <2>3. (stale > 0) = FALSE
    BY <2>1
  <2> QED BY <2>1, <2>2, <2>3 DEF Registry!Init
<1>2. SessionTypeOK /\ SessionTypeOK' /\ Path /\ Versions /\ [Next]_vars
        => [Registry!Next]_(Registry!vars)
  BY RegistryStep
<1> QED BY <1>1, <1>2, PathInvariant, VersionsInvariant, PTL
        DEF Spec, ImplementsRegistry, Registry!Spec

-----------------------------------------------------------------------------
\* Codes

\* Each step of a call on the codes keeps the count of its wrong guesses.
LEMMA CountedStep ==
    ASSUME SessionTypeOK, Counted, [Next]_vars PROVE Counted'
<1> USE CodeAssumption
<1>1. /\ codes \in [1 .. Len(codes) -> Code] /\ DOMAIN codes = 1 .. Len(codes) /\ Len(codes) \in Nat
      /\ otp \in [Calls -> OtpPhase] /\ found \in [Calls -> 0 .. Len(codes)]
  BY LenProperties DEF SessionTypeOK, CodeTypeOK
<1>2. ASSUME NEW n PROVE WrongGuesses(n) \subseteq Calls /\ IsFiniteSet(WrongGuesses(n))
  BY FS_Subset DEF WrongGuesses
<1>3. CASE UNCHANGED otpVars
  BY <1>3 DEF otpVars, Counted, WrongGuesses
<1>4. ASSUME NEW c \in Calls, NEW s \in Scopes, FindCode(c, s) PROVE Counted'
  <2>1. \A n : WrongGuesses(n)' = WrongGuesses(n)
    BY <1>1, <1>4 DEF FindCode, OtpGoto, WrongGuesses
  <2>2. \A n \in Newest(s) : n \in DOMAIN codes BY DEF Newest, ActiveCodes
  <2> QED BY <1>1, <1>4, <2>1, <2>2 DEF FindCode, OtpGoto, Counted
<1>5. ASSUME NEW c \in Calls, CountWrongAttempt(c) PROVE Counted'
  <2> DEFINE m == found[c]
  <2>1. /\ m \in DOMAIN codes /\ otp[c] = "mismatched" /\ DOMAIN codes' = DOMAIN codes
        /\ \A n \in DOMAIN codes : codes'[n].used = codes[n].used
        /\ \A n \in DOMAIN codes : codes'[n].attempts = codes[n].attempts + IF n = m THEN 1 ELSE 0
        /\ \A n \in DOMAIN codes : codes[n].attempts \in Nat
        /\ found' = found /\ otp' = [otp EXCEPT ![c] = "failed"]
    BY <1>1, <1>5 DEF CountWrongAttempt, OtpGoto, Counted, Code
  <2>2. \A n : n # m => WrongGuesses(n)' = WrongGuesses(n)
    BY <1>1, <2>1 DEF WrongGuesses
  <2>3. WrongGuesses(m)' = WrongGuesses(m) \union {c} /\ c \notin WrongGuesses(m)
    BY <1>1, <2>1 DEF WrongGuesses
  <2>4. Cardinality(WrongGuesses(m)') = Cardinality(WrongGuesses(m)) + 1
    BY <1>2, <2>3, FS_AddElement
  <2>5. Cardinality(WrongGuesses(m)) \in Nat BY <1>2, FS_CardinalityType
  <2>6. ASSUME NEW n \in DOMAIN codes PROVE Cardinality(WrongGuesses(n))' <= codes'[n].attempts
    <3>1. CASE n = m
      BY <2>1, <2>4, <2>5, <3>1 DEF Counted
    <3>2. CASE n # m
      BY <2>1, <2>2, <3>2 DEF Counted
    <3> QED BY <3>1, <3>2
  <2>7. ASSUME NEW b \in Calls
        PROVE  /\ otp'[b] \in {"matched", "mismatched", "accepted", "failed"} => found'[b] \in DOMAIN codes'
               /\ otp'[b] = "accepted" => codes'[found'[b]].used
    BY <1>1, <2>1 DEF Counted
  <2> QED BY <2>1, <2>6, <2>7 DEF Counted
<1>6. ASSUME NEW c \in Calls, MarkUsed(c) PROVE Counted'
  <2>1. \A n : WrongGuesses(n)' = WrongGuesses(n)
    BY <1>1, <1>6 DEF MarkUsed, OtpGoto, WrongGuesses
  <2>2. /\ found[c] \in DOMAIN codes /\ DOMAIN codes' = DOMAIN codes
        /\ codes'[found[c]].used
        /\ \A n \in DOMAIN codes : codes[n].used => codes'[n].used
        /\ \A n \in DOMAIN codes : codes'[n].attempts = codes[n].attempts
    BY <1>1, <1>6 DEF MarkUsed, Counted, Code
  <2> QED BY <1>1, <1>6, <2>1, <2>2 DEF MarkUsed, OtpGoto, Counted
<1>7. ASSUME NEW c \in Calls, NEW s \in Scopes, ExpireAllActive(c, s) PROVE Counted'
  <2>1. \A n : WrongGuesses(n)' = WrongGuesses(n)
    BY <1>1, <1>7 DEF ExpireAllActive, OtpGoto, WrongGuesses
  <2>2. /\ DOMAIN codes' = DOMAIN codes
        /\ \A n \in DOMAIN codes :
              codes'[n].used = codes[n].used /\ codes'[n].attempts = codes[n].attempts
    BY <1>1, <1>7 DEF ExpireAllActive, Code
  <2> QED BY <1>1, <1>7, <2>1, <2>2 DEF ExpireAllActive, OtpGoto, Counted
<1>8. ASSUME NEW c \in Calls, NEW s \in Scopes, CreateCode(c, s) PROVE Counted'
  <2>1. \A n : WrongGuesses(n)' = WrongGuesses(n)
    BY <1>1, <1>8 DEF CreateCode, OtpGoto, WrongGuesses
  <2>2. /\ DOMAIN codes' = 1 .. Len(codes) + 1
        /\ \A n \in DOMAIN codes : codes'[n] = codes[n]
        /\ codes'[Len(codes) + 1].attempts = 0
    <3>1. codes \in Seq(Code) /\ NewCode(s) \in Code
      BY DEF SessionTypeOK, CodeTypeOK, NewCode, Code
    <3>2. codes' = Append(codes, NewCode(s)) BY <1>8 DEF CreateCode
    <3>3. /\ codes' \in Seq(Code) /\ Len(codes') = Len(codes) + 1
          /\ \A n \in 1 .. Len(codes) : codes'[n] = codes[n]
          /\ codes'[Len(codes) + 1] = NewCode(s)
      BY <3>1, <3>2, AppendProperties
    <3> QED BY <1>1, <3>3, LenProperties DEF NewCode
  <2>3. WrongGuesses(Len(codes) + 1) = {}
    BY <1>1 DEF WrongGuesses, Counted
  <2>4. Cardinality(WrongGuesses(Len(codes) + 1)) = 0 BY <2>3, FS_EmptySet
  <2>5. ASSUME NEW n \in DOMAIN codes' PROVE Cardinality(WrongGuesses(n))' <= codes'[n].attempts
    <3>1. CASE n = Len(codes) + 1 BY <2>1, <2>2, <2>4, <3>1
    <3>2. CASE n \in DOMAIN codes BY <2>1, <2>2, <3>2 DEF Counted
    <3> QED BY <1>1, <2>2, <3>1, <3>2
  <2>6. ASSUME NEW b \in Calls
        PROVE  /\ otp'[b] \in {"matched", "mismatched", "accepted", "failed"} => found'[b] \in DOMAIN codes'
               /\ otp'[b] = "accepted" => codes'[found'[b]].used
    BY <1>1, <1>8, <2>2 DEF CreateCode, OtpGoto, Counted
  <2> QED BY <2>5, <2>6 DEF Counted
<1>9. ASSUME NEW c \in Calls PROVE OtpScope(c) \in Scopes
  BY DEF OtpScope, Scopes
<1>10. ASSUME NEW c \in Calls, Arrive(c) PROVE UNCHANGED otpVars
  BY <1>10 DEF Arrive, Login, BeginByEmail, BeginAuthorized, BeginRefresh, BeginReset
<1>11. ASSUME NEW c \in Calls, Proceed(c), ~CheckCode(c), ~SendCode(c) PROVE UNCHANGED otpVars
  BY <1>11 DEF Proceed, Lookup, FailedAttempt, ClearAttempts, GrantReset, Save, BumpVersion,
               Issue, Deny
<1>12. ASSUME NEW c \in Calls, CheckCode(c) \/ SendCode(c) PROVE Counted'
  BY <1>4, <1>5, <1>6, <1>7, <1>8, <1>9, <1>12 DEF CheckCode, SendCode
<1>13. CASE Unlock \/ Anonymize \/ UNCHANGED vars
  BY <1>3, <1>13 DEF Unlock, Anonymize, vars, otpVars
<1> QED BY <1>3, <1>10, <1>11, <1>12, <1>13 DEF Next

\* A code that was accepted, or guessed wrong as often as allowed, by calls that
\* have finished with it is not accepted any more.
THEOREM SpentCodeRejectedHolds == Spec => SpentCodeRejected
<1>1. Init => Counted
  <2> SUFFICES ASSUME Init PROVE Counted OBVIOUS
  <2>1. otp = [c \in Calls |-> "idle"] BY DEF Init
  <2>2. \A n : WrongGuesses(n) = {} BY <2>1 DEF WrongGuesses
  <2>3. codes \in Seq(Code) BY SessionTypeInit DEF SessionTypeOK, CodeTypeOK
  <2>4. \A n \in DOMAIN codes : codes[n] \in Code BY <2>3, LenProperties
  <2>5. \A n \in DOMAIN codes : codes[n].attempts \in Nat BY <2>4 DEF Code
  <2> QED BY <2>1, <2>2, <2>5, FS_EmptySet DEF Counted
<1>2. SessionTypeOK /\ Counted /\ [Next]_vars => Counted'
  BY CountedStep
<1>3. ASSUME SessionTypeOK, Counted, [Next]_vars, NEW c \in Calls,
             otp[c] = "idle", otp'[c] = "matched"
      PROVE  /\ Cardinality(WrongGuesses(found'[c])) < MaxWrong
             /\ \A b \in Calls : otp[b] = "accepted" => found[b] # found'[c]
  <2>1. PICK s \in Scopes : FindCode(c, s)
    <3>1. ASSUME NEW d \in Calls, Arrive(d) PROVE UNCHANGED otp
      BY <3>1 DEF Arrive, Login, BeginByEmail, BeginAuthorized, BeginRefresh, BeginReset, otpVars
    <3>2. ASSUME NEW d \in Calls, Proceed(d), ~CheckCode(d), ~SendCode(d) PROVE UNCHANGED otp
      BY <3>2 DEF Proceed, Lookup, FailedAttempt, ClearAttempts, GrantReset, Save, BumpVersion,
                  Issue, Deny, otpVars
    <3>3. ASSUME NEW d \in Calls, CheckCode(d) \/ SendCode(d) PROVE FindCode(c, OtpScope(c))
      BY <1>3, <3>3 DEF CheckCode, SendCode, FindCode, CountWrongAttempt, MarkUsed, ExpireAllActive,
                  CreateCode, OtpGoto, SessionTypeOK, CodeTypeOK
    <3>4. CASE Unlock \/ Anonymize \/ UNCHANGED vars
      BY <1>3, <3>4 DEF Unlock, Anonymize, vars, otpVars
    <3>5. OtpScope(c) \in Scopes BY DEF OtpScope, Scopes
    <3> QED BY <1>3, <3>1, <3>2, <3>3, <3>4, <3>5 DEF Next
  <2>2. PICK n \in Newest(s) : found'[c] = n /\ codes[n].attempts < MaxWrong
    BY <1>3, <2>1 DEF FindCode, OtpGoto, SessionTypeOK, CodeTypeOK
  <2>3. n \in DOMAIN codes /\ ~codes[n].used
    BY DEF Newest, ActiveCodes
  <2>4. Cardinality(WrongGuesses(n)) \in Nat /\ codes[n].attempts \in Nat
    <3>1. WrongGuesses(n) \subseteq Calls BY DEF WrongGuesses
    <3>2. codes[n] \in Code BY <1>3, <2>3, LenProperties DEF SessionTypeOK, CodeTypeOK
    <3> QED BY <3>1, <3>2, CodeAssumption, FS_Subset, FS_CardinalityType DEF Code
  <2> QED BY <1>3, <2>2, <2>3, <2>4, CodeAssumption DEF Counted
<1>4. SessionTypeOK /\ Counted /\ [Next]_vars
      => [\A c \in Calls :
            otp[c] = "idle" /\ otp'[c] = "matched" =>
              /\ Cardinality(WrongGuesses(found'[c])) < MaxWrong
              /\ \A b \in Calls : otp[b] = "accepted" => found[b] # found'[c]]_vars
  BY <1>3
<1> QED BY <1>1, <1>2, <1>4, SessionTypeCorrect, PTL DEF Spec, SpentCodeRejected

-----------------------------------------------------------------------------
\* Rotation of refresh tokens

\* A refresh or a logout finishes by putting its token on the denylist, unless
\* Redis fails.
LEMMA DeniedStep ==
    ASSUME SessionTypeOK, Path, Denied, [Next]_vars PROVE Denied'
<1> USE SessionAssumption DEF SessionTypeOK, Path, Denied, Withdrawn
<1>1. ASSUME NEW c \in Calls, Arrive(c) PROVE Denied'
  <2>1. CASE Login(c)
    BY <2>1 DEF Login, Begin, Goto, pairVars, storeVars
  <2>2. CASE BeginByEmail(c)
    BY <2>2 DEF BeginByEmail, Begin, Goto, pairVars, storeVars
  <2>3. CASE BeginAuthorized(c)
    BY <2>3 DEF BeginAuthorized, Begin, Goto, Present, pairVars, storeVars
  <2>4. CASE BeginRefresh(c)
    BY <2>4 DEF BeginRefresh, Begin, Goto, Present, Fault, pairVars, storeVars
  <2>5. CASE BeginReset(c)
    BY <2>5 DEF BeginReset, Begin, Goto, Present, pairVars
  <2> QED BY <1>1, <2>1, <2>2, <2>3, <2>4, <2>5 DEF Arrive
<1>2. ASSUME NEW c \in Calls, Proceed(c) PROVE Denied'
  <2>1. CASE Lookup(c) BY <2>1 DEF Lookup, Goto, pairVars, storeVars
  <2>2. CASE FailedAttempt(c) BY <2>2 DEF FailedAttempt, Goto, Fault, pairVars, storeVars
  <2>3. CASE ClearAttempts(c) BY <2>3 DEF ClearAttempts, Goto, Fault, pairVars, storeVars
  <2>4. CASE CheckCode(c) BY <2>4 DEF CheckCode, Goto, pairVars, storeVars
  <2>5. CASE GrantReset(c) BY <2>5 DEF GrantReset, Goto, pairVars
  <2>6. CASE SendCode(c) BY <2>6 DEF SendCode, Goto, pairVars, storeVars
  <2>7. CASE Save(c) BY <2>7 DEF Save, Goto, pairVars, storeVars
  <2>8. CASE BumpVersion(c) BY <2>8 DEF BumpVersion, Goto, pairVars, storeVars
  <2>9. CASE Issue(c) BY <2>9 DEF Issue, Goto, storeVars
  <2>10. CASE Deny(c) BY <2>10 DEF Deny, Goto, Fault, pairVars
  <2> QED BY <1>2, <2>1, <2>2, <2>3, <2>4, <2>5, <2>6, <2>7, <2>8, <2>9, <2>10 DEF Proceed
<1>3. CASE Unlock \/ Anonymize \/ UNCHANGED vars
  BY <1>3 DEF Unlock, Anonymize, vars, callVars, pairVars, storeVars
<1> QED BY <1>1, <1>2, <1>3 DEF Next

\* As long as Redis did not fail, a refresh token that a finished refresh or
\* logout has withdrawn is not exchanged again.
THEOREM RotatedTokenRejectedHolds == Spec => RotatedTokenRejected
<1>1. Init => Denied
  BY DEF Init, Denied, Withdrawn
<1>2. SessionTypeOK /\ Path /\ Denied /\ [Next]_vars => Denied'
  BY DeniedStep
<1>3. ASSUME SessionTypeOK, Denied, NEW c \in Calls, BeginRefresh(c), Withdrawn(token'[c]), faults' = 0
      PROVE  pc'[c] = "done"
  BY <1>3 DEF BeginRefresh, Begin, Goto, Present, Fault, Denied, SessionTypeOK
<1>4. SessionTypeOK /\ Denied /\ [Next]_vars
      => [\A c \in Calls :
            BeginRefresh(c) /\ Withdrawn(token'[c]) /\ faults' = 0 => pc'[c] = "done"]_vars
  BY <1>3
<1> QED BY <1>1, <1>2, <1>4, PathInvariant, PTL DEF Spec, RotatedTokenRejected
=============================================================================
