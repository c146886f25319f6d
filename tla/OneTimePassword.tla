--------------------------- MODULE OneTimePassword ---------------------------
(***************************************************************************)
(* The six-digit codes of internal/application/auth (account.go) in the    *)
(* verification_tokens table, for one account: sending a code, and         *)
(* validateOTPAttempt with the MarkUsed of its callers.  Each database     *)
(* operation is a step of its own.                                         *)
(*                                                                         *)
(* A code is its row's position in the table, in the order of created_at.  *)
(* Whether the digits a client presents are right is a free choice.  The   *)
(* 15 minutes of a code and the send limiter only stop a call, which may   *)
(* stop anywhere: there is no fairness.                                    *)
(***************************************************************************)
EXTENDS Naturals, Sequences, FiniteSets

CONSTANTS
    Calls,         \* API calls, each of one operation
    MaxWrong       \* MaxWrongOTPAttempts

ASSUME CodeAssumption == MaxWrong \in Nat \ {0} /\ IsFiniteSet(Calls)

VARIABLES
    codes,   \* the rows of verification_tokens
    otp,     \* otp[c]: how far call c is with its code
    found    \* found[c]: the code it looked up, 0 if none

otpVars == <<codes, otp, found>>

Scopes == {"email_verification", "password_reset"}
Code == [scope : Scopes, attempts : Nat, used : BOOLEAN, expired : BOOLEAN]

\* "expired" of a call: it expired the older codes, its own is still to come.
OtpPhase == {"idle", "matched", "mismatched", "accepted", "failed", "refused",
             "expired", "sent"}

CodeTypeOK ==
    /\ codes \in Seq(Code)
    /\ otp \in [Calls -> OtpPhase]
    /\ found \in [Calls -> 0 .. Len(codes)]

NewCode(s) == [scope |-> s, attempts |-> 0, used |-> FALSE, expired |-> FALSE]
OtpGoto(c, step) == otp' = [otp EXCEPT ![c] = step]

\* FindActiveByUserAndType
ActiveCodes(s) ==
    {n \in DOMAIN codes : codes[n].scope = s /\ ~codes[n].used /\ ~codes[n].expired}

\* The one that FindActiveByUserAndType returns, if there is any.
Newest(s) == {n \in ActiveCodes(s) : \A m \in ActiveCodes(s) : m <= n}

-----------------------------------------------------------------------------
\* validateOTPAttempt, up to IncrementAttemptCount

\* Mutant: one wrong attempt too many.
FindCodeOffByOne(c, s) ==
    /\ otp[c] = "idle"
    /\ \E n \in Newest(s) :
          /\ codes[n].attempts <= MaxWrong
          /\ found' = [found EXCEPT ![c] = n]
    /\ OtpGoto(c, "matched") \/ OtpGoto(c, "mismatched")
    /\ UNCHANGED codes

\* The attempt limit and the digits are compared on the row as it was read.
FindCode(c, s) ==
    /\ otp[c] = "idle"
    /\ \/ Newest(s) = {} /\ OtpGoto(c, "refused") /\ UNCHANGED found
       \/ \E n \in Newest(s) :
             /\ found' = [found EXCEPT ![c] = n]
             /\ \/ codes[n].attempts >= MaxWrong /\ OtpGoto(c, "refused")
                \/ /\ codes[n].attempts < MaxWrong
                   /\ OtpGoto(c, "matched") \/ OtpGoto(c, "mismatched")
    /\ UNCHANGED codes

CountWrongAttempt(c) ==
    /\ otp[c] = "mismatched"
    /\ codes' = [codes EXCEPT ![found[c]].attempts = @ + 1]
    /\ OtpGoto(c, "failed")
    /\ UNCHANGED found

\* Unconditional, whoever has used the code meanwhile.
MarkUsed(c) ==
    /\ otp[c] = "matched"
    /\ codes' = [codes EXCEPT ![found[c]].used = TRUE]
    /\ OtpGoto(c, "accepted")
    /\ UNCHANGED found

-----------------------------------------------------------------------------
\* ResendEmailOTP and ForgotPassword, after their lookup of the user

ExpireAllActive(c, s) ==
    /\ otp[c] = "idle"
    /\ codes' = [n \in DOMAIN codes |->
                    [codes[n] EXCEPT !.expired = @ \/ n \in ActiveCodes(s)]]
    /\ OtpGoto(c, "expired")
    /\ UNCHANGED found

CreateCode(c, s) ==
    /\ otp[c] = "expired"
    /\ codes' = Append(codes, NewCode(s))
    /\ OtpGoto(c, "sent")
    /\ UNCHANGED found
=============================================================================
