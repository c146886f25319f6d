---------------------------- MODULE HttpPipeline ----------------------------
(***************************************************************************)
(* What happens to one request between the router and its answer           *)
(* (interfaces/http): the middleware, what a handler checks before it      *)
(* calls its use case, how the use case's errors become statuses and what  *)
(* the error handler does with what a handler returns.                     *)
(*                                                                         *)
(* A request is not described: each step chooses what it finds in it, and  *)
(* "flaws" remembers what was wrong, "outages" what failed under it.  The  *)
(* use cases are models of their own; of them there are the errors they    *)
(* return.  "Raw" is an error that wraps no error of application/errors.go *)
(* although nothing failed.                                                *)
(***************************************************************************)
EXTENDS Naturals, Sequences

VARIABLES
    route,    \* the endpoint; "none" before a request came
    token,    \* its Bearer token: "absent", "bad", "revoked", "good"
    stage,    \* how far it is
    member,   \* the handler sees a user id
    outcome,  \* what the use case returned
    statuses, \* the statuses written
    flaws, outages

pipelineVars == <<route, token, stage, member, outcome, statuses, flaws, outages>>

-----------------------------------------------------------------------------
(* The handlers: do they verify a captcha, bind a body, check fields       *)
(* themselves, and which errors they know.  Any other error is a 500.      *)

Joined(f, g) == [x \in DOMAIN f \cup DOMAIN g |-> IF x \in DOMAIN f THEN f[x] ELSE g[x]]

Handler(captcha, body, fields, status) ==
    [captcha |-> captcha, body |-> body, fields |-> fields, status |-> status]
Query(status) == Handler(FALSE, FALSE, FALSE, status)
Form(status) == Handler(FALSE, TRUE, FALSE, status)

otpVerifyError == [InvalidOTP |-> 400, OTPExpired |-> 400, OTPMaxAttempts |-> 429]

CreateGuestSession == Form([InvalidInput |-> 400, RateLimited |-> 429])
Register == Handler(TRUE, TRUE, FALSE,
    [InvalidInput |-> 400, EmailAlreadyRegistered |-> 409, PasswordTooShort |-> 400,
     PasswordBreached |-> 400, RateLimited |-> 429])
VerifyEmailOTP == Handler(FALSE, TRUE, TRUE, otpVerifyError)
ResendEmailOTP == Handler(FALSE, TRUE, TRUE, [RateLimited |-> 429])

\* Mutant: a locked account is an error the handler does not know.
LoginForgetsLock == Handler(TRUE, TRUE, TRUE,
    [InvalidCredentials |-> 401, EmailNotVerified |-> 403, RateLimited |-> 429])
Login == Handler(TRUE, TRUE, TRUE,
    [InvalidCredentials |-> 401, AccountLocked |-> 423, EmailNotVerified |-> 403,
     RateLimited |-> 429])
ChangePassword == Form(
    [InvalidInput |-> 400, PasswordConfirmationMismatch |-> 400, PasswordTooShort |-> 400,
     PasswordBreached |-> 400, InvalidCredentials |-> 401])
RefreshToken == Form(
    [InvalidInput |-> 400, TokenVersionMismatch |-> 401, InvalidToken |-> 401])
Logout == Form([InvalidInput |-> 400, InvalidToken |-> 401])
LogoutAll == Query(<<>>)
ForgotPassword == Handler(TRUE, TRUE, FALSE, [InvalidInput |-> 400, RateLimited |-> 429])
VerifyResetOTP == Form(Joined([InvalidInput |-> 400], otpVerifyError))
ResetPassword == Form(
    [InvalidInput |-> 400, PasswordTooShort |-> 400, PasswordBreached |-> 400,
     InvalidToken |-> 401])

UpdateProfile == Form([InvalidInput |-> 400])
GetReferralCode == Query(<<>>)
GetReferralStats == Query(<<>>)
RequestDeletion == Query([DeletionAlreadyRequested |-> 409])
CancelDeletion == Query(
    [NoActiveDeletionRequest |-> 404, DeletionAlreadyProcessing |-> 409])

Submit == Handler(FALSE, TRUE, TRUE,
    [InvalidInput |-> 400, IdempotencyKeyReused |-> 409, LockNotAcquired |-> 423,
     QuotaExceeded |-> 429, RateLimited |-> 429])

handleResultError ==
    [InvalidInput |-> 400, ResultNotFound |-> 404, Forbidden |-> 403, PDFNotReady |-> 409]
GetQuestions == Query(<<>>)
GetResult == Query(handleResultError)
UpdateMascotStyle == Form(handleResultError)
GetPDFStatus == Query(handleResultError)
GetPDF == Query(handleResultError)
GetDashboard == Query(<<>>)
GetHistory == Query(<<>>)
HealthCheck == Query([Unhealthy |-> 503])

-----------------------------------------------------------------------------
(* The routes: with RequireAuth, with OptionalAuth and without.            *)

Public ==
    [guestSession |-> CreateGuestSession, register |-> Register,
     verifyEmail |-> VerifyEmailOTP, resendEmail |-> ResendEmailOTP, login |-> Login,
     refresh |-> RefreshToken, forgot |-> ForgotPassword, verifyReset |-> VerifyResetOTP,
     reset |-> ResetPassword, questions |-> GetQuestions, health |-> HealthCheck]
MemberOnly ==
    [logout |-> Logout, logoutAll |-> LogoutAll, changePassword |-> ChangePassword,
     profile |-> UpdateProfile, referralCode |-> GetReferralCode,
     referralStats |-> GetReferralStats, requestDeletion |-> RequestDeletion,
     cancelDeletion |-> CancelDeletion, dashboard |-> GetDashboard, history |-> GetHistory]
GuestOrMember ==
    [submit |-> Submit, result |-> GetResult, mascot |-> UpdateMascotStyle,
     pdfStatus |-> GetPDFStatus, pdf |-> GetPDF]
csrfProtectedPaths == {"submit", "profile", "requestDeletion", "cancelDeletion"}

Router == Joined(Public, Joined(MemberOnly, GuestOrMember))
H == Router[route]

-----------------------------------------------------------------------------
(* The errors the use cases return.                                        *)

PasswordPolicy == {"InvalidInput", "PasswordTooShort", "PasswordBreached"}
OtpErrors == {"InvalidOTP", "OTPExpired", "OTPMaxAttempts"}

\* A password of more than 72 bytes is an error of bcrypt, a duplicate e-mail
\* one of the index.
CreateGuestSessionRaises == {"InvalidInput", "RateLimited"}
RegisterRaises == PasswordPolicy \cup {"EmailAlreadyRegistered", "RateLimited", "Raw"}
ResendEmailRaises == {"InvalidInput", "RateLimited"}
ForgotPasswordRaises == {"InvalidInput", "RateLimited"}

LoginRaises == {"InvalidCredentials", "AccountLocked", "EmailNotVerified", "RateLimited"}
VerifyEmailRaises == OtpErrors
RefreshRaises == {"InvalidInput", "TokenVersionMismatch", "InvalidToken"}
LogoutRaises == {"InvalidInput", "InvalidToken"}
VerifyResetRaises == OtpErrors \cup {"InvalidInput"}
ResetPasswordRaises == PasswordPolicy \cup {"InvalidToken", "Raw"}
ChangePasswordRaises ==
    PasswordPolicy \cup {"PasswordConfirmationMismatch", "InvalidCredentials", "Raw"}

\* The member can be anonymized after the middleware has looked it up; every
\* referral code that was tried can be taken.
UpdateProfileRaises == {"InvalidInput", "Raw"}
ReferralCodeRaises == {"Raw"}
RequestDeletionRaises == {"DeletionAlreadyRequested", "Raw"}
CancelDeletionRaises == {"NoActiveDeletionRequest", "DeletionAlreadyProcessing"}

\* An id or a cookie that is no UUID is an error of the database.
SubmitRaises == {"InvalidInput", "RateLimited", "IdempotencyKeyReused", "LockNotAcquired",
                 "QuotaExceeded", "Raw"}
GetResultRaises == {"ResultNotFound", "Raw"}
UpdateMascotRaises == {"InvalidInput", "ResultNotFound", "Forbidden", "Raw"}
PdfStatusRaises == {"ResultNotFound", "Forbidden", "Raw"}
DownloadPdfRaises == PdfStatusRaises \cup {"PDFNotReady"}

\* Which use case a route runs.
AccountRaises ==
    [guestSession |-> CreateGuestSessionRaises, register |-> RegisterRaises,
     resendEmail |-> ResendEmailRaises, forgot |-> ForgotPasswordRaises]
SessionRaises ==
    [login |-> LoginRaises, verifyEmail |-> VerifyEmailRaises, refresh |-> RefreshRaises,
     logout |-> LogoutRaises, verifyReset |-> VerifyResetRaises,
     reset |-> ResetPasswordRaises, changePassword |-> ChangePasswordRaises]
ProfileRaises ==
    [profile |-> UpdateProfileRaises, referralCode |-> ReferralCodeRaises,
     requestDeletion |-> RequestDeletionRaises, cancelDeletion |-> CancelDeletionRaises]
AssessmentRaises ==
    [submit |-> SubmitRaises, result |-> GetResultRaises, mascot |-> UpdateMascotRaises,
     pdfStatus |-> PdfStatusRaises, pdf |-> DownloadPdfRaises]
SomeRaises ==
    Joined(Joined(AccountRaises, SessionRaises), Joined(ProfileRaises, AssessmentRaises))
Raises == Joined(SomeRaises, [r \in DOMAIN Router |-> {}])

-----------------------------------------------------------------------------
PipelineTypeOK ==
    /\ route \in DOMAIN Router \cup {"none"}
    /\ token \in {"absent", "bad", "revoked", "good"} /\ member \in BOOLEAN
    /\ stage \in {"idle", "csrf", "locale", "auth", "bind", "captcha", "fields",
                  "useCase", "returned", "over"}
    /\ statuses \in Seq(200 .. 599)

PipelineInit ==
    /\ route = "none" /\ token = "absent" /\ stage = "idle" /\ member = FALSE
    /\ outcome = "none" /\ statuses = <<>> /\ flaws = {} /\ outages = {}

\* A handler that answers and returns nil is done; one that returns an error,
\* errResponseWritten or another, leaves it to the error handler.
Write(status) == statuses' = Append(statuses, status) /\ stage' = "over"
WriteAndReturn(status) == statuses' = Append(statuses, status) /\ stage' = "returned"
Pass(next) == stage' = next /\ UNCHANGED <<statuses, flaws>>
Refuse(flaw, status) == flaws' = flaws \cup {flaw} /\ Write(status)
RefuseAndReturn(flaw, status) == flaws' = flaws \cup {flaw} /\ WriteAndReturn(status)

Arrive ==
    /\ stage = "idle"
    /\ route' \in DOMAIN Router /\ token' \in {"absent", "bad", "revoked", "good"}
    /\ stage' = "csrf"
    /\ UNCHANGED <<member, outcome, statuses, flaws, outages>>

\* 404, 405 and 413: errors of the framework, which the error handler writes.
Unroutable ==
    /\ stage = "csrf"
    /\ \E status \in {404, 405, 413} : RefuseAndReturn("route", status)
    /\ UNCHANGED <<route, token, member, outcome, outages>>

CheckCsrf ==
    /\ stage = "csrf"
    /\ \/ Pass("locale")
       \/ route \in csrfProtectedPaths /\ Refuse("csrf", 403)
    /\ UNCHANGED <<route, token, member, outcome, outages>>

\* What is settled on is data; a failed lookup of the member is only logged.
Negotiate ==
    /\ stage = "locale" /\ Pass("auth")
    /\ \/ UNCHANGED outages
       \/ token \in {"revoked", "good"} /\ outages' = outages \cup {"locale"}
    /\ UNCHANGED <<route, token, member, outcome>>

NeedsNoUser ==
    /\ stage = "auth" /\ route \in DOMAIN Public /\ Pass("bind")
    /\ UNCHANGED <<route, token, member, outcome, outages>>

RequireAuth ==
    /\ stage = "auth" /\ route \in DOMAIN MemberOnly
    /\ \/ token = "good" /\ member' = TRUE /\ Pass("bind") /\ UNCHANGED outages
       \/ token # "good" /\ Refuse("token", 401) /\ UNCHANGED <<member, outages>>
       \/ /\ token \in {"revoked", "good"}
          /\ outages' = outages \cup {"auth"} /\ Write(500) /\ UNCHANGED <<member, flaws>>
    /\ UNCHANGED <<route, token, outcome>>

OptionalAuth ==
    /\ stage = "auth" /\ route \in DOMAIN GuestOrMember /\ Pass("bind")
    /\ \/ member' = (token = "good") /\ UNCHANGED outages
       \/ token \in {"revoked", "good"} /\ outages' = outages \cup {"auth"} /\ UNCHANGED member
    /\ UNCHANGED <<route, token, outcome>>

bindJSON ==
    /\ stage = "bind"
    /\ \/ Pass("captcha")
       \/ H.body /\ RefuseAndReturn("body", 400)
    /\ UNCHANGED <<route, token, member, outcome, outages>>

\* Turnstile that cannot be reached lets the request pass.
verifyTurnstile ==
    /\ stage = "captcha"
    /\ \/ Pass("fields") /\ UNCHANGED outages
       \/ H.captcha /\ Pass("fields") /\ outages' = outages \cup {"turnstile"}
       \/ H.captcha /\ RefuseAndReturn("captcha", 400) /\ UNCHANGED outages
    /\ UNCHANGED <<route, token, member, outcome>>

\* Submit wants an Idempotency-Key and, of a guest, the session cookie.
CheckFields ==
    /\ stage = "fields"
    /\ \/ Pass("useCase")
       \/ H.fields /\ Refuse("fields", 400)
       \/ route = "submit" /\ ~member /\ Write(400) /\ UNCHANGED flaws
    /\ UNCHANGED <<route, token, member, outcome, outages>>

\* The use case returns and the handler answers.
Serve ==
    /\ stage = "useCase"
    /\ \E error \in Raises[route] :
          /\ outcome' = error
          /\ LET status == IF error \in DOMAIN H.status THEN H.status[error] ELSE 500
             IN  IF error \in OtpErrors THEN WriteAndReturn(status) ELSE Write(status)
    /\ UNCHANGED <<route, token, member, flaws, outages>>

ServeWell ==
    /\ stage = "useCase" /\ outcome' = "ok"
    /\ Write(IF route \in {"register", "guestSession"} THEN 201 ELSE 200)
    /\ UNCHANGED <<route, token, member, flaws, outages>>

\* The stream of a PDF breaks after its header was sent.
StreamBreaks ==
    /\ stage = "useCase" /\ route = "pdf" /\ outcome' = "ok"
    /\ WriteAndReturn(200) /\ outages' = outages \cup {"stream"}
    /\ UNCHANGED <<route, token, member, flaws>>

\* A dependency fails under the use case; /healthz says so.
ServeFails ==
    /\ stage = "useCase" /\ outcome' = "failed" /\ outages' = outages \cup {"useCase"}
    /\ Write(IF route = "health" THEN HealthCheck.status["Unhealthy"] ELSE 500)
    /\ UNCHANGED <<route, token, member, flaws>>

\* Recover hands a panic to the error handler.
Panic ==
    /\ stage \notin {"idle", "returned", "over"} /\ stage' = "returned"
    /\ outages' = outages \cup {"panic"}
    /\ UNCHANGED <<route, token, member, outcome, statuses, flaws>>

\* HTTPErrorHandler: a response that is committed stays as it is.
HandleError ==
    /\ stage = "returned" /\ stage' = "over"
    /\ statuses' = IF statuses = <<>> THEN <<500>> ELSE statuses
    /\ UNCHANGED <<route, token, member, outcome, flaws, outages>>

PipelineNext ==
    \/ Arrive \/ Unroutable \/ CheckCsrf \/ Negotiate
    \/ NeedsNoUser \/ RequireAuth \/ OptionalAuth
    \/ bindJSON \/ verifyTurnstile \/ CheckFields
    \/ Serve \/ ServeWell \/ StreamBreaks \/ ServeFails \/ Panic \/ HandleError

PipelineSpec == PipelineInit /\ [][PipelineNext]_pipelineVars

-----------------------------------------------------------------------------
(* Property *)

\* A request gets one answer, and the status tells the truth: 2xx if and only
\* if the use case went through; 5xx only after an outage or an error that is
\* none of the application's (and the invalid e-mail ResendEmailOTP does not
\* know); 4xx only for a flaw of the request or an error the use case named,
\* so no outage refuses anyone, but for a member's submission whose identity
\* OptionalAuth could not look up.
TellsTheTruth(status) ==
    /\ outcome = "ok" <=> status \in 200 .. 299
    /\ status >= 500 =>
          \/ outages \cap {"auth", "useCase", "panic"} # {}
          \/ outcome = "Raw"
          \/ route = "resendEmail" /\ outcome = "InvalidInput"
    /\ status \in 400 .. 499 =>
          \/ flaws # {} \/ outcome \in Raises[route] \ {"Raw"}
          \/ route = "submit" /\ (token # "good" \/ "auth" \in outages)

HonestAnswers ==
    stage = "over" => Len(statuses) = 1 /\ TellsTheTruth(statuses[1])
=============================================================================
