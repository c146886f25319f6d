--------------------------- MODULE Endpoints_proofs ---------------------------
(***************************************************************************)
(* Proofs about HttpPipeline, Dashboard and Scoring, for any templates,    *)
(* scores, limits and question bank and a history of any length, and about *)
(* the composition of the endpoints.  Registration_proofs and              *)
(* Limits_proofs have the other parts.                                     *)
(***************************************************************************)
EXTENDS Endpoints, Registration_proofs, Limits_proofs, WellFoundedInduction, TLAPS

(***************************************************************************)
(* Requests.  The tables of the handlers come first: whatever a use case   *)
(* returns, its handler answers 4xx if it knows the error and 500 if not,  *)
(* and it knows every error but those that wrap none of the application's  *)
(* and the invalid e-mail of ResendEmailOTP.                               *)
(***************************************************************************)
Unknown(r, error) == error = "Raw" \/ (r = "resendEmail" /\ error = "InvalidInput")

StatusOf(r, error) ==
    LET known == Router[r].status
    IN  IF error \in DOMAIN known THEN known[error] ELSE 500

Classified(r, error) ==
    /\ error # "ok"
    /\ Unknown(r, error) => StatusOf(r, error) = 500
    /\ ~Unknown(r, error) => StatusOf(r, error) \in 400 .. 499

LEMMA AccountErrors ==
  \A r \in DOMAIN AccountRaises : \A error \in AccountRaises[r] : Classified(r, error)
<1> USE DEF Router, Joined, Public, Handler, Form, Classified, Unknown, StatusOf, AccountRaises
<1>1. \A error \in AccountRaises["guestSession"] : Classified("guestSession", error)
  BY DEF CreateGuestSession, CreateGuestSessionRaises
<1>2. \A error \in AccountRaises["register"] : Classified("register", error)
  BY DEF Register, RegisterRaises, PasswordPolicy
<1>3. \A error \in AccountRaises["resendEmail"] : Classified("resendEmail", error)
  BY DEF ResendEmailOTP, ResendEmailRaises
<1>4. \A error \in AccountRaises["forgot"] : Classified("forgot", error)
  BY DEF ForgotPassword, ForgotPasswordRaises
<1>5. DOMAIN AccountRaises = {"guestSession", "register", "resendEmail", "forgot"}
  OBVIOUS
<1> HIDE DEF Classified, AccountRaises
<1>6. QED
  BY <1>1, <1>2, <1>3, <1>4, <1>5

LEMMA SessionErrors ==
  \A r \in DOMAIN SessionRaises : \A error \in SessionRaises[r] : Classified(r, error)
<1> USE DEF Router, Joined, Public, MemberOnly, Handler, Form, Classified, Unknown, StatusOf,
        SessionRaises, PasswordPolicy, OtpErrors, otpVerifyError
<1>1. \A error \in SessionRaises["login"] : Classified("login", error)
  BY DEF Login, LoginRaises
<1>2. \A error \in SessionRaises["verifyEmail"] : Classified("verifyEmail", error)
  BY DEF VerifyEmailOTP, VerifyEmailRaises
<1>3. \A error \in SessionRaises["refresh"] : Classified("refresh", error)
  BY DEF RefreshToken, RefreshRaises
<1>4. \A error \in SessionRaises["logout"] : Classified("logout", error)
  BY DEF Logout, LogoutRaises
<1>5. \A error \in SessionRaises["verifyReset"] : Classified("verifyReset", error)
  BY DEF VerifyResetOTP, VerifyResetRaises
<1>6. \A error \in SessionRaises["reset"] : Classified("reset", error)
  BY DEF ResetPassword, ResetPasswordRaises
<1>7. \A error \in SessionRaises["changePassword"] : Classified("changePassword", error)
  BY DEF ChangePassword, ChangePasswordRaises
<1>8. DOMAIN SessionRaises = {"login", "verifyEmail", "refresh", "logout", "verifyReset",
                              "reset", "changePassword"}
  OBVIOUS
<1> HIDE DEF Classified, SessionRaises
<1>9. QED
  BY <1>1, <1>2, <1>3, <1>4, <1>5, <1>6, <1>7, <1>8

LEMMA ProfileErrors ==
  \A r \in DOMAIN ProfileRaises : \A error \in ProfileRaises[r] : Classified(r, error)
<1> USE DEF Router, Joined, Public, MemberOnly, Handler, Form, Query, Classified, Unknown,
        StatusOf, ProfileRaises
<1>1. \A error \in ProfileRaises["profile"] : Classified("profile", error)
  BY DEF UpdateProfile, UpdateProfileRaises
<1>2. \A error \in ProfileRaises["referralCode"] : Classified("referralCode", error)
  BY DEF GetReferralCode, ReferralCodeRaises
<1>3. \A error \in ProfileRaises["requestDeletion"] : Classified("requestDeletion", error)
  BY DEF RequestDeletion, RequestDeletionRaises
<1>4. \A error \in ProfileRaises["cancelDeletion"] : Classified("cancelDeletion", error)
  BY DEF CancelDeletion, CancelDeletionRaises
<1>5. DOMAIN ProfileRaises = {"profile", "referralCode", "requestDeletion", "cancelDeletion"}
  OBVIOUS
<1> HIDE DEF Classified, ProfileRaises
<1>6. QED
  BY <1>1, <1>2, <1>3, <1>4, <1>5

LEMMA AssessmentErrors ==
  \A r \in DOMAIN AssessmentRaises : \A error \in AssessmentRaises[r] : Classified(r, error)
<1> USE DEF Router, Joined, Public, MemberOnly, GuestOrMember, Handler, Form, Query,
        Classified, Unknown, StatusOf, AssessmentRaises, handleResultError
<1>1. \A error \in AssessmentRaises["submit"] : Classified("submit", error)
  BY DEF Submit, SubmitRaises
<1>2. \A error \in AssessmentRaises["result"] : Classified("result", error)
  BY DEF GetResult, GetResultRaises
<1>3. \A error \in AssessmentRaises["mascot"] : Classified("mascot", error)
  BY DEF UpdateMascotStyle, UpdateMascotRaises
<1>4. \A error \in AssessmentRaises["pdfStatus"] : Classified("pdfStatus", error)
  BY DEF GetPDFStatus, PdfStatusRaises
<1>5. \A error \in AssessmentRaises["pdf"] : Classified("pdf", error)
  BY DEF GetPDF, DownloadPdfRaises, PdfStatusRaises
<1>6. DOMAIN AssessmentRaises = {"submit", "result", "mascot", "pdfStatus", "pdf"}
  OBVIOUS
<1> HIDE DEF Classified, AssessmentRaises
<1>7. QED
  BY <1>1, <1>2, <1>3, <1>4, <1>5, <1>6

LEMMA ErrorsAreClassified ==
  ASSUME NEW r \in DOMAIN Router, NEW error \in Raises[r]
  PROVE  Classified(r, error)
<1>1. Raises[r] = IF r \in DOMAIN SomeRaises THEN SomeRaises[r] ELSE {}
  BY DEF Raises, Joined
<1>2. r \in DOMAIN SomeRaises /\ error \in SomeRaises[r]
  BY <1>1
<1>3. \/ r \in DOMAIN AccountRaises /\ error \in AccountRaises[r]
      \/ r \in DOMAIN SessionRaises /\ error \in SessionRaises[r]
      \/ r \in DOMAIN ProfileRaises /\ error \in ProfileRaises[r]
      \/ r \in DOMAIN AssessmentRaises /\ error \in AssessmentRaises[r]
  BY <1>2 DEF SomeRaises, Joined
<1>4. QED
  BY <1>3, AccountErrors, SessionErrors, ProfileErrors, AssessmentErrors

(***************************************************************************)
(* A request that is under way has written nothing and its use case has    *)
(* returned nothing.  A handler that sees no user id, behind OptionalAuth, *)
(* was sent no good token, or the middleware could not look it up.  What   *)
(* was written tells the truth, and what was left to the error handler     *)
(* without an answer is a panic.                                           *)
(***************************************************************************)
UnderWayStage == {"csrf", "locale", "auth", "bind", "captcha", "fields", "useCase"}

Routed == stage # "idle" => route \in DOMAIN Router

Unanswered ==
    stage \notin {"returned", "over"} => statuses = <<>> /\ outcome = "none"

GuestsAreGuests ==
    stage \in {"bind", "captcha", "fields", "useCase"} /\ route \in DOMAIN GuestOrMember
       /\ ~member => token # "good" \/ "auth" \in outages

Truthful == Len(statuses) = 1 /\ TellsTheTruth(statuses[1])

PanicsAreLeft ==
    stage = "returned" => \/ Truthful
                          \/ statuses = <<>> /\ outcome = "none" /\ "panic" \in outages

PipelineIInv ==
    /\ PipelineTypeOK /\ Routed /\ Unanswered /\ GuestsAreGuests
    /\ PanicsAreLeft /\ HonestAnswers

LEMMA PipelineInitially == PipelineInit => PipelineIInv
<1> SUFFICES ASSUME PipelineInit PROVE PipelineIInv
  OBVIOUS
<1>1. PipelineTypeOK
  <2>1. member \in BOOLEAN
    BY Zenon DEF PipelineInit
  <2>2. QED
    BY <2>1 DEF PipelineInit, PipelineTypeOK
<1>2. Routed /\ Unanswered /\ GuestsAreGuests /\ PanicsAreLeft /\ HonestAnswers
  BY DEF PipelineInit, Routed, Unanswered, GuestsAreGuests, PanicsAreLeft, HonestAnswers
<1>3. QED
  BY <1>1, <1>2 DEF PipelineIInv

\* A step that answers: the status has to tell the truth about what the step
\* leaves behind.
LEMMA AnsweringStep ==
  ASSUME PipelineIInv, stage \in UnderWayStage, NEW status \in 200 .. 599,
         statuses' = <<status>>, stage' \in {"returned", "over"},
         UNCHANGED <<route, token>>, member' \in BOOLEAN, Truthful'
  PROVE  PipelineIInv'
<1>1. statuses' \in Seq(200 .. 599)
  OBVIOUS
<1>2. PipelineTypeOK'
  BY <1>1 DEF PipelineIInv, PipelineTypeOK
<1>3. Routed' /\ Unanswered' /\ GuestsAreGuests'
  BY DEF PipelineIInv, Routed, Unanswered, GuestsAreGuests, UnderWayStage
<1>4. PanicsAreLeft' /\ HonestAnswers'
  BY DEF PanicsAreLeft, HonestAnswers, Truthful
<1>5. QED
  BY <1>2, <1>3, <1>4 DEF PipelineIInv

\* A step that answers nothing yet.
LEMMA PassingStep ==
  ASSUME PipelineIInv, stage \in UnderWayStage \cup {"idle"}, stage' \in UnderWayStage,
         UNCHANGED <<statuses, outcome>>, route' \in DOMAIN Router,
         token' \in {"absent", "bad", "revoked", "good"}, member' \in BOOLEAN,
         GuestsAreGuests'
  PROVE  PipelineIInv'
<1>1. PipelineTypeOK'
  BY DEF PipelineIInv, PipelineTypeOK, UnderWayStage
<1>2. Routed' /\ Unanswered' /\ PanicsAreLeft' /\ HonestAnswers'
  BY DEF PipelineIInv, Routed, Unanswered, PanicsAreLeft, HonestAnswers, UnderWayStage
<1>3. QED
  BY <1>1, <1>2 DEF PipelineIInv

LEMMA PipelineInductive == PipelineIInv /\ [PipelineNext]_pipelineVars => PipelineIInv'
<1> SUFFICES ASSUME PipelineIInv, [PipelineNext]_pipelineVars
             PROVE  PipelineIInv'
  OBVIOUS
<1>0. /\ stage \in UnderWayStage => route \in DOMAIN Router
      /\ stage \in UnderWayStage => statuses = <<>> /\ outcome = "none"
      /\ token \in {"absent", "bad", "revoked", "good"}
      /\ member \in BOOLEAN
  BY DEF PipelineIInv, PipelineTypeOK, Routed, Unanswered, UnderWayStage
<1>1. CASE Arrive
  BY <1>1, <1>0, PassingStep DEF Arrive, UnderWayStage, GuestsAreGuests
<1>2. CASE Unroutable
  <2>1. PICK status \in {404, 405, 413} : RefuseAndReturn("route", status)
    BY <1>2 DEF Unroutable
  <2>2. statuses' = <<status>> /\ stage' = "returned" /\ flaws' # {}
    BY <1>2, <1>0, <2>1 DEF Unroutable, RefuseAndReturn, WriteAndReturn, UnderWayStage
  <2>3. Truthful'
    BY <1>2, <1>0, <2>2 DEF Unroutable, Truthful, TellsTheTruth, UnderWayStage
  <2>4. QED
    BY <1>2, <1>0, <2>2, <2>3, AnsweringStep DEF Unroutable, UnderWayStage
<1>3. CASE CheckCsrf
  <2>1. CASE Pass("locale")
    BY <1>3, <1>0, <2>1, PassingStep DEF CheckCsrf, Pass, UnderWayStage, GuestsAreGuests
  <2>2. CASE Refuse("csrf", 403)
    <3>1. statuses' = <<403>> /\ stage' = "over" /\ flaws' # {}
      BY <1>3, <1>0, <2>2 DEF CheckCsrf, Refuse, Write, UnderWayStage
    <3>2. Truthful'
      BY <1>3, <1>0, <3>1 DEF CheckCsrf, Truthful, TellsTheTruth, UnderWayStage
    <3>3. QED
      BY <1>3, <1>0, <3>1, <3>2, AnsweringStep DEF CheckCsrf, UnderWayStage
  <2>3. QED
    BY <1>3, <2>1, <2>2 DEF CheckCsrf
<1>4. CASE Negotiate
  BY <1>4, <1>0, PassingStep DEF Negotiate, Pass, UnderWayStage, GuestsAreGuests
<1>5. CASE NeedsNoUser
  <2>1. GuestsAreGuests'
    <3>1. \A r \in DOMAIN Public : r \notin DOMAIN GuestOrMember
      BY DEF Public, GuestOrMember
    <3>2. QED
      BY <1>5, <3>1 DEF NeedsNoUser, GuestsAreGuests
  <2>2. QED
    BY <1>5, <1>0, <2>1, PassingStep DEF NeedsNoUser, Pass, UnderWayStage
<1>6. CASE RequireAuth
  <2>1. CASE token = "good" /\ member' = TRUE /\ Pass("bind")
    BY <1>6, <1>0, <2>1, PassingStep DEF RequireAuth, Pass, UnderWayStage, GuestsAreGuests
  <2>2. CASE token # "good" /\ Refuse("token", 401) /\ UNCHANGED <<member, outages>>
    <3>1. statuses' = <<401>> /\ stage' = "over" /\ flaws' # {}
      BY <1>6, <1>0, <2>2 DEF RequireAuth, Refuse, Write, UnderWayStage
    <3>2. Truthful'
      BY <1>6, <1>0, <3>1 DEF RequireAuth, Truthful, TellsTheTruth, UnderWayStage
    <3>3. QED
      BY <1>6, <1>0, <2>2, <3>1, <3>2, AnsweringStep DEF RequireAuth, UnderWayStage
  <2>3. CASE outages' = outages \cup {"auth"} /\ Write(500) /\ UNCHANGED <<member, flaws>>
    <3>1. statuses' = <<500>> /\ stage' = "over"
      BY <1>6, <1>0, <2>3 DEF RequireAuth, Write, UnderWayStage
    <3>2. Truthful'
      BY <1>6, <1>0, <2>3, <3>1 DEF RequireAuth, Truthful, TellsTheTruth, UnderWayStage
    <3>3. QED
      BY <1>6, <1>0, <2>3, <3>1, <3>2, AnsweringStep DEF RequireAuth, UnderWayStage
  <2>4. QED
    BY <1>6, <2>1, <2>2, <2>3 DEF RequireAuth
<1>7. CASE OptionalAuth
  <2>1. stage = "auth" /\ stage' = "bind" /\ UNCHANGED <<statuses, route, token, outcome>>
    BY <1>7 DEF OptionalAuth, Pass
  <2>2. member' \in BOOLEAN
    BY <1>7, <1>0, Zenon DEF OptionalAuth
  <2>3. (~member' => token # "good") \/ "auth" \in outages'
    BY <1>7 DEF OptionalAuth
  <2>4. QED
    BY <1>0, <2>1, <2>2, <2>3, PassingStep DEF UnderWayStage, GuestsAreGuests
<1>8. CASE bindJSON
  <2>1. CASE Pass("captcha")
    BY <1>8, <1>0, <2>1, PassingStep
       DEF bindJSON, Pass, UnderWayStage, GuestsAreGuests, PipelineIInv
  <2>2. CASE RefuseAndReturn("body", 400)
    <3>1. statuses' = <<400>> /\ stage' = "returned" /\ flaws' # {}
      BY <1>8, <1>0, <2>2 DEF bindJSON, RefuseAndReturn, WriteAndReturn, UnderWayStage
    <3>2. Truthful'
      BY <1>8, <1>0, <3>1 DEF bindJSON, Truthful, TellsTheTruth, UnderWayStage
    <3>3. QED
      BY <1>8, <1>0, <3>1, <3>2, AnsweringStep DEF bindJSON, UnderWayStage
  <2>3. QED
    BY <1>8, <2>1, <2>2 DEF bindJSON
<1>9. CASE verifyTurnstile
  <2>1. CASE Pass("fields")
    BY <1>9, <1>0, <2>1, PassingStep
       DEF verifyTurnstile, Pass, UnderWayStage, GuestsAreGuests, PipelineIInv
  <2>2. CASE RefuseAndReturn("captcha", 400)
    <3>1. statuses' = <<400>> /\ stage' = "returned" /\ flaws' # {}
      BY <1>9, <1>0, <2>2 DEF verifyTurnstile, RefuseAndReturn, WriteAndReturn, UnderWayStage
    <3>2. Truthful'
      BY <1>9, <1>0, <3>1 DEF verifyTurnstile, Truthful, TellsTheTruth, UnderWayStage
    <3>3. QED
      BY <1>9, <1>0, <3>1, <3>2, AnsweringStep DEF verifyTurnstile, UnderWayStage
  <2>3. QED
    BY <1>9, <2>1, <2>2 DEF verifyTurnstile
<1>10. CASE CheckFields
  <2>1. CASE Pass("useCase")
    BY <1>10, <1>0, <2>1, PassingStep
       DEF CheckFields, Pass, UnderWayStage, GuestsAreGuests, PipelineIInv
  <2>2. CASE Refuse("fields", 400)
    <3>1. statuses' = <<400>> /\ stage' = "over" /\ flaws' # {}
      BY <1>10, <1>0, <2>2 DEF CheckFields, Refuse, Write, UnderWayStage
    <3>2. Truthful'
      BY <1>10, <1>0, <3>1 DEF CheckFields, Truthful, TellsTheTruth, UnderWayStage
    <3>3. QED
      BY <1>10, <1>0, <3>1, <3>2, AnsweringStep DEF CheckFields, UnderWayStage
  <2>3. CASE route = "submit" /\ ~member /\ Write(400) /\ UNCHANGED flaws
    <3>1. token # "good" \/ "auth" \in outages
      BY <1>10, <2>3 DEF CheckFields, PipelineIInv, GuestsAreGuests, GuestOrMember
    <3>2. statuses' = <<400>> /\ stage' = "over"
      BY <1>10, <1>0, <2>3 DEF CheckFields, Write, UnderWayStage
    <3>3. Truthful'
      BY <1>10, <1>0, <2>3, <3>1, <3>2
         DEF CheckFields, Truthful, TellsTheTruth, UnderWayStage
    <3>4. QED
      BY <1>10, <1>0, <3>2, <3>3, AnsweringStep DEF CheckFields, UnderWayStage
  <2>4. QED
    BY <1>10, <2>1, <2>2, <2>3 DEF CheckFields
<1>11. CASE Serve
  <2>1. /\ stage = "useCase" /\ statuses = <<>> /\ route \in DOMAIN Router
        /\ UNCHANGED <<route, token, member, flaws, outages>>
    BY <1>11, <1>0 DEF Serve, UnderWayStage
  <2>2. PICK error \in Raises[route] :
           /\ outcome' = error
           /\ Write(StatusOf(route, error)) \/ WriteAndReturn(StatusOf(route, error))
    BY <1>11 DEF Serve, StatusOf, H
  <2>3. Classified(route, error)
    BY <2>1, ErrorsAreClassified
  <2>4. StatusOf(route, error) \in 400 .. 500
    BY <2>3 DEF Classified, Unknown
  <2>5. PICK status \in 400 .. 500 :
           /\ status = StatusOf(route, error)
           /\ statuses' = <<status>> /\ stage' \in {"returned", "over"}
    <3>1. /\ statuses' = Append(statuses, StatusOf(route, error))
          /\ stage' \in {"returned", "over"}
      BY <2>2 DEF Write, WriteAndReturn
    <3>2. statuses' = <<StatusOf(route, error)>>
      BY <2>1, <3>1
    <3>3. QED
      BY <2>4, <3>1, <3>2
  <2>6. Truthful'
    <3>1. outcome' # "ok"
      BY <2>2, <2>3 DEF Classified
    <3>2. status = 500 => Unknown(route, error)
      BY <2>3, <2>5 DEF Classified
    <3>3. status < 500 => error \in Raises[route] \ {"Raw"}
      BY <2>3, <2>5 DEF Classified, Unknown
    <3>4. outcome' = error /\ route' = route
      BY <2>1, <2>2
    <3>5. Len(statuses') = 1 /\ statuses'[1] = status
      BY <2>5
    <3>6. TellsTheTruth(statuses[1])'
      BY <3>1, <3>2, <3>3, <3>4, <3>5 DEF TellsTheTruth, Unknown
    <3>7. QED
      BY <3>5, <3>6 DEF Truthful
  <2>7. QED
    BY <1>0, <2>1, <2>5, <2>6, AnsweringStep DEF UnderWayStage
<1>12. CASE ServeWell
  <2>1. PICK status \in {200, 201} : statuses' = <<status>> /\ stage' = "over"
    BY <1>12, <1>0 DEF ServeWell, Write, UnderWayStage
  <2>2. Truthful'
    BY <1>12, <2>1 DEF ServeWell, Truthful, TellsTheTruth
  <2>3. QED
    BY <1>12, <1>0, <2>1, <2>2, AnsweringStep DEF ServeWell, UnderWayStage
<1>13. CASE StreamBreaks
  <2>1. statuses' = <<200>> /\ stage' = "returned"
    BY <1>13, <1>0 DEF StreamBreaks, WriteAndReturn, UnderWayStage
  <2>2. Truthful'
    BY <1>13, <2>1 DEF StreamBreaks, Truthful, TellsTheTruth
  <2>3. QED
    BY <1>13, <1>0, <2>1, <2>2, AnsweringStep DEF StreamBreaks, UnderWayStage
<1>14. CASE ServeFails
  <2>1. PICK status \in {500, 503} : statuses' = <<status>> /\ stage' = "over"
    BY <1>14, <1>0 DEF ServeFails, HealthCheck, Query, Handler, Write, UnderWayStage
  <2>2. Truthful'
    BY <1>14, <2>1 DEF ServeFails, Truthful, TellsTheTruth
  <2>3. QED
    BY <1>14, <1>0, <2>1, <2>2, AnsweringStep DEF ServeFails, UnderWayStage
<1>15. CASE Panic
  <2>1. stage \in UnderWayStage /\ stage' = "returned" /\ "panic" \in outages'
    BY <1>15 DEF Panic, PipelineIInv, PipelineTypeOK, UnderWayStage
  <2>2. UNCHANGED <<route, token, member, outcome, statuses, flaws>>
    BY <1>15 DEF Panic
  <2>3. PipelineTypeOK' /\ Routed' /\ Unanswered' /\ GuestsAreGuests' /\ HonestAnswers'
    BY <2>1, <2>2, <1>0 DEF PipelineIInv, PipelineTypeOK, Routed, Unanswered,
       GuestsAreGuests, HonestAnswers, UnderWayStage
  <2>4. PanicsAreLeft'
    BY <2>1, <2>2, <1>0 DEF PanicsAreLeft
  <2>5. QED
    BY <2>3, <2>4 DEF PipelineIInv
<1>16. CASE HandleError
  <2>1. /\ stage = "returned" /\ stage' = "over"
        /\ UNCHANGED <<route, token, member, outcome, flaws, outages>>
        /\ statuses = <<>> => statuses' = <<500>>
        /\ statuses # <<>> => statuses' = statuses
    BY <1>16 DEF HandleError
  <2>2. statuses' \in Seq(200 .. 599)
    <3>1. <<500>> \in Seq(200 .. 599) /\ statuses \in Seq(200 .. 599)
      BY DEF PipelineIInv, PipelineTypeOK
    <3>2. QED
      BY <2>1, <3>1
  <2>3. PipelineTypeOK' /\ Routed' /\ Unanswered' /\ GuestsAreGuests' /\ PanicsAreLeft'
    BY <2>1, <2>2 DEF PipelineIInv, PipelineTypeOK, Routed, Unanswered, GuestsAreGuests,
       PanicsAreLeft
  <2>4. HonestAnswers'
    <3>1. CASE statuses = <<>>
      <4>1. outcome' = "none" /\ "panic" \in outages'
        BY <2>1, <3>1 DEF PipelineIInv, PanicsAreLeft, Truthful
      <4>2. TellsTheTruth(500)'
        BY <4>1 DEF TellsTheTruth
      <4>3. Len(statuses') = 1 /\ statuses'[1] = 500
        BY <2>1, <3>1
      <4>4. QED
        BY <4>2, <4>3 DEF HonestAnswers
    <3>2. CASE statuses # <<>>
      <4>1. Truthful
        BY <2>1, <3>2 DEF PipelineIInv, PanicsAreLeft
      <4>2. statuses' = statuses /\ Len(statuses') = 1
        BY <2>1, <3>2, <4>1 DEF Truthful
      <4>3. TellsTheTruth(statuses[1])'
        <5> DEFINE n == statuses[1]
        <5>1. TellsTheTruth(n)
          BY <4>1 DEF Truthful
        <5>2. statuses'[1] = n /\ UNCHANGED <<route, token, member, outcome, flaws, outages>>
          BY <2>1, <4>2
        <5>3. QED
          BY <5>1, <5>2 DEF TellsTheTruth
      <4>4. QED
        BY <4>2, <4>3 DEF HonestAnswers
    <3>3. QED
      BY <3>1, <3>2
  <2>5. QED
    BY <2>3, <2>4 DEF PipelineIInv
<1>17. CASE UNCHANGED pipelineVars
  BY <1>17 DEF pipelineVars, PipelineIInv, PipelineTypeOK, Routed, Unanswered,
     GuestsAreGuests, PanicsAreLeft, Truthful, TellsTheTruth, HonestAnswers
<1>18. QED
  BY <1>1, <1>2, <1>3, <1>4, <1>5, <1>6, <1>7, <1>8, <1>9, <1>10, <1>11, <1>12, <1>13,
     <1>14, <1>15, <1>16, <1>17 DEF PipelineNext

LEMMA PipelineInvariant == PipelineSpec => []PipelineIInv
<1>1. QED
  BY PipelineInitially, PipelineInductive, PTL DEF PipelineSpec

\* Whatever the middleware, the handler, the use case and the error handler
\* do, a request gets one answer, and its status tells the truth.
THEOREM AnswersAreHonest == PipelineSpec => []HonestAnswers
<1>1. PipelineIInv => HonestAnswers
  BY DEF PipelineIInv
<1>2. QED
  BY <1>1, PipelineInvariant, PTL

-----------------------------------------------------------------------------
(***************************************************************************)
(* The history.  The id of a result is its rank, so a page shows ids, and  *)
(* every submission pushes the ids one place further down.  What the       *)
(* client has not been shown yet is therefore below the pages it has seen, *)
(* and a list that is no older than its count leaves nothing below the     *)
(* last page.                                                              *)
(***************************************************************************)
ResultType == [id : Nat, grit : GritScores, locale : Locales]
WalkType == [step : {"resting", "counting", "listing", "walked"}, limit : 1 .. MaxLimit,
             page : Nat \ {0}, pages : Nat]

DashboardTypeOK ==
    /\ results \in Seq(ResultType)
    /\ walk \in WalkType
    /\ torn \in BOOLEAN

RanksAreIds == \A i \in DOMAIN results : results[i].id = Len(results) - i + 1

WantedAreThere == \A id \in wanted : id \in 1 .. Len(results)

UnseenAreBelow ==
    walk.step \in {"counting", "listing"} =>
        \A id \in wanted \ seen : Len(results) - id + 1 > (walk.page - 1) * walk.limit

PagesAreCounted ==
    walk.step = "listing" /\ ~torn =>
        walk.pages = (Len(results) + walk.limit - 1) \div walk.limit

HistoryIInv ==
    /\ DashboardTypeOK /\ RanksAreIds /\ WantedAreThere /\ UnseenAreBelow
    /\ PagesAreCounted /\ PagesSkipNothing

\* The pages hold all there was when they were counted.
LEMMA PagesSuffice ==
  ASSUME NEW n \in Nat, NEW limit \in Nat \ {0}
  PROVE  /\ (n + limit - 1) \div limit \in Nat
         /\ n <= ((n + limit - 1) \div limit) * limit
<1> DEFINE q == (n + limit - 1) \div limit
<1>1. n + limit - 1 \in Nat
  OBVIOUS
<1>2. q \in Nat /\ n + limit - 1 < (q + 1) * limit
  BY <1>1
<1>3. (q + 1) * limit = q * limit + limit
  BY <1>2
<1>4. QED
  BY <1>2, <1>3

LEMMA PageAfterPage ==
  ASSUME NEW page \in Nat \ {0}, NEW limit \in Nat \ {0}
  PROVE  /\ (page - 1) * limit \in Nat
         /\ ((page + 1) - 1) * limit = (page - 1) * limit + limit
  OBVIOUS

LEMMA PagesGrow ==
  ASSUME NEW p \in Nat, NEW q \in Nat, p <= q, NEW limit \in Nat \ {0}
  PROVE  p * limit <= q * limit
  OBVIOUS

LEMMA OneMoreResult ==
  ASSUME results \in Seq(ResultType), NEW r \in ResultType, results' = <<r>> \o results
  PROVE  /\ results' \in Seq(ResultType) /\ Len(results') = Len(results) + 1
         /\ results'[1] = r
         /\ \A i \in DOMAIN results' : i # 1 => i - 1 \in DOMAIN results /\ results'[i] = results[i - 1]
  OBVIOUS

LEMMA HistoryInitially == DashboardInit => HistoryIInv
<1> SUFFICES ASSUME DashboardInit PROVE HistoryIInv
  OBVIOUS
<1>1. DashboardTypeOK
  <2>1. Resting \in WalkType
    BY DashboardAssumption DEF Resting, WalkType
  <2>2. torn \in BOOLEAN
    BY Zenon DEF DashboardInit
  <2>3. <<>> \in Seq(ResultType)
    OBVIOUS
  <2>4. QED
    BY <2>1, <2>2, <2>3 DEF DashboardInit, DashboardTypeOK
<1>2. QED
  BY <1>1 DEF DashboardInit, Resting, HistoryIInv, RanksAreIds, WantedAreThere, UnseenAreBelow,
     PagesAreCounted, PagesSkipNothing

LEMMA HistoryInductive == HistoryIInv /\ [DashboardNext]_dashboardVars => HistoryIInv'
<1> SUFFICES ASSUME HistoryIInv, [DashboardNext]_dashboardVars
             PROVE  HistoryIInv'
  OBVIOUS
<1>0. /\ results \in Seq(ResultType) /\ Len(results) \in Nat
      /\ walk \in WalkType /\ torn \in BOOLEAN
      /\ walk.limit \in Nat \ {0} /\ walk.page \in Nat \ {0} /\ walk.pages \in Nat
  BY DashboardAssumption DEF HistoryIInv, DashboardTypeOK, WalkType
<1>1. CASE NewResult
  <2>1. PICK grit \in GritScores, loc \in Locales :
           results' = <<[id |-> Len(results) + 1, grit |-> grit, locale |-> loc]>> \o results
    BY <1>1 DEF NewResult
  <2> DEFINE r == [id |-> Len(results) + 1, grit |-> grit, locale |-> loc]
  <2>2. r \in ResultType /\ r.id = Len(results) + 1
    BY <1>0 DEF ResultType
  <2>3. results' = <<r>> \o results
    BY <2>1
  <2> HIDE DEF r
  <2>4. /\ results' \in Seq(ResultType) /\ Len(results') = Len(results) + 1
        /\ results'[1] = r
        /\ \A i \in DOMAIN results' :
              i # 1 => i - 1 \in DOMAIN results /\ results'[i] = results[i - 1]
    BY <1>0, <2>2, <2>3, OneMoreResult
  <2>5. torn' = (torn \/ walk.step = "listing") /\ UNCHANGED <<walk, seen, wanted>>
    BY <1>1 DEF NewResult
  <2>6. torn' \in BOOLEAN
    BY <1>0, <2>5, Zenon
  <2>7. DashboardTypeOK'
    BY <1>0, <2>4, <2>5, <2>6 DEF DashboardTypeOK
  <2>8. RanksAreIds'
    <3> SUFFICES ASSUME NEW i \in DOMAIN results'
                 PROVE  results'[i].id = Len(results') - i + 1
      BY DEF RanksAreIds
    <3>1. CASE i = 1
      BY <1>0, <2>2, <2>4, <3>1
    <3>2. CASE i # 1
      <4>1. i \in Nat /\ i - 1 \in DOMAIN results /\ results'[i] = results[i - 1]
        BY <2>4, <3>2
      <4>2. results[i - 1].id = Len(results) - (i - 1) + 1
        BY <4>1 DEF HistoryIInv, RanksAreIds
      <4>3. QED
        BY <1>0, <2>4, <4>1, <4>2
    <3>3. QED
      BY <3>1, <3>2
  <2>9. WantedAreThere'
    BY <1>0, <2>4, <2>5 DEF HistoryIInv, WantedAreThere
  <2>10. UnseenAreBelow'
    <3> SUFFICES ASSUME walk.step \in {"counting", "listing"}, NEW id \in wanted \ seen
                 PROVE  Len(results') - id + 1 > (walk.page - 1) * walk.limit
      BY <2>5 DEF UnseenAreBelow
    <3>1. id \in 1 .. Len(results) /\ Len(results) - id + 1 > (walk.page - 1) * walk.limit
      BY DEF HistoryIInv, WantedAreThere, UnseenAreBelow
    <3>2. (walk.page - 1) * walk.limit \in Nat
      BY <1>0, PageAfterPage
    <3>3. QED
      BY <1>0, <2>4, <3>1, <3>2
  <2>11. PagesAreCounted' /\ PagesSkipNothing'
    BY <2>5 DEF HistoryIInv, PagesAreCounted, PagesSkipNothing
  <2>12. QED
    BY <2>7, <2>8, <2>9, <2>10, <2>11 DEF HistoryIInv
<1>2. CASE BeginWalk
  <2>1. PICK limit \in Limits :
           walk' = [Resting EXCEPT !.step = "counting", !.limit = Granted(limit)]
    BY <1>2 DEF BeginWalk
  <2>2. Granted(limit) \in 1 .. MaxLimit
    BY DashboardAssumption DEF Granted
  <2>3. walk' = [step |-> "counting", limit |-> Granted(limit), page |-> 1, pages |-> 0]
    BY <2>1 DEF Resting
  <2>4. seen' = {} /\ wanted' = 1 .. Len(results) /\ UNCHANGED <<results, torn>>
    BY <1>2 DEF BeginWalk, Ids
  <2>5. walk' \in WalkType /\ walk'.step = "counting" /\ walk'.page = 1
    BY <2>2, <2>3 DEF WalkType
  <2>6. DashboardTypeOK'
    BY <1>0, <2>4, <2>5 DEF DashboardTypeOK
  <2>7. UnseenAreBelow'
    <3>1. (walk'.page - 1) * walk'.limit = 0
      BY <2>2, <2>3, <2>5, DashboardAssumption
    <3>2. QED
      BY <1>0, <2>4, <3>1 DEF UnseenAreBelow
  <2>8. RanksAreIds' /\ WantedAreThere' /\ PagesAreCounted' /\ PagesSkipNothing'
    BY <2>4, <2>5 DEF HistoryIInv, RanksAreIds, WantedAreThere, PagesAreCounted,
       PagesSkipNothing
  <2>9. QED
    BY <2>6, <2>7, <2>8 DEF HistoryIInv
<1>3. CASE CountPages
  <2> DEFINE n == (Len(results) + walk.limit - 1) \div walk.limit
  <2>1. walk.step = "counting" /\ walk' = [walk EXCEPT !.step = "listing", !.pages = n]
        /\ torn' = FALSE /\ UNCHANGED <<results, seen, wanted>>
    BY <1>3 DEF CountPages
  <2>2. n \in Nat
    BY <1>0, PagesSuffice
  <2>3. /\ walk' \in WalkType /\ walk'.step = "listing" /\ walk'.pages = n
        /\ walk'.page = walk.page /\ walk'.limit = walk.limit
    BY <1>0, <2>1, <2>2 DEF WalkType
  <2>4. DashboardTypeOK'
    BY <1>0, <2>1, <2>3 DEF DashboardTypeOK
  <2>5. PagesAreCounted'
    BY <2>1, <2>3 DEF PagesAreCounted
  <2> HIDE DEF n
  <2>6. RanksAreIds' /\ WantedAreThere' /\ PagesSkipNothing'
    BY <2>1, <2>3 DEF HistoryIInv, RanksAreIds, WantedAreThere, PagesSkipNothing
  <2>7. UnseenAreBelow'
    BY <2>1, <2>3 DEF HistoryIInv, UnseenAreBelow
  <2>8. QED
    BY <2>4, <2>5, <2>6, <2>7 DEF HistoryIInv
<1>4. CASE ListPage
  <2> DEFINE offset == (walk.page - 1) * walk.limit
             shown == {i \in DOMAIN results : i > offset /\ i <= offset + walk.limit}
  <2>1. /\ walk.step = "listing" /\ seen' = seen \cup {results[i].id : i \in shown}
        /\ UNCHANGED <<results, wanted, torn>>
        /\ walk.page < walk.pages =>
              walk' = [walk EXCEPT !.step = "counting", !.page = @ + 1]
        /\ ~(walk.page < walk.pages) => walk' = [walk EXCEPT !.step = "walked"]
    BY <1>4 DEF ListPage
  <2>2. /\ offset \in Nat
        /\ ((walk.page + 1) - 1) * walk.limit = offset + walk.limit
    BY <1>0, PageAfterPage
  <2>3. \A id \in wanted : id \notin seen' => Len(results) - id + 1 > offset + walk.limit
    <3> SUFFICES ASSUME NEW id \in wanted, id \notin seen',
                        ~(Len(results) - id + 1 > offset + walk.limit)
                 PROVE  FALSE
      OBVIOUS
    <3> DEFINE place == Len(results) - id + 1
    <3>1. id \in 1 .. Len(results) /\ place > offset
      BY <2>1 DEF HistoryIInv, WantedAreThere, UnseenAreBelow
    <3>2. place \in DOMAIN results /\ results[place].id = id
      <4>1. offset \in Nat /\ place \in 1 .. Len(results)
        BY <1>0, <2>2, <3>1
      <4>2. place \in DOMAIN results
        BY <1>0, <4>1
      <4>3. results[place].id = Len(results) - place + 1
        BY <4>2 DEF HistoryIInv, RanksAreIds
      <4>4. QED
        BY <1>0, <3>1, <4>2, <4>3
    <3>3. place \in shown
      BY <1>0, <2>2, <3>1, <3>2
    <3>4. QED
      BY <2>1, <3>2, <3>3
  <2> HIDE DEF shown
  <2>4. CASE walk.page < walk.pages
    <3>1. /\ walk' \in WalkType /\ walk'.step = "counting"
          /\ walk'.page = walk.page + 1 /\ walk'.limit = walk.limit
      <4>1. walk.page + 1 \in Nat \ {0}
        BY <1>0
      <4>2. walk' = [walk EXCEPT !.step = "counting", !.page = walk.page + 1]
        BY <2>1, <2>4
      <4>3. QED
        BY <1>0, <4>1, <4>2 DEF WalkType
    <3>2. DashboardTypeOK'
      BY <1>0, <2>1, <3>1 DEF DashboardTypeOK
    <3>3. UnseenAreBelow'
      BY <2>1, <2>2, <2>3, <3>1 DEF UnseenAreBelow
    <3>4. RanksAreIds' /\ WantedAreThere' /\ PagesAreCounted' /\ PagesSkipNothing'
      BY <2>1, <3>1 DEF HistoryIInv, RanksAreIds, WantedAreThere, PagesAreCounted,
         PagesSkipNothing
    <3>5. QED
      BY <3>2, <3>3, <3>4 DEF HistoryIInv
  <2>5. CASE ~(walk.page < walk.pages)
    <3>1. walk' \in WalkType /\ walk'.step = "walked"
      BY <1>0, <2>1, <2>5 DEF WalkType
    <3>2. DashboardTypeOK'
      BY <1>0, <2>1, <3>1 DEF DashboardTypeOK
    <3>3. PagesSkipNothing'
      <4> SUFFICES ASSUME ~torn, NEW id \in wanted, id \notin seen'
                   PROVE  FALSE
        BY <2>1 DEF PagesSkipNothing
      <4>1. walk.pages = (Len(results) + walk.limit - 1) \div walk.limit
        BY <2>1 DEF HistoryIInv, PagesAreCounted
      <4>2. Len(results) <= walk.pages * walk.limit
        BY <1>0, <4>1, PagesSuffice
      <4>3. walk.pages * walk.limit <= walk.page * walk.limit
        BY <1>0, <2>5, PagesGrow
      <4>4. walk.page * walk.limit = offset + walk.limit
        BY <1>0, <2>2
      <4>5. walk.pages * walk.limit \in Nat
        BY <1>0
      <4>6. id \in 1 .. Len(results)
        BY DEF HistoryIInv, WantedAreThere
      <4>7. QED
        BY <1>0, <2>2, <2>3, <4>2, <4>3, <4>4, <4>5, <4>6
    <3>4. RanksAreIds' /\ WantedAreThere' /\ UnseenAreBelow' /\ PagesAreCounted'
      BY <2>1, <3>1 DEF HistoryIInv, RanksAreIds, WantedAreThere, UnseenAreBelow,
         PagesAreCounted
    <3>5. QED
      BY <3>2, <3>3, <3>4 DEF HistoryIInv
  <2>6. QED
    BY <2>4, <2>5
<1>5. CASE Rest
  <2>1. /\ walk' = Resting /\ walk' \in WalkType /\ walk'.step = "resting"
        /\ wanted' = {} /\ torn' = FALSE /\ UNCHANGED results
    BY <1>5, DashboardAssumption DEF Rest, Resting, WalkType
  <2>2. DashboardTypeOK'
    BY <1>0, <2>1 DEF DashboardTypeOK
  <2>3. QED
    BY <2>1, <2>2 DEF HistoryIInv, RanksAreIds, WantedAreThere, UnseenAreBelow,
       PagesAreCounted, PagesSkipNothing
<1>6. CASE UNCHANGED dashboardVars
  BY <1>6 DEF dashboardVars, HistoryIInv, DashboardTypeOK, RanksAreIds, WantedAreThere,
     UnseenAreBelow, PagesAreCounted, PagesSkipNothing
<1>7. QED
  BY <1>1, <1>2, <1>3, <1>4, <1>5, <1>6 DEF DashboardNext

LEMMA HistoryInvariant == DashboardSpec => []HistoryIInv
<1>1. QED
  BY HistoryInitially, HistoryInductive, PTL DEF DashboardSpec

\* A client that walks the pages of GetHistory is shown every result there was
\* when it began, for any history and any limit it asks for, unless a result
\* was added between the count and the list of its last page.
THEOREM HistoryIsShown == DashboardSpec => []PagesSkipNothing
<1>1. HistoryIInv => PagesSkipNothing
  BY DEF HistoryIInv
<1>2. QED
  BY <1>1, HistoryInvariant, PTL

\* A template speaks of a difference or of a threshold, never of both.
LEMMA ThresholdsAreNotDeltas ==
  ASSUME NEW t \in Templates, NEW value \in Nat, MatchesScore(t, value)
  PROVE  value # 0 /\ t.condition \notin {"increase", "decrease"}
  BY DashboardAssumption DEF MatchesScore

\* Whatever the templates and the scores are, the dashboard and the report of
\* the newest result agree on what a score says, and a dashboard never speaks
\* of an increase and of a decrease at once.
THEOREM InsightsNeverDrift == DashboardSpec => []InsightsAgree
<1>1. HistoryIInv => InsightsAgree
  <2> SUFFICES ASSUME HistoryIInv, 1 \in DOMAIN results
               PROVE  LET shown == MicroInsights(results[1].locale)
                          Delta(kind) == {t \in shown : t.condition = kind}
                      IN  /\ shown \ (Delta("increase") \cup Delta("decrease"))
                                = ReportInsights(results[1])
                          /\ Delta("increase") = {} \/ Delta("decrease") = {}
    BY DEF InsightsAgree
  <2> DEFINE rows == FindMatchingTemplates("grit", results[1].locale)
             grit == results[1].grit
             shown == MicroInsights(results[1].locale)
             Delta(kind) == {t \in shown : t.condition = kind}
  <2>1. results \in Seq(ResultType) /\ results # <<>> /\ grit \in Nat
    <3>1. results \in Seq(ResultType) /\ results # <<>>
      BY DEF HistoryIInv, DashboardTypeOK
    <3>2. results[1] \in ResultType
      BY <3>1
    <3>3. QED
      BY <3>1, <3>2, DashboardAssumption DEF ResultType
  <2>2. rows \subseteq Templates
    BY DEF FindMatchingTemplates, PickWithFallback
  <2>3. \A t \in rows : MatchesScore(t, grit) =>
           grit # 0 /\ t.condition \notin {"increase", "decrease"}
    BY <2>1, <2>2, ThresholdsAreNotDeltas
  <2>4. \A t : t \in shown <=>
           /\ t \in rows
           /\ \/ t.condition = "increase" /\ t.delta # 0 /\ \E d \in Deltas : d >= t.delta
              \/ t.condition = "decrease" /\ t.delta # 0 /\ \E d \in Deltas : -d >= t.delta
              \/ grit # 0 /\ MatchesScore(t, grit)
    BY <2>1 DEF MicroInsights
  <2>5. ReportInsights(results[1]) = {t \in rows : MatchesScore(t, grit)}
    BY DEF ReportInsights
  <2>6. /\ \A d \in Deltas : d \in Int
        /\ \A d, e \in Deltas : d = e
    <3>1. CASE Len(results) >= 2
      <4>1. results[2] \in ResultType
        BY <2>1, <3>1
      <4>2. results[2].grit \in Nat
        BY <4>1, DashboardAssumption DEF ResultType
      <4>3. QED
        BY <2>1, <4>2 DEF Deltas
    <3>2. CASE ~(Len(results) >= 2)
      BY <3>2 DEF Deltas
    <3>3. QED
      BY <3>1, <3>2
  <2> HIDE DEF rows, grit, shown
  <2>7. shown \ (Delta("increase") \cup Delta("decrease")) = {t \in rows : MatchesScore(t, grit)}
    BY <2>3, <2>4
  <2>8. Delta("increase") = {} \/ Delta("decrease") = {}
    <3> SUFFICES ASSUME NEW t \in Delta("increase"), NEW u \in Delta("decrease")
                 PROVE  FALSE
      OBVIOUS
    <3>1. t \in Templates /\ u \in Templates
      BY <2>2, <2>4
    <3>2. t.delta \in Nat \ {0} /\ \E d \in Deltas : d >= t.delta
      BY <2>3, <2>4, <3>1, DashboardAssumption
    <3>3. u.delta \in Nat \ {0} /\ \E d \in Deltas : -d >= u.delta
      BY <2>3, <2>4, <3>1, DashboardAssumption
    <3>4. QED
      BY <2>6, <3>2, <3>3
  <2>9. QED
    BY <2>5, <2>7, <2>8 DEF shown, rows, grit
<1>2. QED
  BY <1>1, HistoryInvariant, PTL

-----------------------------------------------------------------------------
(***************************************************************************)
(* Scores.  A tally is a recursive function, so first: it exists, it is    *)
(* unique and one more answer adds to it.  Each is an induction, carried   *)
(* out on the least number it would fail for.                              *)
(***************************************************************************)
LEMMA LeastNatural ==
  ASSUME NEW T \in SUBSET Nat, T # {}
  PROVE  \E m \in T : \A n \in T : m <= n
<1> DEFINE R == OpToRel(<, Nat)
<1>1. \E x \in T : \A y \in T : ~ (<<y, x>> \in R)
  <2>1. IsWellFoundedOn(R, Nat)
    BY NatLessThanWellFounded
  <2> HIDE DEF R
  <2>2. QED
    BY <2>1, WFMin
<1>2. PICK x \in T : \A y \in T : ~ (<<y, x>> \in R)
  BY <1>1
<1>3. \A y \in T : ~(y < x)
  BY <1>2 DEF OpToRel
<1> HIDE DEF R
<1>4. QED
  BY <1>3

IsTotal(t, w, n) == t = [k \in 0 .. n |-> IF k = 0 THEN 0 ELSE t[k - 1] + w[k]]
SumsUpTo(t, w, n) == \A k \in 0 .. n : t[k] = IF k = 0 THEN 0 ELSE t[k - 1] + w[k]

LEMMA TotalsAgree ==
  ASSUME NEW n \in Nat, NEW w, NEW t, SumsUpTo(t, w, n), NEW u, SumsUpTo(u, w, n)
  PROVE  t[n] = u[n]
<1> DEFINE T == {k \in 0 .. n : t[k] # u[k]}
<1> SUFFICES ASSUME T # {} PROVE FALSE
  OBVIOUS
<1>1. PICK k \in T : \A j \in T : k <= j
  <2>1. T \in SUBSET Nat
    OBVIOUS
  <2> HIDE DEF T
  <2>2. QED
    BY <2>1, LeastNatural
<1>2. CASE k = 0
  BY <1>2 DEF SumsUpTo
<1>3. CASE k # 0
  <2>1. k \in 0 .. n /\ k - 1 \in 0 .. n
    BY <1>3
  <2>2. t[k - 1] = u[k - 1]
    BY <1>1, <2>1
  <2>3. t[k] = t[k - 1] + w[k] /\ u[k] = u[k - 1] + w[k]
    BY <1>3, <2>1 DEF SumsUpTo
  <2>4. QED
    BY <2>1, <2>2, <2>3
<1>4. QED
  BY <1>2, <1>3

LEMMA TotalsExist ==
  ASSUME NEW N \in Nat, NEW w \in [1 .. N -> Int], NEW n \in 0 .. N
  PROVE  \E t \in [0 .. n -> Int] : IsTotal(t, w, n)
<1> DEFINE T == {m \in 0 .. N : ~ \E t \in [0 .. m -> Int] : IsTotal(t, w, m)}
<1> SUFFICES ASSUME T # {} PROVE FALSE
  OBVIOUS
<1>1. PICK m \in T : \A j \in T : m <= j
  <2>1. T \in SUBSET Nat
    OBVIOUS
  <2> HIDE DEF T
  <2>2. QED
    BY <2>1, LeastNatural
<1>2. CASE m = 0
  <2> DEFINE t == [k \in 0 .. 0 |-> 0]
  <2>1. t \in [0 .. m -> Int] /\ IsTotal(t, w, m)
    BY <1>2 DEF IsTotal
  <2>2. QED
    BY <2>1
<1>3. CASE m # 0
  <2>1. m - 1 \in 0 .. N /\ m \in 1 .. N /\ m - 1 \notin T
    BY <1>1, <1>3
  <2>2. PICK t \in [0 .. m - 1 -> Int] : IsTotal(t, w, m - 1)
    BY <2>1
  <2> DEFINE u == [k \in 0 .. m |-> IF k = m THEN t[m - 1] + w[m] ELSE t[k]]
  <2>3. u \in [0 .. m -> Int]
    BY <2>1
  <2>4. \A k \in 0 .. m : u[k] = IF k = 0 THEN 0 ELSE u[k - 1] + w[k]
    <3> SUFFICES ASSUME NEW k \in 0 .. m
                 PROVE  u[k] = IF k = 0 THEN 0 ELSE u[k - 1] + w[k]
      OBVIOUS
    <3>1. CASE k = m
      <4>1. k # 0 /\ k - 1 \in 0 .. m /\ k - 1 # m
        BY <2>1, <3>1
      <4>2. QED
        BY <3>1, <4>1
    <3>2. CASE k # m
      <4>1. t[k] = IF k = 0 THEN 0 ELSE t[k - 1] + w[k]
        BY <2>1, <2>2, <3>2 DEF IsTotal
      <4>2. k # 0 => k - 1 \in 0 .. m /\ k - 1 # m
        BY <2>1, <3>2
      <4>3. QED
        BY <3>2, <4>1, <4>2
    <3>3. QED
      BY <3>1, <3>2
  <2>5. IsTotal(u, w, m)
    <3> HIDE DEF u
    <3>1. QED
      BY <2>3, <2>4 DEF IsTotal
  <2>6. QED
    BY <2>3, <2>5
<1>4. QED
  BY <1>2, <1>3

LEMMA TallyIsTotal ==
  ASSUME NEW n \in Nat, NEW w \in [1 .. n -> Int]
  PROVE  \E t \in [0 .. n -> Int] : IsTotal(t, w, n) /\ Tally(w, n) = t[n]
<1>1. PICK t \in [0 .. n -> Int] : IsTotal(t, w, n)
  BY TotalsExist
<1> DEFINE c == CHOOSE u : IsTotal(u, w, n)
<1>2. IsTotal(c, w, n)
  BY <1>1
<1>3. Tally(w, n) = c[n]
  BY DEF Tally, IsTotal
<1> HIDE DEF c
<1>4. SumsUpTo(c, w, n) /\ SumsUpTo(t, w, n)
  BY <1>1, <1>2 DEF IsTotal, SumsUpTo
<1>5. c[n] = t[n]
  BY <1>4, TotalsAgree
<1>6. QED
  BY <1>1, <1>3, <1>5

LEMMA TallyOfNone ==
  ASSUME NEW w \in [1 .. 0 -> Int]
  PROVE  Tally(w, 0) = 0
<1>1. PICK t \in [0 .. 0 -> Int] : IsTotal(t, w, 0) /\ Tally(w, 0) = t[0]
  BY TallyIsTotal
<1>2. QED
  BY <1>1 DEF IsTotal

LEMMA TallyOfOneMore ==
  ASSUME NEW n \in Nat, NEW w \in [1 .. n -> Int], NEW v \in [1 .. n + 1 -> Int],
         \A k \in 1 .. n : v[k] = w[k]
  PROVE  /\ Tally(w, n) \in Int
         /\ Tally(v, n + 1) = Tally(w, n) + v[n + 1]
<1>1. PICK t \in [0 .. n -> Int] : IsTotal(t, w, n) /\ Tally(w, n) = t[n]
  BY TallyIsTotal
<1>2. PICK u \in [0 .. n + 1 -> Int] : IsTotal(u, v, n + 1) /\ Tally(v, n + 1) = u[n + 1]
  BY TallyIsTotal
<1>3. t[n] = u[n]
  <2>1. SumsUpTo(t, w, n)
    BY <1>1 DEF IsTotal, SumsUpTo
  <2>2. SumsUpTo(u, w, n)
    <3> SUFFICES ASSUME NEW k \in 0 .. n
                 PROVE  u[k] = IF k = 0 THEN 0 ELSE u[k - 1] + w[k]
      BY DEF SumsUpTo
    <3>1. u[k] = IF k = 0 THEN 0 ELSE u[k - 1] + v[k]
      BY <1>2 DEF IsTotal
    <3>2. k # 0 => v[k] = w[k]
      OBVIOUS
    <3>3. QED
      BY <3>1, <3>2
  <2>3. QED
    BY <2>1, <2>2, TotalsAgree
<1>4. u[n + 1] = u[n] + v[n + 1]
  BY <1>2 DEF IsTotal
<1>5. QED
  BY <1>1, <1>2, <1>3, <1>4

(***************************************************************************)
(* A rounded fraction, and the mean of two: for the least and the greatest *)
(* of the two, the numerators add up.                                      *)
(***************************************************************************)
LEMMA RoundedIs ==
  ASSUME NEW n \in Int, NEW d \in Nat \ {0}, NEW k \in Int
  PROVE  /\ Round(n, d) \in Int
         /\ k <= Round(n, d) <=> d * (2 * k - 1) <= 2 * n
<1> DEFINE q == (2 * n + d) \div (2 * d)
<1>1. q \in Int /\ 2 * d * q <= 2 * n + d /\ 2 * n + d < 2 * d * (q + 1)
  OBVIOUS
<1>2. k <= q => 2 * d * k <= 2 * d * q
  BY <1>1
<1>3. k > q => 2 * d * k >= 2 * d * (q + 1)
  BY <1>1
<1>4. d * (2 * k - 1) = 2 * d * k - d /\ 2 * d * k \in Int
  OBVIOUS
<1>5. QED
  BY <1>1, <1>2, <1>3, <1>4 DEF Round

LEMMA MeanIsBetween ==
  ASSUME NEW n1 \in Int, NEW d1 \in Nat \ {0}, NEW n2 \in Int, NEW d2 \in Nat \ {0}
  PROVE  LET q1 == Round(n1, d1)
             q2 == Round(n2, d2)
             q == Round(n1 + n2, d1 + d2)
         IN  q \in q1 .. q2 \cup q2 .. q1
<1> DEFINE q1 == Round(n1, d1)
           q2 == Round(n2, d2)
           q == Round(n1 + n2, d1 + d2)
<1>0. q1 \in Int /\ q2 \in Int /\ q \in Int
  BY RoundedIs
<1>1. ASSUME NEW k \in Int
      PROVE  (d1 + d2) * (2 * k - 1) = d1 * (2 * k - 1) + d2 * (2 * k - 1)
  OBVIOUS
<1>2. ASSUME NEW k \in Int
      PROVE  d1 * (2 * k - 1) \in Int /\ d2 * (2 * k - 1) \in Int
  OBVIOUS
<1>3. ASSUME NEW k \in Int, k <= q1, k <= q2
      PROVE  k <= q
  <2>1. d1 * (2 * k - 1) <= 2 * n1
    BY <1>3, RoundedIs
  <2>2. d2 * (2 * k - 1) <= 2 * n2
    BY <1>3, RoundedIs
  <2>3. (d1 + d2) * (2 * k - 1) <= 2 * (n1 + n2)
    BY <2>1, <2>2, <1>1, <1>2
  <2>4. QED
    BY <2>3, RoundedIs
<1>4. ASSUME NEW k \in Int, k > q1, k > q2
      PROVE  k > q
  <2>1. d1 * (2 * k - 1) > 2 * n1
    BY <1>0, <1>2, <1>4, RoundedIs
  <2>2. d2 * (2 * k - 1) > 2 * n2
    BY <1>0, <1>2, <1>4, RoundedIs
  <2>3. (d1 + d2) * (2 * k - 1) > 2 * (n1 + n2)
    BY <2>1, <2>2, <1>1, <1>2
  <2>4. QED
    BY <1>0, <2>3, RoundedIs
<1> HIDE DEF q1, q2, q
<1>5. q1 <= q \/ q2 <= q
  BY <1>0, <1>3
<1>6. q <= q1 \/ q <= q2
  <2>1. q1 + 1 > q1 /\ q2 + 1 > q2 /\ q1 + 1 \in Int /\ q2 + 1 \in Int
    BY <1>0
  <2>2. CASE q1 >= q2
    BY <1>0, <1>4, <2>1, <2>2
  <2>3. CASE q1 <= q2
    BY <1>0, <1>4, <2>1, <2>3
  <2>4. QED
    BY <1>0, <2>2, <2>3
<1>7. QED
  BY <1>0, <1>5, <1>6, <1>3, <1>4 DEF q1, q2, q

(***************************************************************************)
(* An answer alone: what it adds never exceeds the scale it adds.          *)
(***************************************************************************)
Answered == [question : DOMAIN Bank, value : Values]

IsLargest(m, f, n) == m \in 1 .. n /\ \A k \in 1 .. n : f[k] <= f[m]

LEMMA LargestExists ==
  ASSUME NEW n \in Nat \ {0}, NEW f \in [1 .. n -> Int]
  PROVE  \E m \in 1 .. n : \A k \in 1 .. n : f[k] <= f[m]
<1> DEFINE T == {j \in 1 .. n : ~ \E m : IsLargest(m, f, j)}
<1>0. T \in SUBSET Nat
  OBVIOUS
<1>1. ASSUME NEW j \in T, \A i \in T : j <= i
      PROVE  FALSE
  <2>0. j \in 1 .. n /\ ~ \E m : IsLargest(m, f, j)
    OBVIOUS
  <2>1. CASE j = 1
    <3>1. IsLargest(1, f, j)
      BY <2>1 DEF IsLargest
    <3>2. QED
      BY <2>0, <3>1
  <2>2. CASE j # 1
    <3>1. j - 1 \in 1 .. n /\ ~(j <= j - 1)
      BY <2>0, <2>2
    <3>2. j - 1 \notin T
      BY <1>1, <3>1
    <3>3. PICK m : IsLargest(m, f, j - 1)
      BY <3>1, <3>2
    <3>4. m \in 1 .. j - 1 /\ \A k \in 1 .. j - 1 : f[k] <= f[m]
      BY <3>3 DEF IsLargest
    <3>5. f[m] \in Int /\ f[j] \in Int /\ \A k \in 1 .. j - 1 : f[k] \in Int
      BY <2>0, <3>1, <3>4
    <3>6. CASE f[j] <= f[m]
      <4>1. \A k \in 1 .. j : k \in 1 .. j - 1 \/ k = j
        BY <2>0
      <4>2. \A k \in 1 .. j : f[k] <= f[m]
        BY <3>4, <3>6, <4>1
      <4>3. m \in 1 .. j
        BY <2>0, <3>4
      <4>4. IsLargest(m, f, j)
        BY <4>2, <4>3 DEF IsLargest
      <4>5. QED
        BY <2>0, <4>4
    <3>7. CASE f[m] <= f[j]
      <4>1. \A k \in 1 .. j : k \in 1 .. j - 1 \/ k = j
        BY <2>0
      <4>2. \A k \in 1 .. j - 1 : f[k] <= f[j]
        BY <3>4, <3>5, <3>7
      <4>3. \A k \in 1 .. j : f[k] <= f[j]
        BY <3>5, <4>1, <4>2
      <4>4. IsLargest(j, f, j)
        BY <2>0, <4>3 DEF IsLargest
      <4>5. QED
        BY <2>0, <4>4
    <3>8. QED
      BY <3>5, <3>6, <3>7
  <2>3. QED
    BY <2>1, <2>2
<1> HIDE DEF T
<1>2. T = {}
  <2> SUFFICES ASSUME T # {} PROVE FALSE
    OBVIOUS
  <2>1. \E m \in T : \A i \in T : m <= i
    BY <1>0, LeastNatural
  <2>2. QED
    BY <1>1, <2>1
<1>3. \E m : IsLargest(m, f, n)
  <2>1. n \in 1 .. n
    OBVIOUS
  <2>2. QED
    BY <1>2, <2>1 DEF T
<1>4. QED
  BY <1>3 DEF IsLargest

LEMMA LargestMagnitude ==
  ASSUME NEW n \in Nat \ {0}, NEW f \in [1 .. n -> Int], NEW o \in 1 .. n
  PROVE  LET most == Max({Magnitude(f[k]) : k \in 1 .. n})
         IN  most \in Nat /\ -most <= f[o] /\ f[o] <= most
<1> DEFINE g == [k \in 1 .. n |-> Magnitude(f[k])]
           M == {Magnitude(f[k]) : k \in 1 .. n}
<1>1. \A k \in 1 .. n : f[k] \in Int /\ g[k] \in Nat /\ -g[k] <= f[k] /\ f[k] <= g[k]
  BY DEF Magnitude
<1>2. M = {g[k] : k \in 1 .. n} /\ g \in [1 .. n -> Int]
  BY <1>1
<1> HIDE DEF g, M
<1>3. PICK m \in 1 .. n : \A k \in 1 .. n : g[k] <= g[m]
  BY <1>2, LargestExists
<1>4. \E x \in M : \A y \in M : x >= y
  BY <1>1, <1>2, <1>3
<1>5. Max(M) \in M /\ \A y \in M : Max(M) >= y
  BY <1>4 DEF Max
<1>6. g[o] <= Max(M) /\ Max(M) \in Nat
  BY <1>1, <1>2, <1>5
<1>7. QED
  BY <1>1, <1>6 DEF M

LEMMA AnswerTypes ==
  ASSUME NEW a \in Answered
  PROVE  /\ a.question \in DOMAIN Bank /\ a.value \in Int
         /\ MetaOf(a).points \in Seq([Dimensions -> Int])
         /\ \A trait : IsLikert(a, trait) => Effective(a) \in 1 .. 5 /\ ~IsChoice(a)
<1>1. a.question \in DOMAIN Bank /\ a.value \in Int
  BY BankAssumption DEF Answered
<1>2. MetaOf(a).points \in Seq([Dimensions -> Int])
  BY <1>1, BankAssumption DEF MetaOf
<1>3. ASSUME NEW trait, IsLikert(a, trait)
      PROVE  Effective(a) \in 1 .. 5 /\ ~IsChoice(a)
  <2>1. Effective(a) \in 1 .. 5
    BY <1>1, <1>3 DEF IsLikert, Effective
  <2>2. ~IsChoice(a)
    BY <1>3 DEF IsLikert, IsChoice
  <2>3. QED
    BY <2>1, <2>2
<1>4. QED
  BY <1>1, <1>2, <1>3

LEMMA GainWithinScale ==
  ASSUME NEW a \in Answered, NEW dim \in Dimensions
  PROVE  /\ Gain(a, dim) \in Int /\ Scale(a, dim) \in Nat
         /\ -Scale(a, dim) <= Gain(a, dim) /\ Gain(a, dim) <= Scale(a, dim)
<1>1. CASE IsLikert(a, dim)
  <2>0. ~IsChoice(a)
    BY <1>1, AnswerTypes
  <2>1. Gain(a, dim) = Effective(a) - 3 /\ Scale(a, dim) = 2
    BY <1>1, <2>0 DEF Gain, Scale
  <2>2. Effective(a) \in 1 .. 5
    BY <1>1, AnswerTypes
  <2>3. QED
    BY <2>1, <2>2
<1>2. CASE ~IsLikert(a, dim) /\ IsChoice(a)
  <2> DEFINE p == MetaOf(a).points
             f == [k \in 1 .. Len(p) |-> p[k][dim]]
  <2>1. p \in Seq([Dimensions -> Int])
    BY AnswerTypes
  <2>2. DOMAIN p = 1 .. Len(p) /\ Len(p) \in Nat /\ \A k \in 1 .. Len(p) : p[k] \in [Dimensions -> Int]
    BY <2>1
  <2>3. a.value \in 1 .. Len(p)
    BY <1>2, <2>2 DEF IsChoice
  <2>4. f \in [1 .. Len(p) -> Int] /\ Len(p) \in Nat \ {0}
    BY <2>2, <2>3
  <2>5. Gain(a, dim) = p[a.value][dim] /\ Scale(a, dim) = Max({Magnitude(p[o][dim]) : o \in DOMAIN p})
    BY <1>2 DEF Gain, Scale
  <2>6. {Magnitude(p[o][dim]) : o \in DOMAIN p} = {Magnitude(f[k]) : k \in 1 .. Len(p)}
        /\ p[a.value][dim] = f[a.value]
    BY <2>2, <2>3
  <2> HIDE DEF p, f
  <2>7. f[a.value] \in Int
    BY <2>3, <2>4
  <2>8. QED
    BY <2>3, <2>4, <2>5, <2>6, <2>7, LargestMagnitude
<1>3. CASE ~IsLikert(a, dim) /\ ~IsChoice(a)
  <2>1. Gain(a, dim) = 0 /\ Scale(a, dim) = 0
    BY <1>3 DEF Gain, Scale
  <2>2. QED
    BY <2>1
<1>4. QED
  BY <1>1, <1>2, <1>3

\* The five steps of a scale are the rounded fraction of one answer.
LEMMA StepsAreQuarters ==
  ASSUME NEW v \in 1 .. 5
  PROVE  Round(50 * (v - 1), 2) = 25 * (v - 1) /\ Round(100 * (v - 1), 4) = 25 * (v - 1)
<1>1. v = 1 \/ v = 2 \/ v = 3 \/ v = 4 \/ v = 5
  OBVIOUS
<1>2. QED
  BY <1>1 DEF Round

LEMMA LeaningOfLikert ==
  ASSUME NEW a \in Answered, NEW trait, IsLikert(a, trait)
  PROVE  Leaning(a, trait) = 25 * (Effective(a) - 1)
<1>1. a.value \in Int /\ ~IsChoice(a)
  BY AnswerTypes
<1>2. QED
  BY <1>1 DEF Leaning, Effective

LEMMA LeaningIsOwnFraction ==
  ASSUME NEW a \in Answered, NEW dim \in Dimensions, Bears(a, dim)
  PROVE  /\ Scale(a, dim) \in Nat \ {0}
         /\ Leaning(a, dim) = Round(50 * (Scale(a, dim) + Gain(a, dim)), Scale(a, dim))
<1>1. CASE IsLikert(a, dim)
  <2>0. ~IsChoice(a)
    BY <1>1, AnswerTypes
  <2>1. Gain(a, dim) = Effective(a) - 3 /\ Scale(a, dim) = 2
    BY <1>1, <2>0 DEF Gain, Scale
  <2>2. Effective(a) \in 1 .. 5
    BY <1>1, AnswerTypes
  <2>3. 2 + (Effective(a) - 3) = Effective(a) - 1
    BY <2>2
  <2>4. QED
    BY <1>1, <2>1, <2>2, <2>3, StepsAreQuarters, LeaningOfLikert
<1>2. CASE ~IsLikert(a, dim)
  <2>1. Scale(a, dim) \in Nat /\ Scale(a, dim) > 0
    BY <1>2, GainWithinScale DEF Bears
  <2>2. IsChoice(a)
    BY <1>2, <2>1 DEF Scale
  <2>3. Gain(a, dim) = MetaOf(a).points[a.value][dim]
    BY <1>2, <2>2 DEF Gain
  <2>4. QED
    BY <2>1, <2>2, <2>3 DEF Leaning
<1>3. QED
  BY <1>1, <1>2

(***************************************************************************)
(* The four totals of a submission, and the same with one more answer.     *)
(***************************************************************************)
LEMMA TotalOfAppended ==
  ASSUME NEW S, NEW f \in [S -> Int], NEW s \in Seq(S), NEW a \in S
  PROVE  LET old == Tally([i \in DOMAIN s |-> f[s[i]]], Len(s))
             z == Append(s, a)
         IN  /\ old \in Int
             /\ Tally([i \in DOMAIN z |-> f[z[i]]], Len(z)) = old + f[a]
<1> DEFINE n == Len(s)
           z == Append(s, a)
           w == [i \in DOMAIN s |-> f[s[i]]]
           v == [i \in DOMAIN z |-> f[z[i]]]
<1>1. n \in Nat /\ DOMAIN s = 1 .. n /\ \A i \in 1 .. n : s[i] \in S
  OBVIOUS
<1>2. Len(z) = n + 1 /\ DOMAIN z = 1 .. n + 1 /\ z[n + 1] = a /\ \A i \in 1 .. n : z[i] = s[i]
  OBVIOUS
<1> HIDE DEF z, n
<1>3. w \in [1 .. n -> Int]
  BY <1>1
<1>4. \A i \in 1 .. n + 1 : z[i] \in S
  BY <1>1, <1>2
<1>5. v \in [1 .. n + 1 -> Int]
  BY <1>2, <1>4
<1>6. v[n + 1] = f[a] /\ \A k \in 1 .. n : v[k] = w[k]
  BY <1>1, <1>2
<1> HIDE DEF w, v
<1>7. Tally(w, n) \in Int /\ Tally(v, n + 1) = Tally(w, n) + v[n + 1]
  BY <1>1, <1>3, <1>5, <1>6, TallyOfOneMore
<1>8. QED
  BY <1>2, <1>6, <1>7 DEF w, v, n, z

LEMMA TotalsGrow ==
  ASSUME answers \in Seq(Answered), NEW a \in Answered, answers' = Append(answers, a)
  PROVE  /\ \A dim \in Dimensions :
               /\ TotalGain(dim) \in Int /\ TotalGain(dim)' = TotalGain(dim) + Gain(a, dim)
               /\ TotalScale(dim) \in Int /\ TotalScale(dim)' = TotalScale(dim) + Scale(a, dim)
         /\ GritCount \in Int /\ GritCount' = GritCount + GritItem(a)
         /\ GritSum \in Int /\ GritSum' = GritSum + GritValue(a)
<1> DEFINE z == Append(answers, a)
<1>1. \A i \in DOMAIN answers : answers[i] \in Answered
  OBVIOUS
<1>2. \A i \in DOMAIN z : z[i] \in Answered
  OBVIOUS
<1>3. ASSUME NEW dim \in Dimensions
      PROVE  TotalGain(dim) \in Int /\ TotalGain(dim)' = TotalGain(dim) + Gain(a, dim)
  <2> DEFINE f == [b \in Answered |-> Gain(b, dim)]
  <2>1. f \in [Answered -> Int]
    BY GainWithinScale
  <2>2. [i \in DOMAIN answers |-> f[answers[i]]] = [i \in DOMAIN answers |-> Gain(answers[i], dim)]
    BY <1>1
  <2>3. [i \in DOMAIN z |-> f[z[i]]] = [i \in DOMAIN z |-> Gain(z[i], dim)]
    BY <1>2
  <2>4. f[a] = Gain(a, dim)
    OBVIOUS
  <2> HIDE DEF f
  <2>5. LET old == Tally([i \in DOMAIN answers |-> f[answers[i]]], Len(answers))
        IN  old \in Int /\ Tally([i \in DOMAIN z |-> f[z[i]]], Len(z)) = old + f[a]
    BY <2>1, TotalOfAppended
  <2>6. QED
    BY <2>2, <2>3, <2>4, <2>5 DEF TotalGain
<1>4. ASSUME NEW dim \in Dimensions
      PROVE  TotalScale(dim) \in Int /\ TotalScale(dim)' = TotalScale(dim) + Scale(a, dim)
  <2> DEFINE f == [b \in Answered |-> Scale(b, dim)]
  <2>1. f \in [Answered -> Int]
    BY GainWithinScale
  <2>2. [i \in DOMAIN answers |-> f[answers[i]]] = [i \in DOMAIN answers |-> Scale(answers[i], dim)]
    BY <1>1
  <2>3. [i \in DOMAIN z |-> f[z[i]]] = [i \in DOMAIN z |-> Scale(z[i], dim)]
    BY <1>2
  <2>4. f[a] = Scale(a, dim)
    OBVIOUS
  <2> HIDE DEF f
  <2>5. LET old == Tally([i \in DOMAIN answers |-> f[answers[i]]], Len(answers))
        IN  old \in Int /\ Tally([i \in DOMAIN z |-> f[z[i]]], Len(z)) = old + f[a]
    BY <2>1, TotalOfAppended
  <2>6. QED
    BY <2>2, <2>3, <2>4, <2>5 DEF TotalScale
<1>5. GritCount \in Int /\ GritCount' = GritCount + GritItem(a)
  <2> DEFINE f == [b \in Answered |-> GritItem(b)]
  <2>1. f \in [Answered -> Int]
    BY DEF GritItem
  <2>2. [i \in DOMAIN answers |-> f[answers[i]]] = [i \in DOMAIN answers |-> GritItem(answers[i])]
    BY <1>1
  <2>3. [i \in DOMAIN z |-> f[z[i]]] = [i \in DOMAIN z |-> GritItem(z[i])]
    BY <1>2
  <2>4. f[a] = GritItem(a)
    OBVIOUS
  <2> HIDE DEF f
  <2>5. LET old == Tally([i \in DOMAIN answers |-> f[answers[i]]], Len(answers))
        IN  old \in Int /\ Tally([i \in DOMAIN z |-> f[z[i]]], Len(z)) = old + f[a]
    BY <2>1, TotalOfAppended
  <2>6. QED
    BY <2>2, <2>3, <2>4, <2>5 DEF GritCount
<1>6. GritSum \in Int /\ GritSum' = GritSum + GritValue(a)
  <2> DEFINE f == [b \in Answered |-> GritValue(b)]
  <2>1. f \in [Answered -> Int]
    <3> SUFFICES ASSUME NEW b \in Answered PROVE GritValue(b) \in Int
      OBVIOUS
    <3>1. QED
      BY AnswerTypes DEF GritValue
  <2>2. [i \in DOMAIN answers |-> f[answers[i]]] = [i \in DOMAIN answers |-> GritValue(answers[i])]
    BY <1>1
  <2>3. [i \in DOMAIN z |-> f[z[i]]] = [i \in DOMAIN z |-> GritValue(z[i])]
    BY <1>2
  <2>4. f[a] = GritValue(a)
    OBVIOUS
  <2> HIDE DEF f
  <2>5. LET old == Tally([i \in DOMAIN answers |-> f[answers[i]]], Len(answers))
        IN  old \in Int /\ Tally([i \in DOMAIN z |-> f[z[i]]], Len(z)) = old + f[a]
    BY <2>1, TotalOfAppended
  <2>6. QED
    BY <2>2, <2>3, <2>4, <2>5 DEF GritSum
<1>7. QED
  BY <1>3, <1>4, <1>5, <1>6

(***************************************************************************)
(* The inductive invariant: every sum stays within the scale beneath it,   *)
(* which is why no clamp is ever needed.                                   *)
(***************************************************************************)
SumsWithinScales ==
    /\ \A dim \in Dimensions :
          /\ TotalGain(dim) \in Int /\ TotalScale(dim) \in Nat
          /\ -TotalScale(dim) <= TotalGain(dim) /\ TotalGain(dim) <= TotalScale(dim)
    /\ GritCount \in Nat /\ GritSum \in Nat
    /\ GritCount <= GritSum /\ GritSum <= 5 * GritCount

ScoringIInv == answers \in Seq(Answered) /\ SumsWithinScales

LEMMA ScoringStarts == ScoringInit => ScoringIInv
<1> SUFFICES ASSUME ScoringInit PROVE ScoringIInv
  OBVIOUS
<1>1. answers = <<>> /\ Len(answers) = 0 /\ DOMAIN answers = 1 .. 0
  BY DEF ScoringInit
<1>3. ASSUME NEW dim \in Dimensions PROVE TotalGain(dim) = 0 /\ TotalScale(dim) = 0
  <2>1. [i \in DOMAIN answers |-> Gain(answers[i], dim)] \in [1 .. 0 -> Int]
    BY <1>1
  <2>2. [i \in DOMAIN answers |-> Scale(answers[i], dim)] \in [1 .. 0 -> Int]
    BY <1>1
  <2>3. QED
    BY <1>1, <2>1, <2>2, TallyOfNone DEF TotalGain, TotalScale
<1>4. GritCount = 0 /\ GritSum = 0
  <2>1. [i \in DOMAIN answers |-> GritItem(answers[i])] \in [1 .. 0 -> Int]
    BY <1>1
  <2>2. [i \in DOMAIN answers |-> GritValue(answers[i])] \in [1 .. 0 -> Int]
    BY <1>1
  <2>3. QED
    BY <1>1, <2>1, <2>2, TallyOfNone DEF GritCount, GritSum
<1>5. QED
  BY <1>1, <1>3, <1>4 DEF ScoringIInv, SumsWithinScales

LEMMA AnswerIsAppended ==
  ASSUME ScoringIInv, ScoringNext
  PROVE  \E a \in Answered : answers' = Append(answers, a)
<1>1. PICK q \in DOMAIN Bank, v \in Values : Answer(q, v)
  BY DEF ScoringNext
<1>2. [question |-> q, value |-> v] \in Answered
  BY DEF Answered
<1>3. QED
  BY <1>1, <1>2 DEF Answer

LEMMA GritIsBounded ==
  ASSUME NEW a \in Answered
  PROVE  \/ IsLikert(a, "GRIT") /\ GritItem(a) = 1 /\ GritValue(a) = Effective(a) /\ Effective(a) \in 1 .. 5
         \/ ~IsLikert(a, "GRIT") /\ GritItem(a) = 0 /\ GritValue(a) = 0
  BY AnswerTypes DEF GritItem, GritValue

LEMMA ScoringStep == ScoringIInv /\ [ScoringNext]_answers => ScoringIInv'
<1> SUFFICES ASSUME ScoringIInv, [ScoringNext]_answers PROVE ScoringIInv'
  OBVIOUS
<1>1. CASE UNCHANGED answers
  BY <1>1 DEF ScoringIInv, SumsWithinScales, TotalGain, TotalScale, GritCount, GritSum
<1>2. CASE ScoringNext
  <2>1. PICK a \in Answered : answers' = Append(answers, a)
    BY <1>2, AnswerIsAppended
  <2>2. answers \in Seq(Answered) /\ answers' \in Seq(Answered)
    BY <2>1 DEF ScoringIInv
  <2>3. ASSUME NEW dim \in Dimensions
        PROVE  /\ TotalGain(dim)' \in Int /\ TotalScale(dim)' \in Nat
               /\ -TotalScale(dim)' <= TotalGain(dim)' /\ TotalGain(dim)' <= TotalScale(dim)'
    <3>1. TotalGain(dim)' = TotalGain(dim) + Gain(a, dim) /\ TotalScale(dim)' = TotalScale(dim) + Scale(a, dim)
      BY <2>1, <2>2, TotalsGrow
    <3>2. /\ TotalGain(dim) \in Int /\ TotalScale(dim) \in Nat
          /\ -TotalScale(dim) <= TotalGain(dim) /\ TotalGain(dim) <= TotalScale(dim)
      BY DEF ScoringIInv, SumsWithinScales
    <3>3. QED
      BY <3>1, <3>2, GainWithinScale
  <2>4. /\ GritCount' \in Nat /\ GritSum' \in Nat
        /\ GritCount' <= GritSum' /\ GritSum' <= 5 * GritCount'
    <3>1. GritCount' = GritCount + GritItem(a) /\ GritSum' = GritSum + GritValue(a)
      BY <2>1, <2>2, TotalsGrow
    <3>2. /\ GritCount \in Nat /\ GritSum \in Nat
          /\ GritCount <= GritSum /\ GritSum <= 5 * GritCount
      BY DEF ScoringIInv, SumsWithinScales
    <3>3. QED
      BY <3>1, <3>2, GritIsBounded
  <2>5. QED
    BY <2>2, <2>3, <2>4 DEF ScoringIInv, SumsWithinScales
<1>3. QED
  BY <1>1, <1>2

(***************************************************************************)
(* One more answer, trait by trait.                                        *)
(***************************************************************************)
LEMMA Percent ==
  ASSUME NEW n \in Nat, NEW d \in Nat \ {0}, n <= 100 * d
  PROVE  Round(n, d) \in 0 .. 100 /\ ClampPercent(Round(n, d)) = Round(n, d)
<1>1. Round(n, d) \in Int
  BY RoundedIs
<1>2. d * (2 * 0 - 1) <= 2 * n
  OBVIOUS
<1>3. 0 <= Round(n, d)
  BY <1>2, RoundedIs
<1>4. ~(d * (2 * 101 - 1) <= 2 * n)
  OBVIOUS
<1>5. ~(101 <= Round(n, d))
  BY <1>4, RoundedIs
<1>6. QED
  BY <1>1, <1>3, <1>5 DEF ClampPercent

\* A mean over d1, then over d1 + d2: what TakesIn asks of every trait.
LEMMA OneMoreInTheMean ==
  ASSUME NEW n1 \in Nat, NEW d1 \in Nat, n1 <= 100 * d1,
         NEW n2 \in Nat, NEW d2 \in Nat \ {0}, n2 <= 100 * d2
  PROVE  LET old == IF d1 > 0 THEN ClampPercent(Round(n1, d1)) ELSE 50
             new == ClampPercent(Round(n1 + n2, d1 + d2))
             own == Round(n2, d2)
         IN  /\ new \in 0 .. 100 /\ own \in 0 .. 100 /\ old \in 0 .. 100
             /\ d1 = 0 => new = own
             /\ d1 # 0 => new \in old .. own \cup own .. old
<1>1. n1 + n2 \in Nat /\ d1 + d2 \in Nat \ {0} /\ n1 + n2 <= 100 * (d1 + d2)
  OBVIOUS
<1>2. Round(n1 + n2, d1 + d2) \in 0 .. 100
      /\ ClampPercent(Round(n1 + n2, d1 + d2)) = Round(n1 + n2, d1 + d2)
  BY <1>1, Percent
<1>3. Round(n2, d2) \in 0 .. 100
  BY Percent
<1>4. CASE d1 = 0
  <2>1. n1 = 0 /\ n1 + n2 = n2 /\ d1 + d2 = d2 /\ ~(d1 > 0)
    BY <1>4
  <2>2. QED
    BY <1>2, <1>3, <1>4, <2>1
<1>5. CASE d1 # 0
  <2>1. d1 \in Nat \ {0} /\ d1 > 0
    BY <1>5
  <2>2. Round(n1, d1) \in 0 .. 100 /\ ClampPercent(Round(n1, d1)) = Round(n1, d1)
    BY <2>1, Percent
  <2>3. n1 \in Int /\ n2 \in Int
    OBVIOUS
  <2>4. LET q1 == Round(n1, d1)
            q2 == Round(n2, d2)
            q == Round(n1 + n2, d1 + d2)
        IN  q \in q1 .. q2 \cup q2 .. q1
    BY <2>1, <2>3, MeanIsBetween
  <2>5. QED
    BY <1>2, <1>3, <1>5, <2>1, <2>2, <2>4
<1>6. QED
  BY <1>4, <1>5

LEMMA DimensionTakesIn ==
  ASSUME ScoringIInv, NEW a \in Answered, answers' = Append(answers, a), NEW dim \in Dimensions
  PROVE  TakesIn(a, dim)
<1> DEFINE sum == TotalGain(dim)
           max == TotalScale(dim)
           g == Gain(a, dim)
           s == Scale(a, dim)
           old == IF max > 0 THEN ClampPercent(Round(50 * (max + sum), max)) ELSE 50
           new == IF max + s > 0 THEN ClampPercent(Round(50 * (max + s + (sum + g)), max + s)) ELSE 50
<1>1. TotalGain(dim)' = sum + g /\ TotalScale(dim)' = max + s
  BY TotalsGrow DEF ScoringIInv
<1>2. sum \in Int /\ max \in Nat /\ -max <= sum /\ sum <= max
  BY DEF ScoringIInv, SumsWithinScales
<1>3. g \in Int /\ s \in Nat /\ -s <= g /\ g <= s
  BY GainWithinScale
<1>4. dim \in Traits /\ dim # "GRIT"
  BY DEF Traits, Dimensions
<1>5. ComputeScores[dim] = old
  BY <1>4 DEF ComputeScores, DimensionScore
<1>6. ComputeScores'[dim] = new
  BY <1>1, <1>4 DEF ComputeScores, DimensionScore
<1>7. MBTIType[dim] = (old >= 50) /\ MBTIType'[dim] = (new >= 50)
  BY <1>5, <1>6 DEF MBTIType
<1>8. dim \in NeutralFallback <=> max = 0
  BY <1>4 DEF NeutralFallback
<1>9. CASE ~Bears(a, dim)
  <2>1. s = 0 /\ g = 0
    BY <1>3, <1>9 DEF Bears
  <2>2. new = old
    BY <1>2, <2>1
  <2>3. QED
    BY <1>5, <1>6, <1>9, <2>2 DEF TakesIn
<1>10. CASE Bears(a, dim)
  <2> DEFINE own == Leaning(a, dim)
  <2>1. s \in Nat \ {0} /\ own = Round(50 * (s + g), s)
    BY <1>10, LeaningIsOwnFraction
  <2>2. 50 * (max + sum) \in Nat /\ 50 * (max + sum) <= 100 * max
    BY <1>2
  <2>3. 50 * (s + g) \in Nat /\ 50 * (s + g) <= 100 * s
    BY <1>3
  <2>4. 50 * (max + sum) + 50 * (s + g) = 50 * (max + s + (sum + g)) /\ max + s > 0
    BY <1>2, <1>3, <2>1
  <2> HIDE DEF sum, max, g, s, own
  <2>5. LET mean == ClampPercent(Round(50 * (max + sum) + 50 * (s + g), max + s))
            alone == Round(50 * (s + g), s)
        IN  /\ mean \in 0 .. 100 /\ alone \in 0 .. 100 /\ old \in 0 .. 100
            /\ max = 0 => mean = alone
            /\ max # 0 => mean \in old .. alone \cup alone .. old
    BY <1>2, <2>1, <2>2, <2>3, OneMoreInTheMean
  <2>6. /\ new \in 0 .. 100 /\ own \in 0 .. 100 /\ old \in 0 .. 100
        /\ max = 0 => new = own
        /\ max # 0 => new \in old .. own \cup own .. old
    BY <2>1, <2>4, <2>5
  <2>7. max = 0 => old = 50
    OBVIOUS
  <2> HIDE DEF old, new
  <2>8. (old >= 50) # (new >= 50) => (new >= 50) = (own >= 50)
    BY <1>2, <2>6, <2>7
  <2>9. TakesIn(a, dim)
    BY <1>4, <1>5, <1>6, <1>7, <1>8, <1>10, <2>6, <2>8 DEF TakesIn, own
  <2>10. QED
    BY <2>9
<1>11. QED
  BY <1>9, <1>10

LEMMA GritTakesIn ==
  ASSUME ScoringIInv, NEW a \in Answered, answers' = Append(answers, a)
  PROVE  TakesIn(a, "GRIT")
<1> DEFINE c == GritCount
           t == GritSum
           i == GritItem(a)
           v == GritValue(a)
           old == IF c > 0 THEN ClampPercent(Round(100 * (t - c), 4 * c)) ELSE 50
           new == IF c + i > 0 THEN ClampPercent(Round(100 * ((t + v) - (c + i)), 4 * (c + i))) ELSE 50
<1>1. GritCount' = c + i /\ GritSum' = t + v
  BY TotalsGrow DEF ScoringIInv
<1>2. c \in Nat /\ t \in Nat /\ c <= t /\ t <= 5 * c
  BY DEF ScoringIInv, SumsWithinScales
<1>3. "GRIT" \in Traits /\ "GRIT" \notin Dimensions
  BY DEF Traits, Dimensions
<1>4. ComputeScores["GRIT"] = old
  BY <1>3 DEF ComputeScores, GritScore
<1>5. ComputeScores'["GRIT"] = new
  <2>1. ComputeScores'["GRIT"] = GritScore'
    BY <1>3 DEF ComputeScores
  <2>2. GritScore' = new
    BY <1>1 DEF GritScore
  <2>3. QED
    BY <2>1, <2>2
<1>6. "GRIT" \in NeutralFallback <=> c = 0
  BY <1>3 DEF NeutralFallback
<1>7. CASE ~Bears(a, "GRIT")
  <2>1. i = 0 /\ v = 0
    BY <1>7 DEF Bears, GritItem, GritValue
  <2>2. new = old
    BY <1>2, <2>1
  <2>3. QED
    BY <1>4, <1>5, <1>7, <2>2 DEF TakesIn
<1>8. CASE Bears(a, "GRIT")
  <2> DEFINE own == Leaning(a, "GRIT")
  <2>1. IsLikert(a, "GRIT")
    BY <1>3, <1>8 DEF Bears
  <2>2. i = 1 /\ v = Effective(a) /\ v \in 1 .. 5
    BY <2>1, GritIsBounded
  <2>3. own = 25 * (v - 1)
    BY <2>1, <2>2, LeaningOfLikert
  <2> HIDE DEF c, t, v, own
  <2>4. own = Round(100 * (v - 1), 4)
    BY <2>2, <2>3, StepsAreQuarters
  <2>5. 100 * (t - c) \in Nat /\ 100 * (t - c) <= 100 * (4 * c) /\ 4 * c \in Nat
    BY <1>2
  <2>6. 100 * (v - 1) \in Nat /\ 100 * (v - 1) <= 100 * 4
    BY <2>2
  <2>7. 100 * ((t + v) - (c + i)) = 100 * (t - c) + 100 * (v - 1) /\ 4 * (c + i) = 4 * c + 4 /\ c + i > 0
    BY <1>2, <2>2
  <2>8. (4 * c > 0) <=> (c > 0)
    BY <1>2
  <2> DEFINE n1 == 100 * (t - c)
             n2 == 100 * (v - 1)
             d1 == 4 * c
  <2>9. LET before == IF d1 > 0 THEN ClampPercent(Round(n1, d1)) ELSE 50
            mean == ClampPercent(Round(n1 + n2, d1 + 4))
            alone == Round(n2, 4)
        IN  /\ mean \in 0 .. 100 /\ alone \in 0 .. 100 /\ before \in 0 .. 100
            /\ d1 = 0 => mean = alone
            /\ d1 # 0 => mean \in before .. alone \cup alone .. before
    <3> HIDE DEF n1, n2, d1
    <3>1. n1 \in Nat /\ d1 \in Nat /\ n1 <= 100 * d1 /\ n2 \in Nat /\ 4 \in Nat \ {0} /\ n2 <= 100 * 4
      BY <2>5, <2>6 DEF n1, n2, d1
    <3>2. QED
      BY <3>1, OneMoreInTheMean
  <2>10. /\ new \in 0 .. 100 /\ own \in 0 .. 100 /\ old \in 0 .. 100
         /\ c = 0 => new = own
         /\ c # 0 => new \in old .. own \cup own .. old
    BY <1>2, <2>4, <2>7, <2>8, <2>9
  <2> HIDE DEF old, new
  <2>11. QED
    BY <1>3, <1>4, <1>5, <1>6, <1>8, <2>10 DEF TakesIn, own
<1>9. QED
  BY <1>7, <1>8

LEMMA ScoringStepMean ==
  ScoringIInv /\ [ScoringNext]_answers =>
    [answers # answers' => \A trait \in Traits : TakesIn(Last(answers'), trait)]_answers
<1> SUFFICES ASSUME ScoringIInv, ScoringNext
             PROVE  \A trait \in Traits : TakesIn(Last(answers'), trait)
  OBVIOUS
<1>1. PICK a \in Answered : answers' = Append(answers, a)
  BY AnswerIsAppended
<1>2. Last(answers') = a
  BY <1>1 DEF ScoringIInv, Last
<1>3. \A trait \in Traits : TakesIn(a, trait)
  BY <1>1, DimensionTakesIn, GritTakesIn DEF Traits
<1>4. QED
  BY <1>2, <1>3

\* One more answer moves a score towards what it says and never past it, and
\* the clamp of ComputeScores never hides a sum outside its scale.
THEOREM ScoresStayMeans == ScoringSpec => ScoresAreMeans
<1>1. ScoringSpec => []ScoringIInv
  BY ScoringStarts, ScoringStep, PTL DEF ScoringSpec
<1>2. QED
  BY <1>1, ScoringStepMean, PTL DEF ScoringSpec, ScoresAreMeans

(***************************************************************************)
(* The composition: every behaviour of the endpoints is one of each part,  *)
(* which moves by its own steps or not at all.                             *)
(***************************************************************************)
LEMMA RequestsBehave == Spec => PipelineSpec
<1>1. Init => PipelineInit
  BY DEF Init
<1>2. [Next]_vars => [PipelineNext]_pipelineVars
  BY DEF Next, vars, pipelineVars, RequestsRun, RegistrationRuns, AddressLimitRuns,
     CodeLimitRuns, BudgetRuns, ReferralRuns, ScoringRuns, DashboardRuns
<1>3. QED
  BY <1>1, <1>2, PTL DEF Spec, PipelineSpec

LEMMA RegistrationBehaves == Spec => RegistrationSpec
<1>1. Init => RegistrationInit
  BY DEF Init
<1>2. [Next]_vars => [RegistrationNext]_registrationVars
  BY DEF Next, vars, registrationVars, RequestsRun, RegistrationRuns, AddressLimitRuns,
     CodeLimitRuns, BudgetRuns, ReferralRuns, ScoringRuns, DashboardRuns
<1>3. QED
  BY <1>1, <1>2, PTL DEF Spec, RegistrationSpec

LEMMA LimitsBehave == Spec => LimitSpec
<1>1. Init => LimitInit
  BY DEF Init
<1>2. [Next]_vars => [LimitNext]_limitVars
  BY DEF Next, vars, limitVars, ipVars, otpLimitVars, LimitNext, RequestsRun,
     RegistrationRuns, AddressLimitRuns, CodeLimitRuns, BudgetRuns, ReferralRuns,
     ScoringRuns, DashboardRuns
<1>3. QED
  BY <1>1, <1>2, PTL DEF Spec, LimitSpec

LEMMA BudgetBehaves == Spec => BudgetSpec
<1>1. Init => BudgetInit
  BY DEF Init
<1>2. [Next]_vars => [BudgetNext]_budgetVars
  BY DEF Next, vars, budgetVars, RequestsRun, RegistrationRuns, AddressLimitRuns,
     CodeLimitRuns, BudgetRuns, ReferralRuns, ScoringRuns, DashboardRuns
<1>3. QED
  BY <1>1, <1>2, PTL DEF Spec, BudgetSpec

LEMMA ReferralBehaves == Spec => ReferralSpec
<1>1. Init => ReferralInit
  BY DEF Init
<1>2. [Next]_vars => [ReferralNext]_referralVars
  BY DEF Next, vars, referralVars, RequestsRun, RegistrationRuns, AddressLimitRuns,
     CodeLimitRuns, BudgetRuns, ReferralRuns, ScoringRuns, DashboardRuns
<1>3. QED
  BY <1>1, <1>2, PTL DEF Spec, ReferralSpec

LEMMA DashboardBehaves == Spec => DashboardSpec
<1>1. Init => DashboardInit
  BY DEF Init
<1>2. [Next]_vars => [DashboardNext]_dashboardVars
  BY DEF Next, vars, dashboardVars, RequestsRun, RegistrationRuns, AddressLimitRuns,
     CodeLimitRuns, BudgetRuns, ReferralRuns, ScoringRuns, DashboardRuns
<1>3. QED
  BY <1>1, <1>2, PTL DEF Spec, DashboardSpec

LEMMA ScoringBehaves == Spec => ScoringSpec
<1>1. Init => ScoringInit
  BY DEF Init
<1>2. [Next]_vars => [ScoringNext]_answers
  BY DEF Next, vars, RequestsRun, RegistrationRuns,
     AddressLimitRuns, CodeLimitRuns, BudgetRuns, ReferralRuns, ScoringRuns, DashboardRuns
<1>3. QED
  BY <1>1, <1>2, PTL DEF Spec, ScoringSpec

\* What is proved of the parts holds of their composition, the specification
\* the endpoints are model-checked under.
THEOREM EndpointsAreSafe ==
  Spec => /\ []( /\ HonestAnswers /\ SignupsAreWhole /\ OtpSendsBounded /\ EachCrossingOnce
                 /\ OneReferralCode /\ PagesSkipNothing /\ InsightsAgree )
          /\ ScoresAreMeans
<1>1. Spec => []HonestAnswers
  BY RequestsBehave, AnswersAreHonest
<1>2. Spec => []SignupsAreWhole
  BY RegistrationBehaves, RegistrationsAreWhole
<1>3. Spec => []OtpSendsBounded
  BY LimitsBehave, OtpSendsAreBounded
<1>4. Spec => []EachCrossingOnce
  BY BudgetBehaves, CrossingsLoggedOnce
<1>5. Spec => []OneReferralCode
  BY ReferralBehaves, ReferralCodesAreOne
<1>6. Spec => []PagesSkipNothing /\ []InsightsAgree
  BY DashboardBehaves, HistoryIsShown, InsightsNeverDrift
<1>7. Spec => ScoresAreMeans
  BY ScoringBehaves, ScoresStayMeans
<1>8. QED
  BY <1>1, <1>2, <1>3, <1>4, <1>5, <1>6, <1>7, PTL
==============================================================================
