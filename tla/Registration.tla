---------------------------- MODULE Registration ----------------------------
(***************************************************************************)
(* RegisterUseCase.Register (application/auth/register.go): concurrent     *)
(* registrations with one e-mail address or one guest session, and the     *)
(* referral events they and the tests of their members leave.              *)
(*                                                                         *)
(* What Register reads before its transaction are steps of their own.  In  *)
(* the transaction the unique index on the e-mail makes a second insert    *)
(* wait, the verification mail is queued before the commit, and everything *)
(* else becomes visible with the commit.  A statement that fails aborts a  *)
(* Postgres transaction: that the code goes on after a failed lookup or    *)
(* insert of a referral event only moves the error to a later statement.   *)
(***************************************************************************)
EXTENDS Naturals

CONSTANTS
    Signups,          \* calls of Register; an account is named by its call
    EmailOf,          \* EmailOf[s]
    Sessions,         \* guest sessions
    CookieOf,         \* CookieOf[s]: the session of its cookie, or Nobody
    CodeOf,           \* CodeOf[s]: the referral code of the form
    MaxSignupFaults,  \* bound: failed operations and deaths of the process
    Nobody

Code == {"none", "known", "unknown"}

ASSUME RegistrationAssumption ==
    /\ CookieOf \in [Signups -> Sessions \cup {Nobody}]
    /\ CodeOf \in [Signups -> Code]
    /\ Signups \cap Sessions = {} /\ Nobody \notin Signups \cup Sessions
    /\ MaxSignupFaults \in Nat

VARIABLES
    signup,     \* signup[s]: how far call s is
    guestRead,  \* guestRead[s]: the session it read: "none", "open", "claimed"
    accounts,   \* the accounts there are
    claimedBy,  \* claimedBy[g]: claimed_by_user_id
    tested,     \* accounts and sessions that own a completed result
    events,     \* events[s][t]: referral events of account s
    mails,      \* the calls whose verification mail was queued
    answer,     \* answer[s]: the status of the response
    slipped,    \* history: signups that counted a test submitted meanwhile
    signupFaults

registrationVars == <<signup, guestRead, accounts, claimedBy, tested, events, mails,
                      answer, slipped, signupFaults>>

SignupStep == {"arrived", "screened", "free", "ready", "writing", "queued", "over"}
EventType == {"signup", "test_completed"}

RegistrationTypeOK ==
    /\ signup \in [Signups -> SignupStep]
    /\ guestRead \in [Signups -> {"none", "open", "claimed"}]
    /\ accounts \subseteq Signups /\ mails \subseteq Signups /\ slipped \subseteq Signups
    /\ claimedBy \in [Sessions -> Signups \cup {Nobody}]
    /\ tested \subseteq Signups \cup Sessions
    /\ events \in [Signups -> [EventType -> Nat]]
    /\ answer \in [Signups -> {"none", "201", "refused", "409", "500"}]
    /\ signupFaults \in 0 .. MaxSignupFaults

RegistrationInit ==
    /\ signup = [s \in Signups |-> "arrived"]
    /\ guestRead = [s \in Signups |-> "none"]
    /\ accounts = {} /\ mails = {} /\ tested = {} /\ slipped = {}
    /\ claimedBy = [g \in Sessions |-> Nobody]
    /\ events = [s \in Signups |-> [t \in EventType |-> 0]]
    /\ answer = [s \in Signups |-> "none"]
    /\ signupFaults = 0

tables == <<accounts, claimedBy, tested, events, slipped>>

Registered(email) == \E a \in accounts : EmailOf[a] = email
InTransaction(s) == signup[s] \in {"writing", "queued"}
SignupFault == signupFaults < MaxSignupFaults /\ signupFaults' = signupFaults + 1
SignupGoto(s, step) == signup' = [signup EXCEPT ![s] = step]
Reply(s, status) == SignupGoto(s, "over") /\ answer' = [answer EXCEPT ![s] = status]

-----------------------------------------------------------------------------
\* The limiter and the policy on e-mail, locale and password refuse; Redis and
\* the breach check let a call pass when they cannot answer.
Screen(s) ==
    /\ signup[s] = "arrived"
    /\ \/ SignupGoto(s, "screened") /\ UNCHANGED answer
       \/ Reply(s, "refused")
    /\ UNCHANGED <<guestRead, mails, tables, signupFaults>>

LookupEmail(s) ==
    /\ signup[s] = "screened"
    /\ IF Registered(EmailOf[s]) THEN Reply(s, "409")
       ELSE SignupGoto(s, "free") /\ UNCHANGED answer
    /\ UNCHANGED <<guestRead, mails, tables, signupFaults>>

FindGuest(s) ==
    /\ signup[s] = "free"
    /\ SignupGoto(s, "ready")
    /\ guestRead' = [guestRead EXCEPT ![s] =
           CASE CookieOf[s] = Nobody -> "none"
             [] CookieOf[s] # Nobody /\ claimedBy[CookieOf[s]] = Nobody -> "open"
             [] OTHER -> "claimed"]
    /\ UNCHANGED <<mails, tables, answer, signupFaults>>

\* Create.  A duplicate is an error like any other: the answer is 500.
InsertUser(s) ==
    /\ signup[s] = "ready"
    /\ \A other \in Signups : InTransaction(other) => EmailOf[other] # EmailOf[s]
    /\ IF Registered(EmailOf[s]) THEN Reply(s, "500")
       ELSE SignupGoto(s, "writing") /\ UNCHANGED answer
    /\ UNCHANGED <<guestRead, mails, tables, signupFaults>>

\* EnqueueEmail; its error is logged.
QueueMail(s) ==
    /\ signup[s] = "writing"
    /\ SignupGoto(s, "queued")
    /\ \/ mails' = mails \cup {s} /\ UNCHANGED signupFaults
       \/ SignupFault /\ UNCHANGED mails
    /\ UNCHANGED <<guestRead, tables, answer>>

\* recordReferralConversion, recordSignupEvent.  The results were reassigned
\* before they are counted: only one submitted in between is seen.
Recorded(s, late) ==
    IF CodeOf[s] = "known" /\ guestRead[s] # "claimed"
    THEN [events[s] EXCEPT !["signup"] = @ + 1, !["test_completed"] = @ + IF late THEN 1 ELSE 0]
    ELSE events[s]

\* What the commit of s makes visible; late: the session submitted a test
\* between the reassignment and the count.
Visible(s, late) ==
    LET g == CookieOf[s]
        moved == IF guestRead[s] = "open" /\ g \in tested THEN {g} ELSE {}
    IN  /\ accounts' = accounts \cup {s}
        /\ claimedBy' = IF guestRead[s] = "open" THEN [claimedBy EXCEPT ![g] = s] ELSE claimedBy
        /\ tested' = (tested \ moved) \cup (IF moved = {} THEN {} ELSE {s})
                                      \cup (IF late THEN {g} ELSE {})
        /\ events' = [events EXCEPT ![s] = Recorded(s, late)]
        /\ slipped' = IF late THEN slipped \cup {s} ELSE slipped

Commit(s) ==
    /\ signup[s] = "queued"
    /\ Visible(s, FALSE) \/ (guestRead[s] = "open" /\ Visible(s, TRUE))
    /\ \/ Reply(s, "201") /\ UNCHANGED signupFaults
       \/ SignupFault /\ Reply(s, "500")
    /\ UNCHANGED <<guestRead, mails>>

\* An error of any query: the transaction, if there is one, is rolled back.
SignupFails(s) ==
    /\ signup[s] \in {"screened", "free", "ready", "writing", "queued"}
    /\ SignupFault
    /\ Reply(s, "500")
    /\ UNCHANGED <<guestRead, mails, tables>>

\* The process dies, in a transaction too.
SignupDies(s) ==
    /\ signup[s] # "over"
    /\ SignupFault
    /\ SignupGoto(s, "over")
    /\ UNCHANGED <<guestRead, mails, tables, answer>>

-----------------------------------------------------------------------------
\* A guest's test; the session may have been claimed already.
GuestTest(g) ==
    /\ g \notin tested
    /\ tested' = tested \cup {g}
    /\ UNCHANGED <<signup, guestRead, accounts, claimedBy, events, mails, answer,
                   slipped, signupFaults>>

\* Mutant: every test of a referred member is a conversion.
MemberTestAlwaysCounts(s) ==
    /\ s \in accounts
    /\ events' = IF CodeOf[s] = "known"
                 THEN [events EXCEPT ![s]["test_completed"] = @ + 1] ELSE events
    /\ tested' = tested \cup {s}
    /\ UNCHANGED <<signup, guestRead, accounts, claimedBy, mails, answer, slipped,
                   signupFaults>>

\* A member's test: a conversion if it is the first the member owns.
MemberTest(s) ==
    /\ s \in accounts
    /\ events' = IF CodeOf[s] = "known" /\ s \notin tested
                 THEN [events EXCEPT ![s]["test_completed"] = @ + 1] ELSE events
    /\ tested' = tested \cup {s}
    /\ UNCHANGED <<signup, guestRead, accounts, claimedBy, mails, answer, slipped,
                   signupFaults>>

RegistrationNext ==
    \/ \E s \in Signups :
          \/ Screen(s) \/ LookupEmail(s) \/ FindGuest(s) \/ InsertUser(s)
          \/ QueueMail(s) \/ Commit(s) \/ SignupFails(s) \/ SignupDies(s) \/ MemberTest(s)
    \/ \E g \in Sessions : GuestTest(g)

RegistrationSpec == RegistrationInit /\ [][RegistrationNext]_registrationVars

-----------------------------------------------------------------------------
(* Properties *)

\* The answers hold although the address is looked up long before the insert:
\* 201 names an account whose verification mail was queued (or lost with a
\* fault), 409 an address that has an account, and an account is only there
\* if its call committed.
AnswersHold ==
    \A s \in Signups :
        /\ answer[s] = "201" => s \in accounts
        /\ answer[s] = "409" => Registered(EmailOf[s])
        /\ s \in accounts /\ signupFaults = 0 => answer[s] = "201" /\ s \in mails
        /\ \A other \in accounts : s \in accounts /\ EmailOf[other] = EmailOf[s] => other = s

\* A claim and an event belong to an account that exists: nothing of a
\* registration that was rolled back or died stays behind.
NothingHalfDone ==
    /\ \A g \in Sessions : claimedBy[g] \in accounts \cup {Nobody}
    /\ \A s \in Signups \ accounts : s \notin tested /\ \A t \in EventType : events[s][t] = 0

\* What GetReferralStats never says: it counts no account twice as a signup or
\* as a conversion, none for a code it did not name, and no conversion without
\* a test.  A signup is counted unless its cookie's session was claimed by
\* somebody else, and the first test of a member who took over no session is a
\* conversion.  Those who did take one over are ConversionsCounted's subject.
FunnelCounts ==
    \A s \in accounts :
        /\ CodeOf[s] # "known" => \A t \in EventType : events[s][t] = 0
        /\ CodeOf[s] = "known" =>
              /\ events[s]["signup"] = IF guestRead[s] = "claimed" THEN 0 ELSE 1
              /\ s \notin slipped => events[s]["test_completed"] <= 1
              /\ events[s]["test_completed"] > 0 => s \in tested \cup slipped
              /\ s \in tested /\ guestRead[s] # "open" => events[s]["test_completed"] = 1

SignupsAreWhole == AnswersHold /\ NothingHalfDone /\ FunnelCounts

\* What the API documentation says of GetReferralStats: the number of people
\* that signed up and completed a test with the caller's code.  A member of a
\* known code who owns a completed test is one of them, a test taken over from
\* the guest session with the registration included.
ConversionsCounted ==
    \A s \in accounts :
        CodeOf[s] = "known" /\ s \in tested => events[s]["test_completed"] >= 1
=============================================================================
