------------------------- MODULE Registration_proofs -------------------------
(***************************************************************************)
(* Proofs about what a new member does: Registration, for any number of    *)
(* calls, addresses, guest sessions and failures, and ReferralCodes, for   *)
(* any number of requests, users, codes and draws.                         *)
(***************************************************************************)
EXTENDS Registration, ReferralCodes, TLAPS

LEMMA RegistrationTypeInit == RegistrationInit => RegistrationTypeOK
  BY RegistrationAssumption
     DEF RegistrationInit, RegistrationTypeOK, SignupStep, EventType

\* The events of a commit keep their shape: zero becomes at most one.
LEMMA RecordedEvents ==
  ASSUME RegistrationTypeOK, NEW s \in Signups, NEW late \in BOOLEAN
  PROVE  /\ Recorded(s, late) \in [EventType -> Nat]
         /\ CodeOf[s] # "known" \/ guestRead[s] = "claimed" => Recorded(s, late) = events[s]
         /\ CodeOf[s] = "known" /\ guestRead[s] # "claimed" =>
               /\ Recorded(s, late)["signup"] = events[s]["signup"] + 1
               /\ ~late => Recorded(s, late)["test_completed"] = events[s]["test_completed"]
               /\ late => Recorded(s, late)["test_completed"] = events[s]["test_completed"] + 1
<1> USE DEF RegistrationTypeOK, EventType
<1>1. events[s] \in [EventType -> Nat]
  OBVIOUS
<1>2. CASE late
  BY <1>1, <1>2 DEF Recorded
<1>3. CASE ~late
  BY <1>1, <1>3 DEF Recorded
<1>4. QED
  BY <1>2, <1>3

(***************************************************************************)
(* What a commit does, read off the five tables.                           *)
(***************************************************************************)
LEMMA WhatCommits ==
  ASSUME RegistrationTypeOK, NEW s \in Signups, NEW late \in BOOLEAN, Visible(s, late),
         guestRead[s] = "open" => CookieOf[s] \in Sessions, late => guestRead[s] = "open"
  PROVE  /\ accounts' = accounts \cup {s}
         /\ claimedBy' \in [Sessions -> Signups \cup {Nobody}]
         /\ \A g \in Sessions : claimedBy'[g] \in {claimedBy[g], s}
         /\ tested' \subseteq Signups \cup Sessions
         /\ \A a \in Signups \ {s} : a \in tested' <=> a \in tested
         /\ guestRead[s] # "open" => tested' = tested
         /\ events' = [events EXCEPT ![s] = Recorded(s, late)]
         /\ events' \in [Signups -> [EventType -> Nat]]
         /\ late => slipped' = slipped \cup {s}
         /\ ~late => slipped' = slipped
<1> USE RegistrationAssumption DEF RegistrationTypeOK, Visible
<1>1. events' = [events EXCEPT ![s] = Recorded(s, late)] /\ accounts' = accounts \cup {s}
  OBVIOUS
<1>2. events' \in [Signups -> [EventType -> Nat]]
  BY <1>1, RecordedEvents
<1>3. /\ claimedBy' \in [Sessions -> Signups \cup {Nobody}]
      /\ \A g \in Sessions : claimedBy'[g] \in {claimedBy[g], s}
  <2>1. CASE guestRead[s] = "open"
    BY <2>1
  <2>2. CASE guestRead[s] # "open"
    BY <2>2
  <2>3. QED
    BY <2>1, <2>2
<1>4. /\ tested' \subseteq Signups \cup Sessions
      /\ \A a \in Signups \ {s} : a \in tested' <=> a \in tested
      /\ guestRead[s] # "open" => tested' = tested
  <2> DEFINE moved == IF guestRead[s] = "open" /\ CookieOf[s] \in tested
                      THEN {CookieOf[s]} ELSE {}
  <2>1. tested' = (tested \ moved) \cup (IF moved = {} THEN {} ELSE {s})
                                   \cup (IF late THEN {CookieOf[s]} ELSE {})
    OBVIOUS
  <2>2. CASE guestRead[s] = "open"
    <3>1. \A x : x \in tested' => x \in tested \cup {s, CookieOf[s]}
      BY <2>1
    <3>2. \A x : x \in tested /\ x # CookieOf[s] => x \in tested'
      BY <2>1
    <3>3. QED
      BY <2>2, <3>1, <3>2
  <2>3. CASE guestRead[s] # "open"
    BY <2>1, <2>3
  <2>4. QED
    BY <2>2, <2>3
<1>5. /\ late => slipped' = slipped \cup {s}
      /\ ~late => slipped' = slipped
  OBVIOUS
<1>6. QED
  BY <1>1, <1>2, <1>3, <1>4, <1>5

(***************************************************************************)
(* The inductive invariant.  A call answers when it is over and its        *)
(* account is there only then; the address of an account or of an open     *)
(* transaction is nobody else's, because the unique index makes the insert *)
(* wait; and a claim was read with the session it claims.                  *)
(***************************************************************************)
AnswersWhenOver ==
    \A s \in Signups : (answer[s] # "none" \/ s \in accounts) => signup[s] = "over"

Holds(s) == s \in accounts \/ InTransaction(s)

AddressesAreUnique ==
    \A s, t \in Signups : Holds(s) /\ Holds(t) /\ EmailOf[s] = EmailOf[t] => s = t

MailsAreQueued ==
    \A s \in Signups : signup[s] = "queued" /\ signupFaults = 0 => s \in mails

GuestsWereThere ==
    \A s \in Signups :
        /\ guestRead[s] = "open" => CookieOf[s] \in Sessions
        /\ s \in slipped => guestRead[s] = "open"
        /\ signup[s] \in {"arrived", "screened", "free"} => guestRead[s] = "none"

AnswersTrue ==
    \A s \in Signups :
        /\ answer[s] = "201" => s \in accounts
        /\ answer[s] = "409" => Registered(EmailOf[s])
        /\ s \in accounts /\ signupFaults = 0 => answer[s] = "201" /\ s \in mails

RegistrationIInv ==
    /\ RegistrationTypeOK /\ AnswersWhenOver /\ AddressesAreUnique /\ MailsAreQueued
    /\ GuestsWereThere /\ AnswersTrue /\ NothingHalfDone /\ FunnelCounts

LEMMA RegistrationInitially == RegistrationInit => RegistrationIInv
<1> SUFFICES ASSUME RegistrationInit PROVE RegistrationIInv
  OBVIOUS
<1>1. RegistrationTypeOK
  BY RegistrationTypeInit
<1>2. QED
  BY <1>1
     DEF RegistrationInit, RegistrationIInv, AnswersWhenOver, AddressesAreUnique, Holds,
         InTransaction, MailsAreQueued, GuestsWereThere, AnswersTrue, NothingHalfDone,
         FunnelCounts

\* A step that leaves the tables alone keeps what is said of them.
LEMMA TablesKept ==
  ASSUME NothingHalfDone, FunnelCounts, UNCHANGED tables,
         \A s \in accounts : guestRead'[s] = guestRead[s]
  PROVE  NothingHalfDone' /\ FunnelCounts'
  BY DEF NothingHalfDone, FunnelCounts, tables

LEMMA RegistrationInductive ==
  RegistrationIInv /\ [RegistrationNext]_registrationVars => RegistrationIInv'
<1> SUFFICES ASSUME RegistrationIInv, [RegistrationNext]_registrationVars
             PROVE  RegistrationIInv'
  OBVIOUS
<1> USE RegistrationAssumption DEF RegistrationIInv, SignupStep, SignupGoto, SignupFault, Reply
<1>1. ASSUME NEW s \in Signups, Screen(s)
      PROVE  RegistrationIInv'
  <2>1. RegistrationTypeOK'
    <3>1. UNCHANGED <<guestRead, mails, tables, signupFaults>>
      BY <1>1 DEF Screen
    <3>2. CASE SignupGoto(s, "screened") /\ UNCHANGED answer
      BY <3>1, <3>2 DEF RegistrationTypeOK, tables
    <3>3. CASE Reply(s, "refused")
      BY <3>1, <3>3 DEF RegistrationTypeOK, tables
    <3>4. QED
      BY <1>1, <3>2, <3>3 DEF Screen
  <2>2. NothingHalfDone' /\ FunnelCounts'
    BY <1>1, TablesKept DEF Screen, AnswersWhenOver, RegistrationTypeOK
  <2>3. AnswersWhenOver' /\ AnswersTrue'
    BY <1>1 DEF Screen, AnswersWhenOver, AnswersTrue, Registered, RegistrationTypeOK, tables
  <2>4. AddressesAreUnique'
    BY <1>1 DEF Screen, AddressesAreUnique, Holds, InTransaction, Registered,
                RegistrationTypeOK, tables
  <2>5. MailsAreQueued' /\ GuestsWereThere'
    BY <1>1 DEF Screen, MailsAreQueued, GuestsWereThere, RegistrationTypeOK, tables
  <2>6. QED
    BY <2>1, <2>2, <2>3, <2>4, <2>5
<1>2. ASSUME NEW s \in Signups, LookupEmail(s)
      PROVE  RegistrationIInv'
  <2>1. RegistrationTypeOK'
    BY <1>2 DEF LookupEmail, RegistrationTypeOK, tables
  <2>2. NothingHalfDone' /\ FunnelCounts'
    BY <1>2, TablesKept DEF LookupEmail, AnswersWhenOver, RegistrationTypeOK
  <2>3. AnswersWhenOver' /\ AnswersTrue'
    BY <1>2 DEF LookupEmail, AnswersWhenOver, AnswersTrue, Registered,
                RegistrationTypeOK, tables
  <2>4. AddressesAreUnique'
    BY <1>2 DEF LookupEmail, AddressesAreUnique, Holds, InTransaction, Registered,
                RegistrationTypeOK, tables
  <2>5. MailsAreQueued' /\ GuestsWereThere'
    BY <1>2 DEF LookupEmail, MailsAreQueued, GuestsWereThere, RegistrationTypeOK, tables
  <2>6. QED
    BY <2>1, <2>2, <2>3, <2>4, <2>5
<1>3. ASSUME NEW s \in Signups, FindGuest(s)
      PROVE  RegistrationIInv'
  <2>1. RegistrationTypeOK'
    BY <1>3 DEF FindGuest, RegistrationTypeOK, tables
  <2>2. NothingHalfDone' /\ FunnelCounts'
    BY <1>3, TablesKept DEF FindGuest, AnswersWhenOver, RegistrationTypeOK
  <2>3. AnswersWhenOver' /\ AnswersTrue'
    BY <1>3 DEF FindGuest, AnswersWhenOver, AnswersTrue, Registered, RegistrationTypeOK,
                tables
  <2>4. AddressesAreUnique'
    BY <1>3 DEF FindGuest, AddressesAreUnique, Holds, InTransaction, Registered,
                RegistrationTypeOK, tables
  <2>5. MailsAreQueued' /\ GuestsWereThere'
    BY <1>3 DEF FindGuest, MailsAreQueued, GuestsWereThere, RegistrationTypeOK, tables
  <2>6. QED
    BY <2>1, <2>2, <2>3, <2>4, <2>5
<1>4. ASSUME NEW s \in Signups, InsertUser(s)
      PROVE  RegistrationIInv'
  <2>1. RegistrationTypeOK'
    BY <1>4 DEF InsertUser, RegistrationTypeOK, tables
  <2>2. NothingHalfDone' /\ FunnelCounts'
    BY <1>4, TablesKept DEF InsertUser, AnswersWhenOver, RegistrationTypeOK
  <2>3. AnswersWhenOver' /\ AnswersTrue'
    BY <1>4 DEF InsertUser, AnswersWhenOver, AnswersTrue, Registered, RegistrationTypeOK,
                tables
  <2>4. AddressesAreUnique'
    BY <1>4 DEF InsertUser, AddressesAreUnique, Holds, InTransaction, Registered,
                RegistrationTypeOK, tables
  <2>5. MailsAreQueued' /\ GuestsWereThere'
    BY <1>4 DEF InsertUser, MailsAreQueued, GuestsWereThere, RegistrationTypeOK, tables
  <2>6. QED
    BY <2>1, <2>2, <2>3, <2>4, <2>5
<1>5. ASSUME NEW s \in Signups, QueueMail(s)
      PROVE  RegistrationIInv'
  <2>1. RegistrationTypeOK'
    BY <1>5 DEF QueueMail, RegistrationTypeOK, tables
  <2>2. NothingHalfDone' /\ FunnelCounts'
    BY <1>5, TablesKept DEF QueueMail, AnswersWhenOver, RegistrationTypeOK
  <2>3. AnswersWhenOver' /\ AnswersTrue'
    BY <1>5 DEF QueueMail, AnswersWhenOver, AnswersTrue, Registered, RegistrationTypeOK,
                tables
  <2>4. AddressesAreUnique'
    BY <1>5 DEF QueueMail, AddressesAreUnique, Holds, InTransaction, Registered,
                RegistrationTypeOK, tables
  <2>5. MailsAreQueued' /\ GuestsWereThere'
    BY <1>5 DEF QueueMail, MailsAreQueued, GuestsWereThere, RegistrationTypeOK, tables
  <2>6. QED
    BY <2>1, <2>2, <2>3, <2>4, <2>5
<1>6. ASSUME NEW s \in Signups, SignupFails(s)
      PROVE  RegistrationIInv'
  <2>1. RegistrationTypeOK'
    BY <1>6 DEF SignupFails, RegistrationTypeOK, tables
  <2>2. NothingHalfDone' /\ FunnelCounts'
    BY <1>6, TablesKept DEF SignupFails, AnswersWhenOver, RegistrationTypeOK
  <2>3. AnswersWhenOver' /\ AnswersTrue'
    BY <1>6 DEF SignupFails, AnswersWhenOver, AnswersTrue, Registered,
                RegistrationTypeOK, tables
  <2>4. AddressesAreUnique'
    BY <1>6 DEF SignupFails, AddressesAreUnique, Holds, InTransaction, Registered,
                RegistrationTypeOK, tables
  <2>5. MailsAreQueued' /\ GuestsWereThere'
    BY <1>6 DEF SignupFails, MailsAreQueued, GuestsWereThere, RegistrationTypeOK, tables
  <2>6. QED
    BY <2>1, <2>2, <2>3, <2>4, <2>5
<1>7. ASSUME NEW s \in Signups, SignupDies(s)
      PROVE  RegistrationIInv'
  <2>1. RegistrationTypeOK'
    BY <1>7 DEF SignupDies, RegistrationTypeOK, tables
  <2>2. NothingHalfDone' /\ FunnelCounts'
    BY <1>7, TablesKept DEF SignupDies, AnswersWhenOver, RegistrationTypeOK
  <2>3. AnswersWhenOver' /\ AnswersTrue'
    BY <1>7 DEF SignupDies, AnswersWhenOver, AnswersTrue, Registered, RegistrationTypeOK,
                tables
  <2>4. AddressesAreUnique'
    BY <1>7 DEF SignupDies, AddressesAreUnique, Holds, InTransaction, Registered,
                RegistrationTypeOK, tables
  <2>5. MailsAreQueued' /\ GuestsWereThere'
    BY <1>7 DEF SignupDies, MailsAreQueued, GuestsWereThere, RegistrationTypeOK, tables
  <2>6. QED
    BY <2>1, <2>2, <2>3, <2>4, <2>5
<1>8. ASSUME NEW s \in Signups, Commit(s)
      PROVE  RegistrationIInv'
  <2>1. /\ signup[s] = "queued" /\ signup' = [signup EXCEPT ![s] = "over"]
        /\ UNCHANGED <<guestRead, mails>>
        /\ \/ signupFaults' = signupFaults /\ answer' = [answer EXCEPT ![s] = "201"]
           \/ /\ signupFaults < MaxSignupFaults /\ signupFaults' = signupFaults + 1
              /\ answer' = [answer EXCEPT ![s] = "500"]
    BY <1>8 DEF Commit
  <2>2. s \notin accounts
    BY <2>1 DEF AnswersWhenOver
  <2>3. PICK late \in BOOLEAN : Visible(s, late) /\ (late => guestRead[s] = "open")
    BY <1>8 DEF Commit
  <2>4. /\ accounts' = accounts \cup {s}
        /\ claimedBy' \in [Sessions -> Signups \cup {Nobody}]
        /\ \A g \in Sessions : claimedBy'[g] \in {claimedBy[g], s}
        /\ tested' \subseteq Signups \cup Sessions
        /\ \A a \in Signups \ {s} : a \in tested' <=> a \in tested
        /\ guestRead[s] # "open" => tested' = tested
        /\ events' = [events EXCEPT ![s] = Recorded(s, late)]
        /\ events' \in [Signups -> [EventType -> Nat]]
        /\ late => slipped' = slipped \cup {s}
        /\ ~late => slipped' = slipped
    BY <2>3, WhatCommits DEF GuestsWereThere
  <2>5. slipped' \subseteq slipped \cup {s} /\ slipped \subseteq slipped'
    BY <2>4
  <2>6. RegistrationTypeOK'
    BY <2>1, <2>4, <2>5 DEF RegistrationTypeOK
  <2>7. AnswersWhenOver' /\ AnswersTrue'
    BY <2>1, <2>4 DEF AnswersWhenOver, AnswersTrue, MailsAreQueued, Registered,
                      RegistrationTypeOK
  <2>8. AddressesAreUnique'
    BY <2>1, <2>4 DEF AddressesAreUnique, Holds, InTransaction, RegistrationTypeOK
  <2>9. MailsAreQueued' /\ GuestsWereThere'
    <3>1. s \in slipped' => guestRead[s] = "open"
      BY <2>3, <2>4 DEF GuestsWereThere
    <3>2. QED
      BY <2>1, <2>5, <3>1 DEF MailsAreQueued, GuestsWereThere, RegistrationTypeOK
  <2>10. NothingHalfDone'
    BY <2>4 DEF NothingHalfDone, RegistrationTypeOK
  <2>11. FunnelCounts'
    <3>1. /\ events[s]["signup"] = 0 /\ events[s]["test_completed"] = 0
          /\ s \notin tested
      BY <2>2 DEF NothingHalfDone, EventType
    <3>2. \A a \in accounts : events'[a] = events[a] /\ (a \in tested' <=> a \in tested)
                              /\ (a \in slipped' <=> a \in slipped)
      BY <2>2, <2>4, <2>5 DEF RegistrationTypeOK
    <3>3. events'[s] = Recorded(s, late)
      BY <2>4 DEF RegistrationTypeOK
    <3>4. /\ CodeOf[s] # "known" \/ guestRead[s] = "claimed" => events'[s] = events[s]
          /\ CodeOf[s] = "known" /\ guestRead[s] # "claimed" =>
                /\ events'[s]["signup"] = 1
                /\ ~late => events'[s]["test_completed"] = 0
                /\ late => events'[s]["test_completed"] = 1
      BY <3>1, <3>3, RecordedEvents
    <3>5. /\ CodeOf[s] # "known" => \A t \in EventType : events'[s][t] = 0
          /\ CodeOf[s] = "known" =>
                /\ events'[s]["signup"] = IF guestRead[s] = "claimed" THEN 0 ELSE 1
                /\ s \notin slipped' => events'[s]["test_completed"] <= 1
                /\ events'[s]["test_completed"] > 0 => s \in tested' \cup slipped'
                /\ ~(s \in tested' /\ guestRead[s] # "open")
      <4>1. CASE late
        BY <2>3, <2>4, <3>1, <3>4, <4>1 DEF EventType
      <4>2. CASE ~late
        BY <2>4, <3>1, <3>4, <4>2 DEF EventType
      <4>3. QED
        BY <4>1, <4>2
    <3>6. QED
      BY <2>1, <2>4, <3>2, <3>5 DEF FunnelCounts
  <2>12. QED
    BY <2>6, <2>7, <2>8, <2>9, <2>10, <2>11
<1>9. ASSUME NEW s \in Signups, MemberTest(s)
      PROVE  RegistrationIInv'
  <2>1. /\ s \in accounts /\ tested' = tested \cup {s}
        /\ UNCHANGED <<signup, guestRead, accounts, claimedBy, mails, answer, slipped,
                       signupFaults>>
        /\ events' = IF CodeOf[s] = "known" /\ s \notin tested
                     THEN [events EXCEPT ![s]["test_completed"] = @ + 1] ELSE events
    BY <1>9 DEF MemberTest
  <2>2. \A a \in Signups : events[a] \in [EventType -> Nat]
    BY DEF RegistrationTypeOK
  <2>3. /\ \A a \in Signups \ {s} : events'[a] = events[a]
        /\ CodeOf[s] = "known" /\ s \notin tested =>
              /\ events'[s]["test_completed"] = events[s]["test_completed"] + 1
              /\ events'[s]["signup"] = events[s]["signup"]
        /\ ~(CodeOf[s] = "known" /\ s \notin tested) => events'[s] = events[s]
        /\ events' \in [Signups -> [EventType -> Nat]]
    BY <2>1, <2>2 DEF RegistrationTypeOK, EventType
  <2>4. RegistrationTypeOK'
    BY <2>1, <2>3 DEF RegistrationTypeOK
  <2>5. AnswersWhenOver' /\ AnswersTrue' /\ AddressesAreUnique' /\ MailsAreQueued' /\ GuestsWereThere'
    BY <2>1 DEF AnswersWhenOver, AnswersTrue, Registered, AddressesAreUnique, Holds,
                InTransaction, MailsAreQueued, GuestsWereThere
  <2>6. NothingHalfDone'
    BY <2>1, <2>3 DEF NothingHalfDone
  <2>7. FunnelCounts'
    <3>1. CASE CodeOf[s] = "known" /\ s \notin tested
      <4>1. events[s]["test_completed"] \in Nat
        BY <2>2, <2>1 DEF EventType, RegistrationTypeOK
      <4>2. s \notin slipped => events[s]["test_completed"] = 0
        BY <2>1, <3>1, <4>1 DEF FunnelCounts
      <4>3. guestRead[s] # "open" => s \notin slipped
        BY DEF GuestsWereThere
      <4>4. QED
        BY <2>1, <2>3, <3>1, <4>1, <4>2, <4>3 DEF FunnelCounts, RegistrationTypeOK
    <3>2. CASE ~(CodeOf[s] = "known" /\ s \notin tested)
      BY <2>1, <2>3, <3>2 DEF FunnelCounts, RegistrationTypeOK
    <3>3. QED
      BY <3>1, <3>2
  <2>8. QED
    BY <2>4, <2>5, <2>6, <2>7
<1>10. ASSUME NEW g \in Sessions, GuestTest(g)
      PROVE  RegistrationIInv'
  <2>1. /\ tested' = tested \cup {g}
        /\ UNCHANGED <<signup, guestRead, accounts, claimedBy, events, mails, answer, slipped,
                       signupFaults>>
    BY <1>10 DEF GuestTest
  <2>2. RegistrationTypeOK'
    BY <2>1 DEF RegistrationTypeOK
  <2>3. AnswersWhenOver' /\ AnswersTrue' /\ AddressesAreUnique' /\ MailsAreQueued' /\ GuestsWereThere'
    BY <2>1 DEF AnswersWhenOver, AnswersTrue, Registered, AddressesAreUnique, Holds,
                InTransaction, MailsAreQueued, GuestsWereThere
  <2>4. \A a \in Signups : a \in tested' <=> a \in tested
    BY <2>1
  <2>5. NothingHalfDone' /\ FunnelCounts'
    BY <2>1, <2>4 DEF NothingHalfDone, FunnelCounts, RegistrationTypeOK
  <2>6. QED
    BY <2>2, <2>3, <2>5
<1>11. ASSUME UNCHANGED registrationVars
      PROVE  RegistrationIInv'
  BY <1>11 DEF registrationVars, RegistrationTypeOK, AnswersWhenOver, AnswersTrue,
               Registered,
           AddressesAreUnique, Holds, InTransaction, MailsAreQueued, GuestsWereThere,
           NothingHalfDone, FunnelCounts
<1>12. QED
  BY <1>1, <1>2, <1>3, <1>4, <1>5, <1>6, <1>7, <1>8, <1>9, <1>10, <1>11 DEF RegistrationNext

LEMMA RegistrationInvariant == RegistrationSpec => []RegistrationIInv
<1>1. QED
  BY RegistrationInitially, RegistrationInductive, PTL DEF RegistrationSpec

-----------------------------------------------------------------------------
\* Type correctness.
THEOREM RegistrationTypeCorrect == RegistrationSpec => []RegistrationTypeOK
<1>1. RegistrationIInv => RegistrationTypeOK
  BY DEF RegistrationIInv
<1>2. QED
  BY <1>1, RegistrationInvariant, PTL

\* Register is all or nothing and answers what it did, an address has one
\* account however the calls race, and the referral funnel counts a member
\* once, with the exceptions FunnelCounts names.
THEOREM RegistrationsAreWhole == RegistrationSpec => []SignupsAreWhole
<1>1. RegistrationIInv => SignupsAreWhole
  <2> SUFFICES ASSUME RegistrationIInv PROVE SignupsAreWhole
    OBVIOUS
  <2>1. AnswersHold
    BY DEF RegistrationIInv, RegistrationTypeOK, AnswersTrue, AddressesAreUnique, Holds,
           AnswersHold
  <2>2. QED
    BY <2>1 DEF RegistrationIInv, SignupsAreWhole
<1>2. QED
  BY <1>1, RegistrationInvariant, PTL

-----------------------------------------------------------------------------
(***************************************************************************)
(* An answer stays true because a code is never taken away from its owner: *)
(* what was answered is a code, and a user who has one keeps it.  A        *)
(* request that is about to insert a code, or was told that its insert was *)
(* a duplicate, holds a code and has a draw left.                          *)
(***************************************************************************)
AnswersAreCodes ==
    \A q \in Askers : asker[q] = "answered" =>
        codeOf[OwnerOf[q]] # NoCode /\ drawn[q] = codeOf[OwnerOf[q]]

CodesAreOwn ==
    \A u, v \in Owners : codeOf[u] = codeOf[v] /\ codeOf[u] # NoCode => u = v

DrawsAreCodes ==
    \A q \in Askers : asker[q] \in {"fresh", "duplicate"} =>
        drawn[q] \in Codes /\ attempts[q] < MaxAttempts

ReferralIInv == ReferralTypeOK /\ AnswersAreCodes /\ CodesAreOwn /\ DrawsAreCodes

LEMMA ReferralInitially == ReferralInit => ReferralIInv
  BY ReferralAssumption
     DEF ReferralInit, ReferralIInv, ReferralTypeOK, AnswersAreCodes, CodesAreOwn,
         DrawsAreCodes, AskerStep

\* The insert of request q under both unique indexes, whether or not its
\* answer arrives.
LEMMA InsertKeepsCodes ==
  ASSUME ReferralIInv, NEW q \in Askers, asker[q] = "fresh",
         codeOf[OwnerOf[q]] = NoCode, ~Taken(drawn[q]),
         codeOf' = [codeOf EXCEPT ![OwnerOf[q]] = drawn[q]]
  PROVE  /\ codeOf' \in [Owners -> Codes \cup {NoCode}]
         /\ codeOf'[OwnerOf[q]] = drawn[q] /\ drawn[q] # NoCode
         /\ \A u \in Owners : codeOf[u] # NoCode => codeOf'[u] = codeOf[u]
         /\ CodesAreOwn'
<1> USE ReferralAssumption DEF ReferralIInv, ReferralTypeOK, DrawsAreCodes
<1>1. OwnerOf[q] \in Owners /\ drawn[q] \in Codes
  OBVIOUS
<1>2. \A u \in Owners :
         codeOf'[u] = IF u = OwnerOf[q] THEN drawn[q] ELSE codeOf[u]
  OBVIOUS
<1>3. CodesAreOwn'
  <2> SUFFICES ASSUME NEW u \in Owners, NEW v \in Owners,
                      codeOf'[u] = codeOf'[v], codeOf'[u] # NoCode
               PROVE  u = v
    BY DEF CodesAreOwn
  <2>1. \A w \in Owners : codeOf[w] # drawn[q]
    BY DEF Taken
  <2>2. CASE u # OwnerOf[q] /\ v # OwnerOf[q]
    BY <1>2, <2>2 DEF CodesAreOwn
  <2>3. CASE u = OwnerOf[q] \/ v = OwnerOf[q]
    BY <1>2, <2>1, <2>3
  <2>4. QED
    BY <2>2, <2>3
<1>4. QED
  BY <1>1, <1>2, <1>3

LEMMA ReferralInductive == ReferralIInv /\ [ReferralNext]_referralVars => ReferralIInv'
<1> SUFFICES ASSUME ReferralIInv, [ReferralNext]_referralVars
             PROVE  ReferralIInv'
  OBVIOUS
<1> USE ReferralAssumption DEF ReferralTypeOK, AskerStep, AskerGoto
<1>1. ASSUME NEW q \in Askers, FindOwnCode(q)
      PROVE  ReferralIInv'
  BY <1>1 DEF FindOwnCode, AnswerWith, ReferralIInv, AnswersAreCodes, CodesAreOwn, DrawsAreCodes
<1>2. ASSUME NEW q \in Askers, DrawCode(q)
      PROVE  ReferralIInv'
  <2>1. PICK c \in Codes :
           /\ drawn' = [drawn EXCEPT ![q] = c]
           /\ \/ Continue(q)
              \/ AskerGoto(q, "fresh") /\ UNCHANGED attempts
    BY <1>2 DEF DrawCode
  <2>2. asker[q] = "drawing" /\ attempts[q] < MaxAttempts /\ UNCHANGED codeOf
    BY <1>2 DEF DrawCode
  <2>3. ReferralTypeOK'
    BY <2>1, <2>2 DEF Continue, ReferralIInv
  <2>4. QED
    BY <2>1, <2>2, <2>3
       DEF Continue, ReferralIInv, AnswersAreCodes, CodesAreOwn, DrawsAreCodes
<1>3. ASSUME NEW q \in Askers, Exhausted(q)
      PROVE  ReferralIInv'
  BY <1>3 DEF Exhausted, ReferralIInv, AnswersAreCodes, CodesAreOwn, DrawsAreCodes
<1>4. ASSUME NEW q \in Askers, CreateCode(q)
      PROVE  ReferralIInv'
  <2>1. CASE codeOf[OwnerOf[q]] = NoCode /\ ~Taken(drawn[q])
    <3>1. /\ asker[q] = "fresh" /\ asker' = [asker EXCEPT ![q] = "answered"]
          /\ codeOf' = [codeOf EXCEPT ![OwnerOf[q]] = drawn[q]]
          /\ UNCHANGED <<drawn, attempts>>
      BY <1>4, <2>1 DEF CreateCode
    <3>2. /\ codeOf' \in [Owners -> Codes \cup {NoCode}]
          /\ codeOf'[OwnerOf[q]] = drawn[q] /\ drawn[q] # NoCode
          /\ \A u \in Owners : codeOf[u] # NoCode => codeOf'[u] = codeOf[u]
          /\ CodesAreOwn'
      BY <2>1, <3>1, InsertKeepsCodes
    <3>3. QED
      BY <3>1, <3>2 DEF ReferralIInv, AnswersAreCodes, DrawsAreCodes
  <2>2. CASE ~(codeOf[OwnerOf[q]] = NoCode /\ ~Taken(drawn[q]))
    BY <1>4, <2>2
       DEF CreateCode, ReferralIInv, AnswersAreCodes, CodesAreOwn, DrawsAreCodes
  <2>3. QED
    BY <2>1, <2>2
<1>5. ASSUME NEW q \in Askers, FindWinner(q)
      PROVE  ReferralIInv'
  BY <1>5 DEF FindWinner, AnswerWith, Continue, ReferralIInv, AnswersAreCodes,
              CodesAreOwn, DrawsAreCodes
<1>6. ASSUME NEW q \in Askers, AskFails(q)
      PROVE  ReferralIInv'
  <2>1. CASE UNCHANGED codeOf
    BY <1>6, <2>1
       DEF AskFails, ReferralIInv, AnswersAreCodes, CodesAreOwn, DrawsAreCodes
  <2>2. CASE codeOf' # codeOf
    <3>1. /\ asker[q] = "fresh" /\ asker' = [asker EXCEPT ![q] = "failed"]
          /\ codeOf[OwnerOf[q]] = NoCode /\ ~Taken(drawn[q])
          /\ codeOf' = [codeOf EXCEPT ![OwnerOf[q]] = drawn[q]]
          /\ UNCHANGED <<drawn, attempts>>
      BY <1>6, <2>2 DEF AskFails
    <3>2. /\ codeOf' \in [Owners -> Codes \cup {NoCode}]
          /\ \A u \in Owners : codeOf[u] # NoCode => codeOf'[u] = codeOf[u]
          /\ CodesAreOwn'
      BY <3>1, InsertKeepsCodes
    <3>3. QED
      BY <3>1, <3>2 DEF ReferralIInv, AnswersAreCodes, DrawsAreCodes
  <2>3. QED
    BY <2>1, <2>2
<1>7. CASE UNCHANGED referralVars
  BY <1>7 DEF referralVars, ReferralIInv, AnswersAreCodes, CodesAreOwn, DrawsAreCodes
<1>8. QED
  BY <1>1, <1>2, <1>3, <1>4, <1>5, <1>6, <1>7 DEF ReferralNext

LEMMA ReferralInvariant == ReferralSpec => []ReferralIInv
<1>1. QED
  BY ReferralInitially, ReferralInductive, PTL DEF ReferralSpec

-----------------------------------------------------------------------------
\* Type correctness: no request draws more often than maxCodeGenAttempts, on
\* whichever path of the loop it continues.
THEOREM ReferralTypeCorrect == ReferralSpec => []ReferralTypeOK
<1>1. ReferralIInv => ReferralTypeOK
  BY DEF ReferralIInv
<1>2. QED
  BY <1>1, ReferralInvariant, PTL

\* GetReferralCode: every answer names the code its user has in the table,
\* and no code has two users, however the requests interleave and fail.
THEOREM ReferralCodesAreOne == ReferralSpec => []OneReferralCode
<1>1. ReferralIInv => OneReferralCode
  BY DEF ReferralIInv, AnswersAreCodes, CodesAreOwn, OneReferralCode
<1>2. QED
  BY <1>1, ReferralInvariant, PTL
=============================================================================
