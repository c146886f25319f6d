---------------------------- MODULE ReferralCodes ----------------------------
(***************************************************************************)
(* GetReferralCode of application/profile/profile.go: the first request of *)
(* a user for a referral code creates it.  Concurrent requests of one user *)
(* and of several draw codes at random, look whether the code is taken and *)
(* insert it under the unique indexes on user_id and on code.  Each query  *)
(* is a step; an error of any of them ends the request.                    *)
(***************************************************************************)
EXTENDS Naturals

CONSTANTS
    Askers,        \* requests, once each
    Owners,        \* users
    OwnerOf,       \* OwnerOf[q]: who makes request q
    Codes,         \* codes that generateReferralCode may draw
    MaxAttempts,   \* maxCodeGenAttempts
    NoCode

ASSUME ReferralAssumption ==
    /\ OwnerOf \in [Askers -> Owners]
    /\ NoCode \notin Codes /\ MaxAttempts \in Nat

VARIABLES
    codeOf,    \* the table: codeOf[u], NoCode if u has none
    asker,     \* asker[q]: how far request q is
    drawn,     \* drawn[q]: the code it works with or was answered
    attempts   \* attempts[q]: draws that came to nothing

referralVars == <<codeOf, asker, drawn, attempts>>

AskerStep == {"arrived", "drawing", "fresh", "duplicate", "answered", "failed"}

ReferralTypeOK ==
    /\ codeOf \in [Owners -> Codes \cup {NoCode}]
    /\ asker \in [Askers -> AskerStep]
    /\ drawn \in [Askers -> Codes \cup {NoCode}]
    /\ attempts \in [Askers -> 0 .. MaxAttempts]

ReferralInit ==
    /\ codeOf = [u \in Owners |-> NoCode]
    /\ asker = [q \in Askers |-> "arrived"]
    /\ drawn = [q \in Askers |-> NoCode]
    /\ attempts = [q \in Askers |-> 0]

Taken(c) == \E u \in Owners : codeOf[u] = c
AskerGoto(q, step) == asker' = [asker EXCEPT ![q] = step]
AnswerWith(q, c) == AskerGoto(q, "answered") /\ drawn' = [drawn EXCEPT ![q] = c]

\* The next turn of the loop.
Continue(q) ==
    /\ attempts' = [attempts EXCEPT ![q] = @ + 1]
    /\ AskerGoto(q, "drawing")

-----------------------------------------------------------------------------
FindOwnCode(q) ==
    LET own == codeOf[OwnerOf[q]] IN
    /\ asker[q] = "arrived"
    /\ \/ own # NoCode /\ AnswerWith(q, own)
       \/ own = NoCode /\ AskerGoto(q, "drawing") /\ UNCHANGED drawn
    /\ UNCHANGED <<codeOf, attempts>>

DrawCode(q) ==
    /\ asker[q] = "drawing" /\ attempts[q] < MaxAttempts
    /\ \E c \in Codes :
          /\ drawn' = [drawn EXCEPT ![q] = c]
          /\ \/ Taken(c) /\ Continue(q)
             \/ ~Taken(c) /\ AskerGoto(q, "fresh") /\ UNCHANGED attempts
    /\ UNCHANGED codeOf

Exhausted(q) ==
    /\ asker[q] = "drawing" /\ attempts[q] = MaxAttempts
    /\ AskerGoto(q, "failed")
    /\ UNCHANGED <<codeOf, drawn, attempts>>

\* Mutant: no unique index on user_id.
CreateSecondCode(q) ==
    /\ asker[q] = "fresh"
    /\ \/ ~Taken(drawn[q])
          /\ codeOf' = [codeOf EXCEPT ![OwnerOf[q]] = drawn[q]]
          /\ AskerGoto(q, "answered")
       \/ Taken(drawn[q]) /\ AskerGoto(q, "duplicate") /\ UNCHANGED codeOf
    /\ UNCHANGED <<drawn, attempts>>

CreateCode(q) ==
    /\ asker[q] = "fresh"
    /\ IF codeOf[OwnerOf[q]] = NoCode /\ ~Taken(drawn[q])
       THEN /\ codeOf' = [codeOf EXCEPT ![OwnerOf[q]] = drawn[q]]
            /\ AskerGoto(q, "answered")
       ELSE AskerGoto(q, "duplicate") /\ UNCHANGED codeOf
    /\ UNCHANGED <<drawn, attempts>>

\* ErrDuplicatedKey does not say which index: the winner is looked up, and
\* without one, or when the lookup fails, the next code is drawn.
FindWinner(q) ==
    LET own == codeOf[OwnerOf[q]] IN
    /\ asker[q] = "duplicate"
    /\ \/ own # NoCode /\ AnswerWith(q, own) /\ UNCHANGED attempts
       \/ Continue(q) /\ UNCHANGED drawn
    /\ UNCHANGED codeOf

\* CreateCode may have executed although it answered with an error.
AskFails(q) ==
    /\ asker[q] \in {"arrived", "drawing", "fresh"}
    /\ AskerGoto(q, "failed")
    /\ \/ UNCHANGED codeOf
       \/ /\ asker[q] = "fresh"
          /\ codeOf[OwnerOf[q]] = NoCode /\ ~Taken(drawn[q])
          /\ codeOf' = [codeOf EXCEPT ![OwnerOf[q]] = drawn[q]]
    /\ UNCHANGED <<drawn, attempts>>

ReferralNext ==
    \E q \in Askers :
        \/ FindOwnCode(q) \/ DrawCode(q) \/ Exhausted(q)
        \/ CreateCode(q) \/ FindWinner(q) \/ AskFails(q)

ReferralSpec == ReferralInit /\ [][ReferralNext]_referralVars

-----------------------------------------------------------------------------
(* Properties *)

\* Every request that GetReferralCode answered names the code its user has in
\* the table, whichever request created it, and no code has two users.
OneReferralCode ==
    /\ \A q \in Askers : asker[q] = "answered" => drawn[q] = codeOf[OwnerOf[q]]
    /\ \A u, v \in Owners : codeOf[u] = codeOf[v] /\ codeOf[u] # NoCode => u = v
=============================================================================
