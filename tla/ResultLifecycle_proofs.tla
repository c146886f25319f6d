----------------------- MODULE ResultLifecycle_proofs -----------------------
(***************************************************************************)
(* Proofs about ResultLifecycle, for any number of guests, members,        *)
(* results, edits, failures and stale saves.                               *)
(***************************************************************************)
EXTENDS ResultLifecycle, TLAPS

\* What UPDATE of the report's columns leaves alone: the row is there if it
\* was, and its owner is the same.
SameOwners ==
    \A r \in Results :
        /\ row'[r] = NoRow <=> row[r] = NoRow
        /\ Stored(r) => row'[r].user = row[r].user /\ row'[r].guest = row[r].guest

LEMMA StatusUpdate ==
  ASSUME ResultTypeOK, NEW r \in Results, NEW url \in Owners \union {Nobody},
         NEW status \in PdfStatus, UpdatePDFStatus(r, url, status)
  PROVE  row' \in [Results -> Row \union {NoRow}] /\ SameOwners
<1> USE NoRowAssumption
<1> DEFINE new == [row[r] EXCEPT !.url = url, !.status = status]
<1>1. CASE Stored(r)
  <2>1. row[r] \in Row
    BY <1>1 DEF ResultTypeOK, Stored
  <2>2. new \in Row /\ new.user = row[r].user /\ new.guest = row[r].guest
    BY <2>1 DEF Row
  <2>3. row' = [row EXCEPT ![r] = new]
    BY <1>1, <2>1 DEF UpdatePDFStatus, Row
  <2>4. QED
    BY <1>1, <2>2, <2>3 DEF ResultTypeOK, SameOwners, Stored
<1>2. CASE ~Stored(r)
  BY <1>2 DEF UpdatePDFStatus, ResultTypeOK, SameOwners, Stored
<1>3. QED
  BY <1>1, <1>2

\* ... and of the row it is about.
LEMMA UpdatedRow ==
  ASSUME ResultTypeOK, NEW r \in Results, NEW url \in Owners \union {Nobody},
         NEW status \in PdfStatus, UpdatePDFStatus(r, url, status)
  PROVE  /\ Stored(r) => row'[r].url = url
         /\ ~Stored(r) => row'[r] = row[r]
         /\ \A q \in Results : q # r => row'[q] = row[q]
<1>1. CASE Stored(r)
  <2>1. row[r] \in Row
    BY <1>1 DEF ResultTypeOK, Stored
  <2>2. QED
    BY <1>1, <2>1 DEF UpdatePDFStatus, ResultTypeOK, Row
<1>2. CASE ~Stored(r)
  BY <1>2 DEF UpdatePDFStatus
<1>3. QED
  BY <1>1, <1>2

LEMMA ResultTypeInit == Init => ResultTypeOK
  BY LifecycleAssumption DEF Init, ResultTypeOK, Owners, Snapshot, Files

\* The three steps that rewrite rows in other ways keep their shape.
LEMMA RewrittenRows ==
  ASSUME ResultTypeOK
  PROVE  /\ \A g \in Guests \union {Nobody}, u \in Users :
                Reassigned(g, u) \in [Results -> Row \union {NoRow}]
         /\ \A a \in Owners \union {Nobody} : NewRow(a) \in Row
         /\ \A u \in Users, r \in Results :
                r \in RowsOf(u) => [row[r] EXCEPT !.url = Nobody] \in Row
<1>1. ASSUME NEW g \in Guests \union {Nobody}, NEW u \in Users
      PROVE  Reassigned(g, u) \in [Results -> Row \union {NoRow}]
  <2>1. ASSUME NEW r \in Results, Stored(r)
        PROVE  [row[r] EXCEPT !.user = u, !.guest = Nobody] \in Row
    <3>1. row[r] \in Row
      BY <2>1 DEF ResultTypeOK, Stored
    <3>2. QED
      BY <3>1 DEF Row
  <2>2. QED
    BY <2>1 DEF Reassigned, ResultTypeOK, Stored
<1>2. ASSUME NEW a \in Owners \union {Nobody}
      PROVE  NewRow(a) \in Row
  BY DEF NewRow, Row, PdfStatus
<1>3. ASSUME NEW u \in Users, NEW r \in Results, r \in RowsOf(u)
      PROVE  [row[r] EXCEPT !.url = Nobody] \in Row
  BY <1>3 DEF ResultTypeOK, RowsOf, Stored, Row
<1>4. QED
  BY <1>1, <1>2, <1>3

\* A task that has read its row has an owner's prefix: <<key[r], r>> is a file.
KeysAreOwners ==
    \A r \in Results : job[r] \in {"read", "marked", "uploaded"} => key[r] \in Owners

LEMMA ResultTypeStep ==
  ASSUME ResultTypeOK, KeysAreOwners, [Next]_vars
  PROVE  ResultTypeOK'
<1> USE LifecycleAssumption
        DEF ResultTypeOK, sessionVars, submitVars, textVars, jobVars, editVars, purgeVars,
            anonVars, historyVars
<1>1. ASSUME NEW g \in Guests, CreateGuestSession(g)
      PROVE  ResultTypeOK'
  BY <1>1 DEF CreateGuestSession
<1>2. ASSUME NEW g \in Guests, Age(g)
      PROVE  ResultTypeOK'
  BY <1>2 DEF Age
<1>3. ASSUME NEW r \in Results, AgeResult(r)
      PROVE  ResultTypeOK'
  BY <1>3 DEF AgeResult
<1>4. ASSUME NEW u \in Users, ReadGuest(u)
      PROVE  ResultTypeOK'
  BY <1>4 DEF ReadGuest
<1>5. ASSUME NEW u \in Users, RegisterTx(u)
      PROVE  ResultTypeOK'
  <2>1. CASE row' = row /\ UNCHANGED <<session, claim, timely>>
    BY <1>5, <2>1 DEF RegisterTx
  <2>2. CASE reg[u] = "unclaimed"
    <3>1. /\ reg' = [reg EXCEPT ![u] = "registered"]
          /\ session' = [session EXCEPT ![CookieOf[u]] = "open"]
          /\ claim' = [claim EXCEPT ![CookieOf[u]] = u]
          /\ row' = Reassigned(CookieOf[u], u)
          /\ timely' \subseteq timely \union Results
          /\ UNCHANGED <<submitVars, textVars, objects, jobVars, editVars, purgeVars,
                         anonVars, aged, faults, stale, crossed, unrecorded>>
      BY <1>5, <2>2 DEF RegisterTx
    <3>2. row' \in [Results -> Row \union {NoRow}]
      BY <3>1, RewrittenRows
    <3>3. session' \in [Guests -> {"never", "open", "gone"}]
      BY <3>1
    <3>4. claim' \in [Guests -> Users \union {Nobody}]
      BY <3>1
    <3>5. QED
      BY <3>1, <3>2, <3>3, <3>4
  <2>3. QED
    BY <1>5, <2>1, <2>2 DEF RegisterTx
<1>6. ASSUME NEW r \in Results, BeginSubmit(r)
      PROVE  ResultTypeOK'
  BY <1>6 DEF BeginSubmit, Owners
<1>7. ASSUME NEW r \in Results, CommitResult(r)
      PROVE  ResultTypeOK'
  BY <1>7, RewrittenRows DEF CommitResult
<1>8. ASSUME NEW r \in Results, Enqueue(r)
      PROVE  ResultTypeOK'
  BY <1>8 DEF Enqueue, Fault
<1>9. ASSUME NEW e \in Edits, ReadForEdit(e)
      PROVE  ResultTypeOK'
  BY <1>9 DEF ReadForEdit
<1>10. ASSUME NEW e \in Edits, SaveEdit(e)
      PROVE  ResultTypeOK'
  BY <1>10 DEF SaveEdit
<1>11. ASSUME NEW r \in Results, StartJob(r)
      PROVE  ResultTypeOK'
  <2>1. Stored(r) => OwnerOf(row[r]) \in Owners \union {Nobody}
    BY DEF Stored, OwnerOf, Row, Owners
  <2>2. QED
    BY <1>11, <2>1 DEF StartJob
<1>12. ASSUME NEW r \in Results, MarkProcessing(r)
      PROVE  ResultTypeOK'
  <2>1. row' \in [Results -> Row \union {NoRow}]
    BY <1>12, StatusUpdate DEF MarkProcessing, PdfStatus
  <2>2. QED
    BY <1>12, <2>1 DEF MarkProcessing
<1>13. ASSUME NEW r \in Results, Upload(r)
      PROVE  ResultTypeOK'
  <2>1. job' \in [Results -> {"none", "queued", "read", "marked", "uploaded"}]
    BY <1>13 DEF Upload
  <2>2. <<key[r], r>> \in Files
    BY <1>13 DEF Upload, KeysAreOwners, Files
  <2>3. QED
    BY <1>13, <2>1, <2>2 DEF Upload
<1>14. ASSUME NEW r \in Results, MarkCompleted(r)
      PROVE  ResultTypeOK'
  <2>1. row' \in [Results -> Row \union {NoRow}]
    BY <1>14, StatusUpdate DEF MarkCompleted, PdfStatus
  <2>2. /\ job' \in [Results -> {"none", "queued", "read", "marked", "uploaded"}]
        /\ tries' \in [Results -> 0 .. MaxRetry] /\ faults' \in 0 .. MaxFaults
    BY <1>14 DEF MarkCompleted, Fault
  <2>3. QED
    BY <1>14, <2>1, <2>2 DEF MarkCompleted
<1>15. ASSUME NEW r \in Results, JobFails(r)
      PROVE  ResultTypeOK'
  <2>1. row' \in [Results -> Row \union {NoRow}]
    BY <1>15, StatusUpdate DEF JobFails, PdfStatus
  <2>2. /\ job' \in [Results -> {"none", "queued", "read", "marked", "uploaded"}]
        /\ tries' \in [Results -> 0 .. MaxRetry] /\ faults' \in 0 .. MaxFaults
        /\ unrecorded' \subseteq Results
    BY <1>15 DEF JobFails, Fault
  <2>3. QED
    BY <1>15, <2>1, <2>2 DEF JobFails
<1>16. ASSUME FindExpired
      PROVE  ResultTypeOK'
  <2>1. \A r \in ExpiredGuestResults :
           [result |-> r, url |-> row[r].url, guest |-> row[r].guest] \in Snapshot
    BY DEF ExpiredGuestResults, Stored, Row, Snapshot
  <2>2. QED
    BY <1>16, <2>1 DEF FindExpired
<1>17. ASSUME NEW x \in doomed \union hand, PurgePDF(x) \/ PurgeRow(x)
      PROVE  ResultTypeOK'
  <2>1. x.result \in Results /\ x.guest \in Guests
    BY DEF Snapshot
  <2>2. QED
    BY <1>17, <2>1 DEF PurgePDF, PurgeRow
<1>18. ASSUME NEW x \in doomed \union hand, PurgeSkips(x)
      PROVE  ResultTypeOK'
  BY <1>18 DEF PurgeSkips, Fault
<1>19. ASSUME FindOrphans
      PROVE  ResultTypeOK'
  BY <1>19 DEF FindOrphans
<1>20. ASSUME NEW g \in leaving, PurgeSession(g)
      PROVE  ResultTypeOK'
  BY <1>20 DEF PurgeSession
<1>21. ASSUME PurgeDies
      PROVE  ResultTypeOK'
  BY <1>21 DEF PurgeDies, Fault
<1>22. ASSUME NEW r \in Results, PurgeAudit(r)
      PROVE  ResultTypeOK'
  BY <1>22 DEF PurgeAudit
<1>23. ASSUME NEW u \in Users, ListPDFs(u)
      PROVE  ResultTypeOK'
  <2>1. {<<row[r].url, r>> : r \in {q \in RowsOf(u) : row[q].url # Nobody}} \subseteq Files
    BY DEF RowsOf, Stored, Row, Files
  <2>2. QED
    BY <1>23, <2>1 DEF ListPDFs
<1>24. ASSUME NEW u \in Users, NEW f \in files[u], DeletePDF(u, f)
      PROVE  ResultTypeOK'
  BY <1>24 DEF DeletePDF
<1>25. ASSUME NEW u \in Users, Scrub(u)
      PROVE  ResultTypeOK'
  BY <1>25, RewrittenRows DEF Scrub
<1>26. ASSUME NEW u \in Users, AnonymizeFails(u)
      PROVE  ResultTypeOK'
  BY <1>26 DEF AnonymizeFails, Fault
<1>27. ASSUME UNCHANGED vars
      PROVE  ResultTypeOK'
  BY <1>27 DEF vars
<1>28. QED
  BY <1>1, <1>2, <1>3, <1>4, <1>5, <1>6, <1>7, <1>8, <1>9, <1>10, <1>11, <1>12,
     <1>13, <1>14, <1>15, <1>16, <1>17, <1>18, <1>19, <1>20, <1>21, <1>22, <1>23,
     <1>24, <1>25, <1>26, <1>27
     DEF Next, GuestStep, RegisterStep, EditStep, PurgeRuns, AnonymizeStep, JobRuns

-----------------------------------------------------------------------------
(***************************************************************************)
(* The inductive invariant.  Rows appear with the commit of a submission   *)
(* and have an owner, and so have the copies that edits hold, but a copy   *)
(* may be stale.  The purge holds snapshots of results that were expired   *)
(* when it looked, and stay so; what was claimed in time therefore is in   *)
(* none of its hands, and will not be, having no guest session any more.   *)
(***************************************************************************)
Owned(w) == (w.user = Nobody) # (w.guest = Nobody)

RowsFollowCommits == \A r \in Results : Stored(r) => stage[r] \in {"committed", "stored"}

AuthorsKnown == \A r \in Results : stage[r] # "new" => author[r] \in Owners

ClaimsHaveCookies == \A u \in Users : reg[u] = "unclaimed" => CookieOf[u] \in Guests

CopiesAreOwned ==
    \A e \in Edits : editAt[e] = "read" =>
        /\ copy[e] \in Row /\ Owned(copy[e])
        /\ stage[EditOf[e]] \in {"committed", "stored"}

TextsAreStored == \A r \in essays \union audits : Stored(r)

AgedAreStored == \A r \in Results : r \in aged => stage[r] = "stored"

SnapshotsAreExpired == \A x \in doomed \union hand : IsExpired(x.result)

ClaimsAreSafe ==
    stale = 0 =>
        \A r \in timely :
            /\ Stored(r) /\ row[r].user # Nobody
            /\ \A x \in doomed \union hand : x.result # r

ResultIInv ==
    /\ ResultTypeOK /\ KeysAreOwners /\ OneOwner
    /\ RowsFollowCommits /\ AuthorsKnown /\ ClaimsHaveCookies /\ CopiesAreOwned
    /\ TextsAreStored /\ AgedAreStored /\ SnapshotsAreExpired /\ ClaimsAreSafe

\* What a step owes to OwnerIsFinal.
OwnerKept ==
    \A r \in Results :
        Stored(r) /\ row[r].user # Nobody /\ Stored(r)' /\ stale' = 0
        => row'[r].user = row[r].user

LEMMA ResultInitially == Init => ResultIInv
<1> SUFFICES ASSUME Init PROVE ResultIInv
  OBVIOUS
<1>1. ResultTypeOK
  BY ResultTypeInit
<1>2. QED
  BY <1>1
     DEF Init, ResultIInv, KeysAreOwners, OneOwner, RowsFollowCommits, AuthorsKnown,
         ClaimsHaveCookies, CopiesAreOwned, TextsAreStored, AgedAreStored,
         SnapshotsAreExpired, ClaimsAreSafe, Stored

\* Most steps leave every row where it is, start no submission, no edit and
\* no claim, age nothing and give the purge no more to do.
Quiet ==
    /\ SameOwners
    /\ \A r \in Results : stage'[r] = stage[r] \/ (stage[r] = "committed" /\ stage'[r] = "stored")
    /\ \A u \in Users : reg'[u] = "unclaimed" => CookieOf[u] \in Guests
    /\ essays' \subseteq essays /\ audits' \subseteq audits
    /\ doomed' \union hand' \subseteq doomed \union hand
    /\ UNCHANGED <<author, editVars, aged, stale, timely>>

LEMMA QuietStep ==
  ASSUME ResultIInv, ResultTypeOK', KeysAreOwners', Quiet
  PROVE  ResultIInv' /\ OwnerKept
<1> USE LifecycleAssumption DEF ResultIInv, Quiet, SameOwners, editVars
<1>1. \A r \in Results : Stored(r)' <=> Stored(r)
  BY DEF Stored
<1>2. OneOwner' /\ OwnerKept
  BY <1>1 DEF OneOwner, OwnerKept
<1>3. RowsFollowCommits' /\ AuthorsKnown' /\ ClaimsHaveCookies'
  BY <1>1 DEF RowsFollowCommits, AuthorsKnown, ClaimsHaveCookies, ResultTypeOK
<1>4. CopiesAreOwned'
  BY DEF CopiesAreOwned
<1>5. TextsAreStored' /\ AgedAreStored'
  BY <1>1 DEF TextsAreStored, AgedAreStored, ResultTypeOK
<1>6. SnapshotsAreExpired'
  BY DEF SnapshotsAreExpired, IsExpired
<1>7. ClaimsAreSafe'
  BY <1>1 DEF ClaimsAreSafe, ResultTypeOK
<1>8. QED
  BY <1>2, <1>3, <1>4, <1>5, <1>6, <1>7

LEMMA ResultInductive == ResultIInv /\ [Next]_vars => ResultIInv' /\ OwnerKept
<1> SUFFICES ASSUME ResultIInv, [Next]_vars
             PROVE  ResultIInv' /\ OwnerKept
  OBVIOUS
<1>0. ResultTypeOK'
  BY ResultTypeStep DEF ResultIInv
<1> USE LifecycleAssumption
        DEF ResultIInv, sessionVars, submitVars, textVars, jobVars, editVars, purgeVars,
            anonVars, historyVars
<1>1. ASSUME NEW g \in Guests, CreateGuestSession(g)
      PROVE  ResultIInv' /\ OwnerKept
  <2>1. KeysAreOwners'
    BY <1>1 DEF CreateGuestSession, KeysAreOwners, ResultTypeOK
  <2>2. Quiet
    BY <1>1 DEF CreateGuestSession, Quiet, SameOwners, ClaimsHaveCookies, ResultTypeOK
  <2>3. QED
    BY <1>0, <2>1, <2>2, QuietStep
<1>2. ASSUME NEW u \in Users, ReadGuest(u)
      PROVE  ResultIInv' /\ OwnerKept
  <2>1. KeysAreOwners'
    BY <1>2 DEF ReadGuest, KeysAreOwners, ResultTypeOK
  <2>2. Quiet
    BY <1>2 DEF ReadGuest, Quiet, SameOwners, ClaimsHaveCookies, ResultTypeOK
  <2>3. QED
    BY <1>0, <2>1, <2>2, QuietStep
<1>3. ASSUME NEW r \in Results, Enqueue(r)
      PROVE  ResultIInv' /\ OwnerKept
  <2>1. KeysAreOwners'
    BY <1>3 DEF Enqueue, KeysAreOwners, ResultTypeOK
  <2>2. Quiet
    BY <1>3 DEF Enqueue, Quiet, SameOwners, ClaimsHaveCookies, ResultTypeOK
  <2>3. QED
    BY <1>0, <2>1, <2>2, QuietStep
<1>4. ASSUME NEW r \in Results, StartJob(r)
      PROVE  ResultIInv' /\ OwnerKept
  <2>1. KeysAreOwners'
    <3>1. Stored(r) => OwnerOf(row[r]) \in Owners
      BY DEF Stored, OwnerOf, Row, Owners, OneOwner, ResultTypeOK
    <3>2. QED
      BY <1>4, <3>1 DEF StartJob, KeysAreOwners, ResultTypeOK
  <2>2. Quiet
    BY <1>4 DEF StartJob, Quiet, SameOwners, ClaimsHaveCookies, ResultTypeOK
  <2>3. QED
    BY <1>0, <2>1, <2>2, QuietStep
<1>5. ASSUME NEW r \in Results, MarkProcessing(r)
      PROVE  ResultIInv' /\ OwnerKept
  <2>1. KeysAreOwners'
    BY <1>5 DEF MarkProcessing, ClaimsHaveCookies, KeysAreOwners, ResultTypeOK
  <2>2. Quiet
    <3>1. SameOwners
      BY <1>5, StatusUpdate DEF MarkProcessing, PdfStatus
    <3>2. QED
      BY <1>5, <3>1 DEF MarkProcessing, ClaimsHaveCookies, Quiet, ResultTypeOK
  <2>3. QED
    BY <1>0, <2>1, <2>2, QuietStep
<1>6. ASSUME NEW r \in Results, Upload(r)
      PROVE  ResultIInv' /\ OwnerKept
  <2>1. KeysAreOwners'
    BY <1>6 DEF Upload, KeysAreOwners, ResultTypeOK
  <2>2. Quiet
    BY <1>6 DEF Upload, Quiet, SameOwners, ClaimsHaveCookies, ResultTypeOK
  <2>3. QED
    BY <1>0, <2>1, <2>2, QuietStep
<1>7. ASSUME NEW r \in Results, MarkCompleted(r)
      PROVE  ResultIInv' /\ OwnerKept
  <2>1. KeysAreOwners'
    BY <1>7 DEF MarkCompleted, ClaimsHaveCookies, KeysAreOwners, ResultTypeOK
  <2>2. Quiet
    <3>1. SameOwners
      BY <1>7, StatusUpdate DEF MarkCompleted, PdfStatus, ResultTypeOK
    <3>2. QED
      BY <1>7, <3>1 DEF MarkCompleted, ClaimsHaveCookies, Quiet, ResultTypeOK
  <2>3. QED
    BY <1>0, <2>1, <2>2, QuietStep
<1>8. ASSUME NEW r \in Results, JobFails(r)
      PROVE  ResultIInv' /\ OwnerKept
  <2>1. KeysAreOwners'
    BY <1>8 DEF JobFails, ClaimsHaveCookies, KeysAreOwners, ResultTypeOK
  <2>2. Quiet
    <3>1. SameOwners
      BY <1>8, StatusUpdate DEF JobFails, PdfStatus, SameOwners
    <3>2. QED
      BY <1>8, <3>1 DEF JobFails, ClaimsHaveCookies, Quiet, ResultTypeOK
  <2>3. QED
    BY <1>0, <2>1, <2>2, QuietStep
<1>9. ASSUME NEW x \in doomed \union hand, PurgePDF(x) \/ PurgeSkips(x)
      PROVE  ResultIInv' /\ OwnerKept
  <2>1. KeysAreOwners'
    BY <1>9 DEF PurgePDF, PurgeSkips, KeysAreOwners, ResultTypeOK
  <2>2. Quiet
    BY <1>9 DEF PurgePDF, PurgeSkips, Quiet, SameOwners, ClaimsHaveCookies, ResultTypeOK
  <2>3. QED
    BY <1>0, <2>1, <2>2, QuietStep
<1>10. ASSUME FindOrphans
      PROVE  ResultIInv' /\ OwnerKept
  <2>1. KeysAreOwners'
    BY <1>10 DEF FindOrphans, KeysAreOwners, ResultTypeOK
  <2>2. Quiet
    BY <1>10 DEF FindOrphans, Quiet, SameOwners, ClaimsHaveCookies, ResultTypeOK
  <2>3. QED
    BY <1>0, <2>1, <2>2, QuietStep
<1>11. ASSUME NEW g \in leaving, PurgeSession(g)
      PROVE  ResultIInv' /\ OwnerKept
  <2>1. KeysAreOwners'
    BY <1>11 DEF PurgeSession, KeysAreOwners, ResultTypeOK
  <2>2. Quiet
    BY <1>11 DEF PurgeSession, Quiet, SameOwners, ClaimsHaveCookies, ResultTypeOK
  <2>3. QED
    BY <1>0, <2>1, <2>2, QuietStep
<1>12. ASSUME PurgeDies
      PROVE  ResultIInv' /\ OwnerKept
  <2>1. KeysAreOwners'
    BY <1>12 DEF PurgeDies, KeysAreOwners, ResultTypeOK
  <2>2. Quiet
    BY <1>12 DEF PurgeDies, Quiet, SameOwners, ClaimsHaveCookies, ResultTypeOK
  <2>3. QED
    BY <1>0, <2>1, <2>2, QuietStep
<1>13. ASSUME NEW r \in Results, PurgeAudit(r)
      PROVE  ResultIInv' /\ OwnerKept
  <2>1. KeysAreOwners'
    BY <1>13 DEF PurgeAudit, KeysAreOwners, ResultTypeOK
  <2>2. Quiet
    BY <1>13 DEF PurgeAudit, Quiet, SameOwners, ClaimsHaveCookies, ResultTypeOK
  <2>3. QED
    BY <1>0, <2>1, <2>2, QuietStep
<1>14. ASSUME NEW u \in Users, ListPDFs(u) \/ AnonymizeFails(u)
      PROVE  ResultIInv' /\ OwnerKept
  <2>1. KeysAreOwners'
    BY <1>14 DEF ListPDFs, AnonymizeFails, KeysAreOwners, ResultTypeOK
  <2>2. Quiet
    BY <1>14 DEF ListPDFs, AnonymizeFails, Quiet, SameOwners, ClaimsHaveCookies, ResultTypeOK
  <2>3. QED
    BY <1>0, <2>1, <2>2, QuietStep
<1>15. ASSUME NEW u \in Users, NEW f \in files[u], DeletePDF(u, f)
      PROVE  ResultIInv' /\ OwnerKept
  <2>1. KeysAreOwners'
    BY <1>15 DEF DeletePDF, KeysAreOwners, ResultTypeOK
  <2>2. Quiet
    BY <1>15 DEF DeletePDF, Quiet, SameOwners, ClaimsHaveCookies, ResultTypeOK
  <2>3. QED
    BY <1>0, <2>1, <2>2, QuietStep
<1>16. ASSUME NEW u \in Users, Scrub(u)
      PROVE  ResultIInv' /\ OwnerKept
  <2>1. KeysAreOwners'
    BY <1>16 DEF Scrub, ClaimsHaveCookies, KeysAreOwners, ResultTypeOK
  <2>2. Quiet
    <3>1. SameOwners
      <4>1. \A r \in Results : r \in RowsOf(u) =>
               LET w == [row[r] EXCEPT !.url = Nobody]
               IN  w \in Row /\ w.user = row[r].user /\ w.guest = row[r].guest
        BY RewrittenRows DEF ResultTypeOK, RowsOf, Stored, Row
      <4>2. QED
        BY <1>16, <4>1, NoRowAssumption DEF Scrub, SameOwners, RowsOf, Stored
    <3>2. QED
      BY <1>16, <3>1 DEF Scrub, ClaimsHaveCookies, Quiet, ResultTypeOK
  <2>3. QED
    BY <1>0, <2>1, <2>2, QuietStep
<1>17. ASSUME UNCHANGED vars
      PROVE  ResultIInv' /\ OwnerKept
  <2>1. KeysAreOwners'
    BY <1>17 DEF vars, KeysAreOwners, ResultTypeOK
  <2>2. Quiet
    BY <1>17 DEF vars, Quiet, SameOwners, ClaimsHaveCookies, ResultTypeOK
  <2>3. QED
    BY <1>0, <2>1, <2>2, QuietStep
<1>18. ASSUME NEW g \in Guests, Age(g)
      PROVE  ResultIInv' /\ OwnerKept
  <2>1. KeysAreOwners' /\ OneOwner' /\ RowsFollowCommits' /\ AuthorsKnown'
        /\ ClaimsHaveCookies' /\ CopiesAreOwned' /\ TextsAreStored' /\ OwnerKept
    BY <1>18 DEF Age, KeysAreOwners, OneOwner, RowsFollowCommits, AuthorsKnown,
             ClaimsHaveCookies, CopiesAreOwned, TextsAreStored, OwnerKept, Stored
  <2>2. AgedAreStored' /\ SnapshotsAreExpired' /\ ClaimsAreSafe'
    BY <1>18 DEF Age, AgedAreStored, SnapshotsAreExpired, ClaimsAreSafe, IsExpired, Stored, Owners
  <2>3. QED
    BY <1>0, <2>1, <2>2
<1>19. ASSUME NEW r \in Results, AgeResult(r)
      PROVE  ResultIInv' /\ OwnerKept
  <2>1. KeysAreOwners' /\ OneOwner' /\ RowsFollowCommits' /\ AuthorsKnown'
        /\ ClaimsHaveCookies' /\ CopiesAreOwned' /\ TextsAreStored' /\ OwnerKept
    BY <1>19 DEF AgeResult, KeysAreOwners, OneOwner, RowsFollowCommits, AuthorsKnown,
             ClaimsHaveCookies, CopiesAreOwned, TextsAreStored, OwnerKept, Stored
  <2>2. AgedAreStored' /\ SnapshotsAreExpired' /\ ClaimsAreSafe'
    BY <1>19 DEF AgeResult, AgedAreStored, SnapshotsAreExpired, ClaimsAreSafe, IsExpired, Stored
  <2>3. QED
    BY <1>0, <2>1, <2>2
<1>20. ASSUME NEW r \in Results, BeginSubmit(r)
      PROVE  ResultIInv' /\ OwnerKept
  <2>1. /\ stage[r] = "new" /\ stage' = [stage EXCEPT ![r] = "submitting"]
        /\ \E a \in Owners : author' = [author EXCEPT ![r] = a]
        /\ UNCHANGED <<reg, row, essays, audits, job, key, editAt, copy, doomed, hand,
                       aged, stale, timely>>
    BY <1>20 DEF BeginSubmit, Owners
  <2>2. KeysAreOwners' /\ OneOwner' /\ ClaimsHaveCookies' /\ TextsAreStored'
        /\ ClaimsAreSafe' /\ OwnerKept
    BY <2>1 DEF KeysAreOwners, OneOwner, ClaimsHaveCookies, TextsAreStored, ClaimsAreSafe,
                OwnerKept, Stored
  <2>3. RowsFollowCommits' /\ AuthorsKnown' /\ CopiesAreOwned' /\ AgedAreStored'
    BY <2>1 DEF RowsFollowCommits, AuthorsKnown, CopiesAreOwned, AgedAreStored, Stored,
                ResultTypeOK
  <2>4. SnapshotsAreExpired'
    BY <2>1 DEF SnapshotsAreExpired, AgedAreStored, IsExpired, ResultTypeOK, Snapshot
  <2>5. QED
    BY <1>0, <2>2, <2>3, <2>4
<1>21. ASSUME NEW r \in Results, CommitResult(r)
      PROVE  ResultIInv' /\ OwnerKept
  <2>1. /\ stage[r] = "submitting" /\ stage' = [stage EXCEPT ![r] = "committed"]
        /\ row' = [row EXCEPT ![r] = NewRow(author[r])]
        /\ essays' = essays \union {r} /\ audits' = audits \union {r}
        /\ UNCHANGED <<reg, author, job, key, editAt, copy, doomed, hand, aged, stale, timely>>
    BY <1>21 DEF CommitResult
  <2>2. ~Stored(r) /\ author[r] \in Owners
    BY <2>1 DEF RowsFollowCommits, AuthorsKnown
  <2>3. NewRow(author[r]) \in Row /\ Owned(NewRow(author[r]))
    <3>1. NewRow(author[r]) \in Row
      BY <2>2, RewrittenRows
    <3>2. Owned(NewRow(author[r]))
      BY <2>2 DEF Owned, NewRow, Owners
    <3>3. QED
      BY <3>1, <3>2
  <2>4. OneOwner' /\ RowsFollowCommits' /\ TextsAreStored' /\ OwnerKept
    BY <2>1, <2>2, <2>3, NoRowAssumption
       DEF OneOwner, RowsFollowCommits, TextsAreStored, OwnerKept, Stored, Owned, ResultTypeOK
  <2>5. KeysAreOwners' /\ AuthorsKnown' /\ ClaimsHaveCookies' /\ CopiesAreOwned' /\ AgedAreStored'
    BY <2>1 DEF KeysAreOwners, AuthorsKnown, ClaimsHaveCookies, CopiesAreOwned, AgedAreStored,
                ResultTypeOK
  <2>6. SnapshotsAreExpired' /\ ClaimsAreSafe'
    BY <2>1, <2>2 DEF SnapshotsAreExpired, ClaimsAreSafe, IsExpired, Stored, ResultTypeOK
  <2>7. QED
    BY <1>0, <2>4, <2>5, <2>6
<1>22. ASSUME NEW e \in Edits, ReadForEdit(e)
      PROVE  ResultIInv' /\ OwnerKept
  <2>1. /\ Stored(EditOf[e])
        /\ editAt' = [editAt EXCEPT ![e] = "read"]
        /\ copy' = [copy EXCEPT ![e] = row[EditOf[e]]]
        /\ UNCHANGED <<reg, stage, author, row, essays, audits, job, key, doomed, hand,
                       aged, stale, timely>>
    BY <1>22 DEF ReadForEdit, Visible
  <2>2. CopiesAreOwned'
    BY <2>1 DEF CopiesAreOwned, OneOwner, Owned, RowsFollowCommits, Stored, ResultTypeOK
  <2>3. KeysAreOwners' /\ OneOwner' /\ RowsFollowCommits' /\ AuthorsKnown'
        /\ ClaimsHaveCookies' /\ TextsAreStored' /\ AgedAreStored' /\ OwnerKept
    BY <2>1 DEF KeysAreOwners, OneOwner, RowsFollowCommits, AuthorsKnown, ClaimsHaveCookies,
                TextsAreStored, AgedAreStored, OwnerKept, Stored
  <2>4. SnapshotsAreExpired' /\ ClaimsAreSafe'
    BY <2>1 DEF SnapshotsAreExpired, ClaimsAreSafe, IsExpired, Stored
  <2>5. QED
    BY <1>0, <2>2, <2>3, <2>4
<1>23. ASSUME NEW e \in Edits, SaveEdit(e)
      PROVE  ResultIInv' /\ OwnerKept
  <2>1. /\ editAt[e] = "read"
        /\ editAt' = [editAt EXCEPT ![e] = "done"]
        /\ copy' = [copy EXCEPT ![e] = NoRow]
        /\ row' = [row EXCEPT ![EditOf[e]] = copy[e]]
        /\ UNCHANGED <<reg, stage, author, essays, audits, job, key, doomed, hand,
                       aged, timely>>
    BY <1>23 DEF SaveEdit
  <2>2. (row' = row /\ stale' = stale) \/ stale' # 0
    BY <1>23 DEF SaveEdit, ResultTypeOK
  <2>3. /\ copy[e] \in Row /\ Owned(copy[e]) /\ copy[e] # NoRow
        /\ stage[EditOf[e]] \in {"committed", "stored"}
    BY <2>1, NoRowAssumption DEF CopiesAreOwned
  <2>4. OneOwner' /\ RowsFollowCommits' /\ TextsAreStored'
    BY <2>1, <2>3 DEF OneOwner, RowsFollowCommits, TextsAreStored, Stored, Owned, ResultTypeOK
  <2>5. ClaimsAreSafe' /\ OwnerKept
    BY <2>1, <2>2 DEF ClaimsAreSafe, OwnerKept, Stored
  <2>6. KeysAreOwners' /\ AuthorsKnown' /\ ClaimsHaveCookies' /\ CopiesAreOwned' /\ AgedAreStored'
    BY <2>1 DEF KeysAreOwners, AuthorsKnown, ClaimsHaveCookies, CopiesAreOwned, AgedAreStored,
                ResultTypeOK
  <2>7. SnapshotsAreExpired'
    BY <2>1 DEF SnapshotsAreExpired, IsExpired
  <2>8. QED
    BY <1>0, <2>4, <2>5, <2>6, <2>7
<1>24. ASSUME NEW u \in Users, RegisterTx(u)
      PROVE  ResultIInv' /\ OwnerKept
  <2>1. CASE reg[u] = "plain"
    <3>1. Quiet /\ KeysAreOwners'
      BY <1>24, <2>1 DEF RegisterTx, Quiet, SameOwners, KeysAreOwners, ClaimsHaveCookies, ResultTypeOK
    <3>2. QED
      BY <1>0, <3>1, QuietStep
  <2>2. CASE reg[u] = "unclaimed"
    <3> DEFINE g == CookieOf[u]
    <3>1. /\ reg' = [reg EXCEPT ![u] = "registered"]
          /\ row' = Reassigned(g, u)
          /\ timely' = timely \union
                 {r \in Results : Stored(r) /\ row[r].guest = g /\ ~IsExpired(r)}
          /\ UNCHANGED <<stage, author, essays, audits, job, key, editAt, copy, doomed, hand,
                         aged, stale>>
      BY <1>24, <2>2 DEF RegisterTx
    <3>2. g \in Guests /\ g # Nobody /\ u # Nobody
      BY <2>2 DEF ClaimsHaveCookies, Owners
    <3>3. ASSUME NEW r \in Results
          PROVE  /\ Stored(r)' <=> Stored(r)
                 /\ Stored(r) /\ row[r].guest = g =>
                       row'[r].user = u /\ row'[r].guest = Nobody /\ row[r].user = Nobody
                 /\ Stored(r) /\ row[r].guest # g => row'[r] = row[r]
      <4>1. Stored(r) => row[r] \in Row
        BY DEF Stored, ResultTypeOK
      <4>2. Stored(r) /\ row[r].guest = g =>
                /\ [row[r] EXCEPT !.user = u, !.guest = Nobody] \in Row
                /\ row'[r] = [row[r] EXCEPT !.user = u, !.guest = Nobody]
        BY <3>1, <4>1 DEF Reassigned, Row
      <4>3. ~(Stored(r) /\ row[r].guest = g) => row'[r] = row[r]
        BY <3>1 DEF Reassigned
      <4>4. QED
        BY <3>2, <4>1, <4>2, <4>3, NoRowAssumption DEF Stored, OneOwner, Row
    <3>4. OneOwner' /\ OwnerKept
      BY <3>2, <3>3 DEF OneOwner, OwnerKept
    <3>5. RowsFollowCommits' /\ TextsAreStored'
      BY <3>1, <3>3 DEF RowsFollowCommits, TextsAreStored, ResultTypeOK
    <3>6. KeysAreOwners' /\ AuthorsKnown' /\ ClaimsHaveCookies' /\ CopiesAreOwned' /\ AgedAreStored'
      BY <3>1 DEF KeysAreOwners, AuthorsKnown, ClaimsHaveCookies, CopiesAreOwned, AgedAreStored,
                  ResultTypeOK
    <3>7. SnapshotsAreExpired'
      BY <3>1 DEF SnapshotsAreExpired, IsExpired
    <3>8. ClaimsAreSafe'
      BY <3>1, <3>2, <3>3 DEF ClaimsAreSafe, SnapshotsAreExpired, OneOwner, ResultTypeOK
    <3>9. QED
      BY <1>0, <3>4, <3>5, <3>6, <3>7, <3>8
  <2>3. QED
    BY <1>24, <2>1, <2>2 DEF RegisterTx
<1>25. ASSUME FindExpired
      PROVE  ResultIInv' /\ OwnerKept
  <2>1. /\ doomed = {} /\ hand = {}
        /\ doomed' = {[result |-> r, url |-> row[r].url, guest |-> row[r].guest] :
                          r \in ExpiredGuestResults}
        /\ UNCHANGED <<reg, stage, author, row, essays, audits, job, key, editAt, copy, hand,
                       aged, stale, timely>>
    BY <1>25 DEF FindExpired, PurgeIdle
  <2>2. \A x \in doomed' \union hand' : x.result \in ExpiredGuestResults
    BY <2>1
  <2>3. SnapshotsAreExpired'
    BY <2>1, <2>2 DEF SnapshotsAreExpired, ExpiredGuestResults, IsExpired
  <2>4. ClaimsAreSafe'
    BY <2>1, <2>2 DEF ClaimsAreSafe, ExpiredGuestResults, OneOwner, Stored
  <2>5. KeysAreOwners' /\ OneOwner' /\ RowsFollowCommits' /\ AuthorsKnown' /\ ClaimsHaveCookies'
        /\ CopiesAreOwned' /\ TextsAreStored' /\ AgedAreStored' /\ OwnerKept
    BY <2>1 DEF KeysAreOwners, OneOwner, RowsFollowCommits, AuthorsKnown, ClaimsHaveCookies,
                CopiesAreOwned, TextsAreStored, AgedAreStored, OwnerKept, Stored
  <2>6. QED
    BY <1>0, <2>3, <2>4, <2>5
<1>26. ASSUME NEW x \in doomed \union hand, PurgeRow(x)
      PROVE  ResultIInv' /\ OwnerKept
  <2>1. /\ x \in hand /\ hand' = {} /\ row' = [row EXCEPT ![x.result] = NoRow]
        /\ essays' = essays \ {x.result} /\ audits' = audits \ {x.result}
        /\ UNCHANGED <<reg, stage, author, job, key, editAt, copy, doomed, aged, stale, timely>>
    BY <1>26 DEF PurgeRow
  <2>2. x.result \in Results
    BY <2>1 DEF ResultTypeOK, Snapshot
  <2>3. OneOwner' /\ RowsFollowCommits' /\ TextsAreStored' /\ OwnerKept
    BY <2>1, <2>2 DEF OneOwner, RowsFollowCommits, TextsAreStored, OwnerKept, Stored,
                      ResultTypeOK
  <2>4. KeysAreOwners' /\ AuthorsKnown' /\ ClaimsHaveCookies' /\ CopiesAreOwned' /\ AgedAreStored'
    BY <2>1 DEF KeysAreOwners, AuthorsKnown, ClaimsHaveCookies, CopiesAreOwned, AgedAreStored
  <2>5. SnapshotsAreExpired' /\ ClaimsAreSafe'
    BY <2>1, <2>2 DEF SnapshotsAreExpired, ClaimsAreSafe, IsExpired, Stored, ResultTypeOK
  <2>6. QED
    BY <1>0, <2>3, <2>4, <2>5
<1>27. QED
  BY <1>1, <1>2, <1>3, <1>4, <1>5, <1>6, <1>7, <1>8, <1>9, <1>10, <1>11, <1>12,
     <1>13, <1>14, <1>15, <1>16, <1>17, <1>18, <1>19, <1>20, <1>21, <1>22, <1>23,
     <1>24, <1>25, <1>26
     DEF Next, GuestStep, RegisterStep, EditStep, PurgeRuns, AnonymizeStep, JobRuns

LEMMA ResultInvariant == SafeSpec => []ResultIInv
<1>1. QED
  BY ResultInitially, ResultInductive, PTL DEF SafeSpec

-----------------------------------------------------------------------------
(***************************************************************************)
(* What is left of a result: its report, its essays and its prompt log.    *)
(* A task starts when its submission is stored and, unless something       *)
(* fails, runs once.  Whatever asks what a result has left, the purge or   *)
(* an anonymization, therefore finds a finished result, whose only report  *)
(* is the one its row points to, or one still in the making, which an      *)
(* anonymization puts down as crossed.  This is the argument; the          *)
(* conjuncts below say it of the lists that are held meanwhile.            *)
(***************************************************************************)
Smooth == faults = 0 /\ stale = 0
Finished(r) == stage[r] = "stored" /\ job[r] = "none"
NoReport(r) == \A o \in Owners : <<o, r>> \notin objects

\* Only a registered account is anonymized.
MembersAreErased == \A u \in Users : anon[u] # "no" => reg[u] = "registered"

\* What is in the making cannot be purged.
MakingIsStored ==
    \A r \in Results :
        /\ job[r] # "none" => stage[r] = "stored" /\ Stored(r)
        /\ stage[r] = "committed" => Stored(r)

AgedAreFinished == \A r \in Results : r \in aged => Finished(r)

\* The list an anonymization works on is about results that are not in the
\* making and are still the member's, or purged.
ListedFiles ==
    \A u \in Users, o \in Owners, r \in Results : <<o, r>> \in files[u] =>
        /\ anon[u] = "listed" /\ stage[r] \in {"committed", "stored"}
        /\ Finished(r) \/ r \in crossed
        /\ stale = 0 /\ Stored(r) => row[r].user = u

UploadsAreThere ==
    \A r \in Results : job[r] = "uploaded" => <<key[r], r>> \in objects \/ r \in crossed

OneUpload ==
    Smooth => \A r \in Results :
        /\ stage[r] # "stored" \/ job[r] \in {"queued", "read", "marked"} => NoReport(r)
        /\ job[r] = "uploaded" => \A o \in Owners : <<o, r>> \in objects => o = key[r]

\* NoOrphanedObject, about the two components of the key.
ReportsAreKnown ==
    Smooth => \A o \in Owners, r \in Results : <<o, r>> \in objects =>
        \/ Stored(r) /\ row[r].url = o
        \/ job[r] = "uploaded" /\ key[r] = o
        \/ r \in crossed

CrossingsAreSeen ==
    stale = 0 => \A u \in Users, r \in Results :
        /\ anon[u] \in {"listed", "erased"} /\ Unfinished(r)
        /\ author[r] = u \/ (Stored(r) /\ row[r].user = u)
        => r \in crossed

ListIsComplete ==
    Smooth => \A u \in Users, r \in Results :
        anon[u] = "listed" /\ Stored(r) /\ row[r].user = u =>
            \A o \in Owners : <<o, r>> \in objects => <<o, r>> \in files[u] \/ r \in crossed

SnapshotsAreExact ==
    Smooth =>
        /\ \A x \in doomed, o \in Owners :
              <<o, x.result>> \in objects => o = x.url \/ x.result \in crossed
        /\ \A x \in hand : NoReport(x.result) \/ x.result \in crossed

TraceIInv ==
    /\ MembersAreErased /\ MakingIsStored /\ AgedAreFinished /\ ListedFiles
    /\ UploadsAreThere /\ OneUpload /\ ReportsAreKnown /\ CrossingsAreSeen
    /\ ListIsComplete /\ SnapshotsAreExact /\ ErasedMeansNoTraces /\ Downloadable

LEMMA TracesInitially == Init => TraceIInv
<1> SUFFICES ASSUME Init PROVE TraceIInv
  OBVIOUS
<1>1. MembersAreErased /\ MakingIsStored /\ AgedAreFinished /\ ListedFiles /\ UploadsAreThere
  BY LifecycleAssumption
     DEF Init, MembersAreErased, MakingIsStored, AgedAreFinished, ListedFiles, UploadsAreThere
<1>2. OneUpload /\ ReportsAreKnown /\ CrossingsAreSeen /\ ListIsComplete /\ SnapshotsAreExact
  BY DEF Init, OneUpload, ReportsAreKnown, CrossingsAreSeen, ListIsComplete,
         SnapshotsAreExact, NoReport
<1>3. ErasedMeansNoTraces /\ Downloadable
  BY DEF Init, ErasedMeansNoTraces, Downloadable, Visible, Stored
<1>4. QED
  BY <1>1, <1>2, <1>3 DEF TraceIInv

\* Steps that submit, claim, upload and erase nothing.  A save that overwrites
\* a newer row excuses what is said of a row's owner and URL.
Undisturbed ==
    /\ row' = row \/ (stale' # 0 /\ \A r \in Results : Stored(r) => Stored(r)')
    /\ stale' = 0 => stale = 0
    /\ faults' = 0 => faults = 0
    /\ \A u \in Users : reg[u] = "registered" => reg'[u] = "registered"
    /\ essays' \subseteq essays /\ audits' \subseteq audits
    /\ doomed' \subseteq doomed /\ hand' \subseteq hand
    /\ aged \subseteq aged' /\ \A r \in Results : r \in aged' \ aged => Finished(r)
    /\ UNCHANGED <<submitVars, objects, jobVars, anonVars, crossed>>

LEMMA UndisturbedStep ==
  ASSUME ResultIInv, TraceIInv, Undisturbed
  PROVE  TraceIInv'
<1> USE DEF TraceIInv, Undisturbed, Smooth, Finished, submitVars, jobVars, anonVars
<1>1. MembersAreErased' /\ MakingIsStored' /\ AgedAreFinished'
  BY DEF MembersAreErased, MakingIsStored, AgedAreFinished, Stored
<1>2. ListedFiles' /\ UploadsAreThere'
  BY DEF ListedFiles, UploadsAreThere, Stored
<1>3. OneUpload' /\ ReportsAreKnown' /\ ListIsComplete'
  BY DEF OneUpload, ReportsAreKnown, ListIsComplete, NoReport, Stored
<1>4. CrossingsAreSeen' /\ SnapshotsAreExact'
  BY DEF CrossingsAreSeen, SnapshotsAreExact, NoReport, Unfinished, Stored
<1>5. ErasedMeansNoTraces'
  BY DEF ErasedMeansNoTraces, RowsOf, Stored
<1>6. Downloadable'
  BY DEF Downloadable, Visible, IsExpired, Stored
<1>7. QED
  BY <1>1, <1>2, <1>3, <1>4, <1>5, <1>6

LEMMA TraceInductive == ResultIInv /\ TraceIInv /\ [Next]_vars => TraceIInv'
<1> SUFFICES ASSUME ResultIInv, TraceIInv, [Next]_vars
             PROVE  TraceIInv'
  OBVIOUS
<1> USE LifecycleAssumption
        DEF sessionVars, submitVars, textVars, jobVars, editVars, purgeVars, anonVars,
            historyVars
<1>1. ASSUME NEW g \in Guests, CreateGuestSession(g) \/ Age(g)
      PROVE  TraceIInv'
  <2>1. Undisturbed
    BY <1>1 DEF CreateGuestSession, Age, Owners, Undisturbed, ResultIInv, ResultTypeOK, Finished
  <2>2. QED
    BY <2>1, UndisturbedStep
<1>2. ASSUME NEW r \in Results, AgeResult(r)
      PROVE  TraceIInv'
  <2>1. Undisturbed
    BY <1>2 DEF AgeResult, Undisturbed, ResultIInv, ResultTypeOK, Finished
  <2>2. QED
    BY <2>1, UndisturbedStep
<1>3. ASSUME NEW u \in Users, ReadGuest(u)
      PROVE  TraceIInv'
  <2>1. Undisturbed
    BY <1>3 DEF ReadGuest, Undisturbed, ResultIInv, ResultTypeOK, Finished
  <2>2. QED
    BY <2>1, UndisturbedStep
<1>4. ASSUME NEW e \in Edits, ReadForEdit(e)
      PROVE  TraceIInv'
  <2>1. Undisturbed
    BY <1>4 DEF ReadForEdit, Undisturbed, ResultIInv, ResultTypeOK, Finished
  <2>2. QED
    BY <2>1, UndisturbedStep
<1>5. ASSUME NEW x \in doomed \union hand, PurgeSkips(x)
      PROVE  TraceIInv'
  <2>1. Undisturbed
    BY <1>5 DEF PurgeSkips, Fault, Undisturbed, ResultIInv, ResultTypeOK, Finished
  <2>2. QED
    BY <2>1, UndisturbedStep
<1>6. ASSUME FindOrphans
      PROVE  TraceIInv'
  <2>1. Undisturbed
    BY <1>6 DEF FindOrphans, Undisturbed, ResultIInv, ResultTypeOK, Finished
  <2>2. QED
    BY <2>1, UndisturbedStep
<1>7. ASSUME NEW g \in leaving, PurgeSession(g)
      PROVE  TraceIInv'
  <2>1. Undisturbed
    BY <1>7 DEF PurgeSession, Undisturbed, ResultIInv, ResultTypeOK, Finished
  <2>2. QED
    BY <2>1, UndisturbedStep
<1>8. ASSUME PurgeDies
      PROVE  TraceIInv'
  <2>1. Undisturbed
    BY <1>8 DEF PurgeDies, Fault, Undisturbed, ResultIInv, ResultTypeOK, Finished
  <2>2. QED
    BY <2>1, UndisturbedStep
<1>9. ASSUME NEW r \in Results, PurgeAudit(r)
      PROVE  TraceIInv'
  <2>1. Undisturbed
    BY <1>9 DEF PurgeAudit, Undisturbed, ResultIInv, ResultTypeOK, Finished
  <2>2. QED
    BY <2>1, UndisturbedStep
<1>10. ASSUME NEW e \in Edits, SaveEdit(e)
      PROVE  TraceIInv'
  <2>1. copy[e] \in Row /\ copy[e] # NoRow
    BY <1>10, NoRowAssumption DEF SaveEdit, ResultIInv, CopiesAreOwned
  <2>2. row' = row \/ (stale' # 0 /\ \A r \in Results : Stored(r) => Stored(r)')
    BY <1>10, <2>1 DEF SaveEdit, ResultIInv, ResultTypeOK, Stored
  <2>3. Undisturbed
    BY <1>10, <2>2 DEF SaveEdit, Undisturbed, ResultIInv, ResultTypeOK
  <2>4. QED
    BY <2>3, UndisturbedStep
<1>11. ASSUME UNCHANGED vars
      PROVE  TraceIInv'
  <2>1. Undisturbed
    BY <1>11 DEF vars, Undisturbed
  <2>2. QED
    BY <2>1, UndisturbedStep
<1>12. ASSUME NEW u \in Users, RegisterTx(u)
      PROVE  TraceIInv'
  <2>1. CASE reg[u] = "plain"
    <3>1. Undisturbed
      BY <1>12, <2>1 DEF RegisterTx, Undisturbed, ResultIInv, ResultTypeOK
    <3>2. QED
      BY <3>1, UndisturbedStep
  <2>2. CASE reg[u] = "unclaimed"
    <3> DEFINE g == CookieOf[u]
    <3>1. /\ reg' = [reg EXCEPT ![u] = "registered"]
          /\ row' = Reassigned(g, u)
          /\ UNCHANGED <<stage, author, essays, audits, objects, job, key, doomed, hand,
                         anon, files, aged, faults, stale, crossed>>
      BY <1>12, <2>2 DEF RegisterTx
    <3>2. g # Nobody /\ anon[u] = "no"
      BY <2>2 DEF Owners, ResultIInv, ResultTypeOK, ClaimsHaveCookies, TraceIInv, MembersAreErased
    <3>3. ASSUME NEW r \in Results
          PROVE  /\ Stored(r)' <=> Stored(r)
                 /\ Stored(r) => row'[r].url = row[r].url
                 /\ Stored(r) => row'[r].user = row[r].user
                                 \/ (row'[r].user = u /\ row[r].user = Nobody)
      <4>1. Stored(r) => row[r] \in Row
        BY DEF Stored, ResultIInv, ResultTypeOK
      <4>2. Stored(r) /\ row[r].guest = g =>
                /\ [row[r] EXCEPT !.user = u, !.guest = Nobody] \in Row
                /\ row'[r] = [row[r] EXCEPT !.user = u, !.guest = Nobody]
        BY <3>1, <4>1 DEF Reassigned, Row
      <4>3. ~(Stored(r) /\ row[r].guest = g) => row'[r] = row[r]
        BY <3>1 DEF Reassigned
      <4>4. QED
        BY <3>2, <4>1, <4>2, <4>3, NoRowAssumption DEF Stored, OneOwner, Row, ResultIInv
    <3> USE <3>1, <3>2, <3>3 DEF TraceIInv, Smooth
    <3>4. MembersAreErased' /\ MakingIsStored' /\ AgedAreFinished'
      BY DEF MembersAreErased, MakingIsStored, AgedAreFinished, Finished, ResultIInv, ResultTypeOK
    <3>5. ListedFiles' /\ UploadsAreThere' /\ OneUpload' /\ ReportsAreKnown'
      <4>1. ListedFiles'
        BY LifecycleAssumption DEF ListedFiles, Finished, Owners
      <4>2. UploadsAreThere' /\ OneUpload'
        BY DEF UploadsAreThere, OneUpload, NoReport
      <4>3. ReportsAreKnown'
        BY DEF ReportsAreKnown
      <4>4. QED
        BY <4>1, <4>2, <4>3
    <3>6. CrossingsAreSeen' /\ ListIsComplete'
      BY DEF CrossingsAreSeen, ListIsComplete, Unfinished
    <3>7. SnapshotsAreExact' /\ ErasedMeansNoTraces'
      BY DEF SnapshotsAreExact, ErasedMeansNoTraces, NoReport, RowsOf
    <3>8. Downloadable'
      BY DEF Downloadable, Visible, IsExpired
    <3>9. QED
      BY <3>4, <3>5, <3>6, <3>7, <3>8
  <2>3. QED
    BY <1>12, <2>1, <2>2 DEF RegisterTx
<1>13. ASSUME NEW r \in Results, BeginSubmit(r)
      PROVE  TraceIInv'
  <2>1. /\ stage[r] = "new" /\ stage' = [stage EXCEPT ![r] = "submitting"]
        /\ crossed \subseteq crossed'
        /\ \E a \in Owners :
              /\ author' = [author EXCEPT ![r] = a]
              /\ a \in Users => anon[a] # "erased" /\ (anon[a] = "listed" => r \in crossed')
        /\ UNCHANGED <<reg, row, essays, audits, objects, job, key, doomed, hand, anon,
                       files, aged, faults, stale>>
    BY <1>13 DEF BeginSubmit, Owners
  <2>2. ~Stored(r) /\ r \notin aged
    BY <2>1 DEF ResultIInv, RowsFollowCommits, AgedAreStored
  <2> USE <2>1, <2>2 DEF TraceIInv, Smooth, Finished, ResultIInv, ResultTypeOK
  <2>3. MembersAreErased' /\ MakingIsStored' /\ AgedAreFinished'
    BY DEF MembersAreErased, MakingIsStored, AgedAreFinished, Stored
  <2>4. ListedFiles' /\ UploadsAreThere'
    BY DEF ListedFiles, UploadsAreThere, Stored
  <2>5. OneUpload' /\ ReportsAreKnown'
    BY DEF OneUpload, ReportsAreKnown, NoReport, Stored
  <2>6. CrossingsAreSeen'
    BY DEF CrossingsAreSeen, Unfinished, Stored
  <2>7. ListIsComplete' /\ SnapshotsAreExact' /\ ErasedMeansNoTraces'
    BY DEF ListIsComplete, SnapshotsAreExact, ErasedMeansNoTraces, NoReport, RowsOf, Stored
  <2>8. Downloadable'
    BY DEF Downloadable, Visible, IsExpired, Stored
  <2>9. QED
    BY <2>3, <2>4, <2>5, <2>6, <2>7, <2>8
<1>14. ASSUME NEW r \in Results, CommitResult(r)
      PROVE  TraceIInv'
  <2>1. /\ stage[r] = "submitting" /\ stage' = [stage EXCEPT ![r] = "committed"]
        /\ row' = [row EXCEPT ![r] = NewRow(author[r])]
        /\ essays' = essays \union {r} /\ audits' = audits \union {r}
        /\ UNCHANGED <<reg, author, objects, job, key, doomed, hand, anon, files, aged,
                       faults, stale, crossed>>
    BY <1>14 DEF CommitResult
  <2>2. ~Stored(r) /\ r \notin aged /\ author[r] \in Owners
    BY <2>1 DEF ResultIInv, RowsFollowCommits, AgedAreStored, AuthorsKnown
  <2>3. /\ NewRow(author[r]) # NoRow /\ NewRow(author[r]).url = Nobody
        /\ NewRow(author[r]).user \in {author[r], Nobody}
    BY <2>2, RewrittenRows, NoRowAssumption DEF ResultIInv, NewRow
  <2> USE <2>1, <2>2, <2>3 DEF TraceIInv, Smooth, Finished, ResultIInv, ResultTypeOK
  <2>4. MembersAreErased' /\ MakingIsStored' /\ AgedAreFinished'
    BY DEF MembersAreErased, MakingIsStored, AgedAreFinished, Stored
  <2>5. ListedFiles' /\ UploadsAreThere'
    BY DEF ListedFiles, UploadsAreThere, Stored
  <2>6. OneUpload' /\ ReportsAreKnown'
    BY DEF OneUpload, ReportsAreKnown, NoReport, Stored
  <2>7. CrossingsAreSeen'
    BY DEF CrossingsAreSeen, Unfinished, Stored, Owners
  <2>8. ListIsComplete' /\ SnapshotsAreExact'
    BY DEF ListIsComplete, SnapshotsAreExact, OneUpload, NoReport, Stored
  <2>9. ErasedMeansNoTraces'
    BY DEF ErasedMeansNoTraces, CrossingsAreSeen, Unfinished, RowsOf, Stored, Owners
  <2>10. Downloadable'
    BY DEF Downloadable, Visible, IsExpired, Stored
  <2>11. QED
    BY <2>4, <2>5, <2>6, <2>7, <2>8, <2>9, <2>10
<1>15. ASSUME NEW r \in Results, Enqueue(r)
      PROVE  TraceIInv'
  <2>1. /\ stage[r] = "committed" /\ stage' = [stage EXCEPT ![r] = "stored"]
        /\ \/ job' = [job EXCEPT ![r] = "queued"] /\ faults' = faults
           \/ job' = job /\ faults' # 0
        /\ UNCHANGED <<reg, row, author, essays, audits, objects, key, doomed, hand, anon,
                       files, aged, stale, crossed>>
    BY <1>15 DEF Enqueue, Fault, ResultIInv, ResultTypeOK
  <2>2. Stored(r) /\ r \notin aged /\ job[r] = "none"
    BY <2>1 DEF ResultIInv, ResultTypeOK, AgedAreStored, TraceIInv, MakingIsStored
  <2> USE <2>1, <2>2 DEF TraceIInv, Smooth, Finished, ResultIInv, ResultTypeOK
  <2>3. MembersAreErased' /\ MakingIsStored' /\ AgedAreFinished'
    BY DEF MembersAreErased, MakingIsStored, AgedAreFinished, Stored
  <2>4. ListedFiles' /\ UploadsAreThere'
    BY DEF ListedFiles, UploadsAreThere, Stored
  <2>5. OneUpload' /\ ReportsAreKnown'
    BY DEF OneUpload, ReportsAreKnown, NoReport, Stored
  <2>6. CrossingsAreSeen'
    BY DEF CrossingsAreSeen, Unfinished, Stored
  <2>7. ListIsComplete' /\ SnapshotsAreExact' /\ ErasedMeansNoTraces'
    BY DEF ListIsComplete, SnapshotsAreExact, ErasedMeansNoTraces, NoReport, RowsOf, Stored
  <2>8. Downloadable'
    BY DEF Downloadable, Visible, IsExpired, Stored
  <2>9. QED
    BY <2>3, <2>4, <2>5, <2>6, <2>7, <2>8
<1>16. ASSUME NEW r \in Results, StartJob(r)
      PROVE  TraceIInv'
  <2>1. /\ job[r] = "queued" /\ job' = [job EXCEPT ![r] = "read"]
        /\ \E o \in Owners \union {Nobody} : key' = [key EXCEPT ![r] = o]
        /\ UNCHANGED <<reg, row, stage, author, essays, audits, objects, doomed, hand, anon,
                       files, aged, faults, stale, crossed>>
    <3>1. Stored(r)
      BY <1>16 DEF StartJob, TraceIInv, MakingIsStored
    <3>2. OwnerOf(row[r]) \in Owners \union {Nobody}
      BY <3>1 DEF Stored, OwnerOf, Row, Owners, ResultIInv, ResultTypeOK
    <3>3. QED
      BY <1>16, <3>1, <3>2 DEF StartJob
  <2> USE <2>1 DEF TraceIInv, Smooth, Finished, ResultIInv, ResultTypeOK
  <2>3. MembersAreErased' /\ MakingIsStored' /\ AgedAreFinished'
    BY DEF MembersAreErased, MakingIsStored, AgedAreFinished, Stored
  <2>4. ListedFiles' /\ UploadsAreThere'
    BY DEF ListedFiles, UploadsAreThere, Stored
  <2>5. OneUpload' /\ ReportsAreKnown'
    BY DEF OneUpload, ReportsAreKnown, NoReport, Stored
  <2>6. CrossingsAreSeen'
    BY DEF CrossingsAreSeen, Unfinished, Stored
  <2>7. ListIsComplete' /\ SnapshotsAreExact' /\ ErasedMeansNoTraces'
    BY DEF ListIsComplete, SnapshotsAreExact, ErasedMeansNoTraces, NoReport, RowsOf, Stored
  <2>8. Downloadable'
    BY DEF Downloadable, Visible, IsExpired, Stored
  <2>9. QED
    BY <2>3, <2>4, <2>5, <2>6, <2>7, <2>8
<1>17. ASSUME NEW r \in Results, MarkProcessing(r)
      PROVE  TraceIInv'
  <2>1. /\ job[r] = "read" /\ job' = [job EXCEPT ![r] = "marked"]
        /\ UNCHANGED <<reg, stage, author, essays, audits, objects, key, doomed, hand, anon,
                       files, aged, faults, stale, crossed>>
    BY <1>17 DEF MarkProcessing
  <2>2. SameOwners /\ row'[r].url = Nobody
        /\ \A q \in Results : q # r => row'[q] = row[q]
    <3>1. Stored(r)
      BY <2>1 DEF TraceIInv, MakingIsStored
    <3>2. QED
      BY <1>17, <3>1, StatusUpdate, UpdatedRow DEF MarkProcessing, PdfStatus, ResultIInv
  <2> USE <2>1, <2>2 DEF TraceIInv, Smooth, Finished, ResultIInv, ResultTypeOK, SameOwners
  <2>3. MembersAreErased' /\ MakingIsStored' /\ AgedAreFinished'
    BY DEF MembersAreErased, MakingIsStored, AgedAreFinished, Stored
  <2>4. ListedFiles' /\ UploadsAreThere'
    BY DEF ListedFiles, UploadsAreThere, Stored
  <2>5. OneUpload' /\ ReportsAreKnown'
    BY DEF OneUpload, ReportsAreKnown, NoReport, Stored
  <2>6. CrossingsAreSeen'
    BY DEF CrossingsAreSeen, Unfinished, Stored
  <2>7. ListIsComplete' /\ SnapshotsAreExact'
    BY DEF ListIsComplete, SnapshotsAreExact, NoReport, Stored
  <2>8. ErasedMeansNoTraces'
    BY DEF ErasedMeansNoTraces, RowsOf, Stored
  <2>9. Downloadable'
    BY DEF Downloadable, Visible, IsExpired, Stored
  <2>10. QED
    BY <2>3, <2>4, <2>5, <2>6, <2>7, <2>8, <2>9
<1>18. ASSUME NEW r \in Results, Upload(r)
      PROVE  TraceIInv'
  <2>1. /\ job[r] = "marked" /\ job' = [job EXCEPT ![r] = "uploaded"]
        /\ key[r] \in Owners /\ objects' = objects \union {<<key[r], r>>}
        /\ UNCHANGED <<reg, row, stage, author, essays, audits, key, doomed, hand, anon,
                       files, aged, faults, stale, crossed>>
    BY <1>18 DEF Upload, ResultIInv, KeysAreOwners
  <2>2. Stored(r) /\ stage[r] = "stored" /\ ~IsExpired(r)
    BY <2>1 DEF TraceIInv, MakingIsStored, AgedAreFinished, Finished, IsExpired
  <2> USE <2>1, <2>2 DEF TraceIInv, Smooth, Finished, ResultIInv, ResultTypeOK
  <2>3. MembersAreErased' /\ MakingIsStored' /\ AgedAreFinished'
    BY DEF MembersAreErased, MakingIsStored, AgedAreFinished, Stored
  <2>4. ListedFiles' /\ UploadsAreThere'
    BY DEF ListedFiles, UploadsAreThere, Stored
  <2>5. OneUpload' /\ ReportsAreKnown'
    BY DEF OneUpload, ReportsAreKnown, NoReport, Stored
  <2>6. CrossingsAreSeen'
    BY DEF CrossingsAreSeen, Unfinished, Stored
  <2>7. ListIsComplete' /\ ErasedMeansNoTraces'
    BY DEF ListIsComplete, CrossingsAreSeen, ErasedMeansNoTraces, Unfinished, RowsOf, Stored
  <2>8. SnapshotsAreExact'
    <3>1. \A x \in doomed \union hand : x.result # r
      BY DEF SnapshotsAreExpired
    <3>2. QED
      BY <3>1 DEF SnapshotsAreExact, NoReport
  <2>9. Downloadable'
    BY DEF Downloadable, Visible, IsExpired, Stored
  <2>10. QED
    BY <2>3, <2>4, <2>5, <2>6, <2>7, <2>8, <2>9
<1>19. ASSUME NEW r \in Results, MarkCompleted(r)
      PROVE  TraceIInv'
  <2>1. /\ job[r] = "uploaded"
        /\ \/ job' = [job EXCEPT ![r] = "none"] /\ faults' = faults
           \/ job' = [job EXCEPT ![r] = "queued"] /\ faults' # 0
        /\ key' = [key EXCEPT ![r] = Nobody]
        /\ UNCHANGED <<reg, stage, author, essays, audits, objects, doomed, hand, anon,
                       files, aged, stale, crossed>>
    BY <1>19 DEF MarkCompleted, Fault, ResultIInv, ResultTypeOK
  <2>2. /\ SameOwners /\ row'[r].url = key[r]
        /\ \A q \in Results : q # r => row'[q] = row[q]
    <3>1. Stored(r)
      BY <2>1 DEF TraceIInv, MakingIsStored
    <3>2. key[r] \in Owners
      BY <2>1 DEF ResultIInv, KeysAreOwners
    <3>3. QED
      BY <1>19, <3>1, <3>2, StatusUpdate, UpdatedRow DEF MarkCompleted, PdfStatus, ResultIInv
  <2> USE <2>1, <2>2 DEF TraceIInv, Smooth, Finished, ResultIInv, ResultTypeOK, SameOwners
  <2>3. MembersAreErased' /\ MakingIsStored' /\ AgedAreFinished'
    BY DEF MembersAreErased, MakingIsStored, AgedAreFinished, Stored
  <2>4. ListedFiles' /\ UploadsAreThere'
    BY DEF ListedFiles, UploadsAreThere, Stored
  <2>5. OneUpload' /\ ReportsAreKnown'
    BY DEF OneUpload, ReportsAreKnown, NoReport, MakingIsStored, Stored
  <2>6. CrossingsAreSeen'
    BY DEF CrossingsAreSeen, Unfinished, Stored
  <2>7. ListIsComplete' /\ SnapshotsAreExact'
    BY DEF ListIsComplete, SnapshotsAreExact, NoReport, RowsOf, Stored
  <2>8. ErasedMeansNoTraces'
    BY DEF ErasedMeansNoTraces, RowsOf, Stored
  <2>9. Downloadable'
    BY DEF Downloadable, UploadsAreThere, Visible, IsExpired, Stored
  <2>10. QED
    BY <2>3, <2>4, <2>5, <2>6, <2>7, <2>8, <2>9
<1>20. ASSUME NEW r \in Results, JobFails(r)
      PROVE  TraceIInv'
  <2>1. /\ job[r] # "none" /\ faults' # 0
        /\ job' = [job EXCEPT ![r] = "queued"] \/ job' = [job EXCEPT ![r] = "none"]
        /\ key' = [key EXCEPT ![r] = Nobody]
        /\ UNCHANGED <<reg, stage, author, essays, audits, objects, doomed, hand, anon,
                       files, aged, stale, crossed>>
    BY <1>20 DEF JobFails, Fault, ResultIInv, ResultTypeOK
  <2>2. /\ SameOwners /\ row'[r].url \in {row[r].url, Nobody}
        /\ \A q \in Results : q # r => row'[q] = row[q]
    <3>1. CASE row' = row
      BY <3>1 DEF SameOwners
    <3>2. CASE UpdatePDFStatus(r, Nobody, "failed")
      <4>1. Stored(r)
        BY <2>1 DEF TraceIInv, MakingIsStored
      <4>2. QED
        BY <3>2, <4>1, StatusUpdate, UpdatedRow DEF PdfStatus, ResultIInv
    <3>3. QED
      BY <1>20, <3>1, <3>2 DEF JobFails
  <2> USE <2>1, <2>2 DEF TraceIInv, Smooth, Finished, ResultIInv, ResultTypeOK, SameOwners
  <2>3. MembersAreErased' /\ MakingIsStored' /\ AgedAreFinished'
    BY DEF MembersAreErased, MakingIsStored, AgedAreFinished, Stored
  <2>4. ListedFiles' /\ UploadsAreThere'
    BY DEF ListedFiles, UploadsAreThere, Stored
  <2>5. CrossingsAreSeen'
    BY DEF CrossingsAreSeen, Unfinished, Stored
  <2>6. OneUpload' /\ ReportsAreKnown' /\ ListIsComplete' /\ SnapshotsAreExact'
        /\ ErasedMeansNoTraces'
    BY DEF OneUpload, ReportsAreKnown, ListIsComplete, SnapshotsAreExact, ErasedMeansNoTraces
  <2>7. Downloadable'
    BY DEF Downloadable, Visible, IsExpired, Stored
  <2>8. QED
    BY <2>3, <2>4, <2>5, <2>6, <2>7
<1>21. ASSUME FindExpired
      PROVE  TraceIInv'
  <2>1. /\ hand = {}
        /\ doomed' = {[result |-> r, url |-> row[r].url, guest |-> row[r].guest] :
                          r \in ExpiredGuestResults}
        /\ UNCHANGED <<reg, row, stage, author, essays, audits, objects, job, key, hand,
                       anon, files, aged, faults, stale, crossed>>
    BY <1>21 DEF FindExpired, PurgeIdle
  <2> USE <2>1 DEF TraceIInv, Smooth
  <2>2. MembersAreErased' /\ MakingIsStored' /\ AgedAreFinished' /\ ListedFiles'
        /\ UploadsAreThere'
    BY DEF MembersAreErased, MakingIsStored, AgedAreFinished, ListedFiles, UploadsAreThere,
           Finished, Stored
  <2>3. OneUpload' /\ ReportsAreKnown' /\ CrossingsAreSeen' /\ ListIsComplete'
    BY DEF OneUpload, ReportsAreKnown, CrossingsAreSeen, ListIsComplete, NoReport,
           Unfinished, Stored
  <2>4. SnapshotsAreExact'
    <3>1. \A x \in doomed' : /\ x.result \in Results /\ row[x.result].url = x.url
                             /\ job[x.result] = "none"
      BY DEF ExpiredGuestResults, IsExpired, AgedAreFinished, Finished
    <3>2. QED
      BY <3>1 DEF SnapshotsAreExact, ReportsAreKnown
  <2>5. ErasedMeansNoTraces' /\ Downloadable'
    BY DEF ErasedMeansNoTraces, Downloadable, RowsOf, Visible, IsExpired, Stored
  <2>6. QED
    BY <2>2, <2>3, <2>4, <2>5
<1>22. ASSUME NEW x \in doomed \union hand, PurgePDF(x)
      PROVE  TraceIInv'
  <2>1. /\ x \in doomed /\ doomed' = doomed \ {x} /\ hand' = {x}
        /\ objects' = objects \ {<<x.url, x.result>>}
        /\ UNCHANGED <<reg, row, stage, author, essays, audits, job, key, anon, files, aged,
                       faults, stale, crossed>>
    BY <1>22 DEF PurgePDF
  <2>2. x.result \in Results /\ IsExpired(x.result) /\ Finished(x.result)
    BY <2>1 DEF ResultIInv, ResultTypeOK, Snapshot, SnapshotsAreExpired, TraceIInv,
                AgedAreFinished, IsExpired
  <2> USE <2>1, <2>2 DEF TraceIInv, Smooth
  <2>3. MembersAreErased' /\ MakingIsStored' /\ AgedAreFinished' /\ ListedFiles'
    BY DEF MembersAreErased, MakingIsStored, AgedAreFinished, ListedFiles, Finished, Stored
  <2>4. UploadsAreThere' /\ OneUpload' /\ ReportsAreKnown'
    BY DEF UploadsAreThere, OneUpload, ReportsAreKnown, NoReport, Finished, Stored
  <2>5. CrossingsAreSeen' /\ ListIsComplete'
    BY DEF CrossingsAreSeen, ListIsComplete, Unfinished, Stored
  <2>6. SnapshotsAreExact'
    BY DEF SnapshotsAreExact, NoReport
  <2>7. ErasedMeansNoTraces' /\ Downloadable'
    BY DEF ErasedMeansNoTraces, Downloadable, RowsOf, Visible, IsExpired, Stored
  <2>8. QED
    BY <2>3, <2>4, <2>5, <2>6, <2>7
<1>23. ASSUME NEW x \in doomed \union hand, PurgeRow(x)
      PROVE  TraceIInv'
  <2>1. /\ x \in hand /\ hand' = {}
        /\ row' = [row EXCEPT ![x.result] = NoRow]
        /\ essays' = essays \ {x.result} /\ audits' = audits \ {x.result}
        /\ UNCHANGED <<reg, stage, author, objects, job, key, doomed, anon, files, aged,
                       faults, stale, crossed>>
    BY <1>23 DEF PurgeRow
  <2>2. x.result \in Results /\ Finished(x.result)
    BY <2>1 DEF ResultIInv, ResultTypeOK, Snapshot, SnapshotsAreExpired, TraceIInv,
                AgedAreFinished, IsExpired
  <2> USE <2>1, <2>2 DEF TraceIInv, Smooth, ResultIInv, ResultTypeOK
  <2>3. MembersAreErased' /\ MakingIsStored' /\ AgedAreFinished' /\ ListedFiles'
    BY DEF MembersAreErased, MakingIsStored, AgedAreFinished, ListedFiles, Finished, Stored
  <2>4. UploadsAreThere' /\ OneUpload'
    BY DEF UploadsAreThere, OneUpload, NoReport
  <2>5. ReportsAreKnown' /\ SnapshotsAreExact'
    BY DEF ReportsAreKnown, SnapshotsAreExact, NoReport, Stored
  <2>6. CrossingsAreSeen' /\ ListIsComplete'
    BY DEF CrossingsAreSeen, ListIsComplete, Unfinished, Stored
  <2>7. ErasedMeansNoTraces' /\ Downloadable'
    BY DEF ErasedMeansNoTraces, Downloadable, RowsOf, Visible, IsExpired, Stored
  <2>8. QED
    BY <2>3, <2>4, <2>5, <2>6, <2>7
<1>24. ASSUME NEW u \in Users, ListPDFs(u)
      PROVE  TraceIInv'
  <2>1. /\ reg[u] = "registered" /\ anon[u] \in {"no", "again"}
        /\ anon' = [anon EXCEPT ![u] = "listed"]
        /\ files' = [files EXCEPT ![u] =
               {<<row[r].url, r>> : r \in {q \in RowsOf(u) : row[q].url # Nobody}}]
        /\ crossed' = crossed \union
               {r \in Results : Unfinished(r) /\ (author[r] = u \/ r \in RowsOf(u))}
        /\ UNCHANGED <<reg, row, stage, author, essays, audits, objects, job, key, doomed,
                       hand, aged, faults, stale>>
    BY <1>24 DEF ListPDFs
  <2>2. ASSUME NEW o \in Owners, NEW r \in Results
        PROVE  <<o, r>> \in files'[u] <=> Stored(r) /\ row[r].user = u /\ row[r].url = o
    BY <2>1, LifecycleAssumption DEF RowsOf, ResultIInv, ResultTypeOK
  <2>3. \A v \in Users : v # u => anon'[v] = anon[v] /\ files'[v] = files[v]
    BY <2>1 DEF ResultIInv, ResultTypeOK
  <2>4. anon'[u] = "listed" /\ crossed \subseteq crossed'
    BY <2>1 DEF ResultIInv, ResultTypeOK
  <2>5. \A r \in Results :
           Unfinished(r) /\ (author[r] = u \/ (Stored(r) /\ row[r].user = u)) => r \in crossed'
    BY <2>1 DEF RowsOf
  <2>6. /\ reg[u] = "registered"
        /\ UNCHANGED <<reg, row, stage, author, essays, audits, objects, job, key, doomed,
                       hand, aged, faults, stale>>
    BY <2>1
  <2> USE <2>2, <2>3, <2>4, <2>5, <2>6 DEF TraceIInv, Smooth
  <2>7. MembersAreErased' /\ MakingIsStored' /\ AgedAreFinished'
    BY DEF MembersAreErased, MakingIsStored, AgedAreFinished, Finished, Stored
  <2>8. ListedFiles'
    BY DEF ListedFiles, Finished, Unfinished, ResultIInv, RowsFollowCommits, Stored
  <2>9. UploadsAreThere' /\ OneUpload' /\ ReportsAreKnown'
    BY DEF UploadsAreThere, OneUpload, ReportsAreKnown, NoReport, Stored
  <2>10. CrossingsAreSeen'
    BY DEF CrossingsAreSeen, Unfinished, Stored
  <2>11. ListIsComplete'
    BY DEF ListIsComplete, ReportsAreKnown, Unfinished, Stored
  <2>12. SnapshotsAreExact'
    BY DEF SnapshotsAreExact, NoReport
  <2>13. ErasedMeansNoTraces'
    BY DEF ErasedMeansNoTraces, RowsOf, Stored
  <2>14. Downloadable'
    <3>1. \A r \in Results : Stored(r) /\ row[r].user # Nobody => row[r].user \in Users
      BY DEF Stored, ResultIInv, ResultTypeOK, Row
    <3>2. QED
      BY <3>1 DEF Downloadable, Visible, IsExpired, Stored
  <2>15. QED
    BY <2>7, <2>8, <2>9, <2>10, <2>11, <2>12, <2>13, <2>14
<1>25. ASSUME NEW u \in Users, NEW f \in files[u], DeletePDF(u, f)
      PROVE  TraceIInv'
  <2>1. PICK p \in Owners, q \in Results : f = <<p, q>>
    BY DEF ResultIInv, ResultTypeOK, Files
  <2>2. /\ <<p, q>> \in files[u] /\ objects' = objects \ {<<p, q>>}
        /\ files' = [files EXCEPT ![u] = @ \ {<<p, q>>}]
        /\ UNCHANGED <<reg, row, stage, author, essays, audits, job, key, doomed, hand, anon,
                       aged, faults, stale, crossed>>
    BY <1>25, <2>1 DEF DeletePDF
  <2>3. /\ anon[u] = "listed"
        /\ Finished(q) \/ q \in crossed
        /\ stale = 0 /\ Stored(q) => row[q].user = u
    BY <2>2 DEF TraceIInv, ListedFiles
  <2> USE <2>2, <2>3 DEF TraceIInv, Smooth, ResultIInv, ResultTypeOK
  <2>4. MembersAreErased' /\ MakingIsStored' /\ AgedAreFinished' /\ ListedFiles'
    BY DEF MembersAreErased, MakingIsStored, AgedAreFinished, ListedFiles, Finished, Stored
  <2>5. UploadsAreThere' /\ OneUpload' /\ ReportsAreKnown'
    BY DEF UploadsAreThere, OneUpload, ReportsAreKnown, NoReport, Finished, Stored
  <2>6. CrossingsAreSeen' /\ SnapshotsAreExact'
    BY DEF CrossingsAreSeen, SnapshotsAreExact, NoReport, Unfinished, Stored
  <2>7. ListIsComplete'
    BY DEF ListIsComplete, Stored
  <2>8. ErasedMeansNoTraces'
    BY DEF ErasedMeansNoTraces, RowsOf, Stored
  <2>9. Downloadable'
    BY LifecycleAssumption DEF Downloadable, Visible, IsExpired, Stored, Owners
  <2>10. QED
    BY <2>4, <2>5, <2>6, <2>7, <2>8, <2>9
<1>26. ASSUME NEW u \in Users, Scrub(u)
      PROVE  TraceIInv'
  <2>1. /\ anon[u] = "listed" /\ files[u] = {}
        /\ anon' = [anon EXCEPT ![u] = "erased"]
        /\ row' = [r \in Results |->
               IF r \in RowsOf(u) THEN [row[r] EXCEPT !.url = Nobody] ELSE row[r]]
        /\ essays' = essays \ RowsOf(u) /\ audits' = audits \ RowsOf(u)
        /\ UNCHANGED <<reg, stage, author, objects, job, key, doomed, hand, files, aged,
                       faults, stale, crossed>>
    BY <1>26 DEF Scrub
  <2>2. ASSUME NEW r \in Results
        PROVE  /\ Stored(r)' <=> Stored(r)
               /\ Stored(r) => row'[r].user = row[r].user
               /\ Stored(r) /\ row[r].user = u => row'[r].url = Nobody
               /\ ~(Stored(r) /\ row[r].user = u) => row'[r] = row[r]
    <3>1. CASE r \in RowsOf(u)
      <4>1. row[r] \in Row /\ Stored(r) /\ row[r].user = u
        BY <3>1 DEF RowsOf, Stored, ResultIInv, ResultTypeOK
      <4>2. /\ [row[r] EXCEPT !.url = Nobody] \in Row
            /\ row'[r] = [row[r] EXCEPT !.url = Nobody]
        BY <2>1, <3>1, RewrittenRows DEF ResultIInv
      <4>3. QED
        BY <4>1, <4>2, NoRowAssumption DEF Row, Stored
    <3>2. CASE r \notin RowsOf(u)
      BY <2>1, <3>2 DEF RowsOf, Stored
    <3>3. QED
      BY <3>1, <3>2
  <2>3. /\ anon[u] = "listed" /\ files[u] = {}
        /\ anon' = [anon EXCEPT ![u] = "erased"]
        /\ essays' = essays \ RowsOf(u) /\ audits' = audits \ RowsOf(u)
        /\ UNCHANGED <<reg, stage, author, objects, job, key, doomed, hand, files, aged,
                       faults, stale, crossed>>
    BY <2>1
  <2> USE <2>2, <2>3 DEF TraceIInv, Smooth, ResultIInv, ResultTypeOK
  <2>4. MembersAreErased' /\ MakingIsStored' /\ AgedAreFinished' /\ ListedFiles'
    BY DEF MembersAreErased, MakingIsStored, AgedAreFinished, ListedFiles, Finished
  <2>5. UploadsAreThere' /\ OneUpload'
    BY DEF UploadsAreThere, OneUpload, NoReport
  <2>6. ReportsAreKnown'
    BY DEF ReportsAreKnown, ListIsComplete
  <2>7. CrossingsAreSeen' /\ SnapshotsAreExact'
    BY DEF CrossingsAreSeen, SnapshotsAreExact, NoReport, Unfinished
  <2>8. ListIsComplete'
    BY DEF ListIsComplete
  <2>9. ErasedMeansNoTraces'
    BY DEF ErasedMeansNoTraces, ListIsComplete, RowsOf
  <2>10. Downloadable'
    BY DEF Downloadable, Visible, IsExpired
  <2>11. QED
    BY <2>4, <2>5, <2>6, <2>7, <2>8, <2>9, <2>10
<1>27. ASSUME NEW u \in Users, AnonymizeFails(u)
      PROVE  TraceIInv'
  <2>1. /\ anon[u] = "listed" /\ faults' # 0
        /\ anon' = [anon EXCEPT ![u] = "again"] /\ files' = [files EXCEPT ![u] = {}]
        /\ UNCHANGED <<reg, row, stage, author, essays, audits, objects, job, key, doomed,
                       hand, aged, stale, crossed>>
    BY <1>27 DEF AnonymizeFails, Fault, ResultIInv, ResultTypeOK
  <2> USE <2>1 DEF TraceIInv, Smooth, ResultIInv, ResultTypeOK
  <2>2. MembersAreErased' /\ MakingIsStored' /\ AgedAreFinished' /\ ListedFiles'
    BY DEF MembersAreErased, MakingIsStored, AgedAreFinished, ListedFiles, Finished, Stored
  <2>3. UploadsAreThere' /\ CrossingsAreSeen'
    BY DEF UploadsAreThere, CrossingsAreSeen, Unfinished, Stored
  <2>4. OneUpload' /\ ReportsAreKnown' /\ ListIsComplete' /\ SnapshotsAreExact'
        /\ ErasedMeansNoTraces'
    BY DEF OneUpload, ReportsAreKnown, ListIsComplete, SnapshotsAreExact, ErasedMeansNoTraces
  <2>5. Downloadable'
    BY DEF Downloadable, Visible, IsExpired, Stored
  <2>6. QED
    BY <2>2, <2>3, <2>4, <2>5
<1>28. QED
  BY <1>1, <1>2, <1>3, <1>4, <1>5, <1>6, <1>7, <1>8, <1>9, <1>10, <1>11, <1>12,
     <1>13, <1>14, <1>15, <1>16, <1>17, <1>18, <1>19, <1>20, <1>21, <1>22, <1>23,
     <1>24, <1>25, <1>26, <1>27
     DEF Next, GuestStep, RegisterStep, EditStep, PurgeRuns, AnonymizeStep, JobRuns

LEMMA TraceInvariant == SafeSpec => []TraceIInv
<1>1. QED
  BY ResultInvariant, TracesInitially, TraceInductive, PTL DEF SafeSpec

-----------------------------------------------------------------------------
\* Type correctness.
THEOREM ResultTypeCorrect == SafeSpec => []ResultTypeOK
<1>1. ResultIInv => ResultTypeOK
  BY DEF ResultIInv
<1>2. QED
  BY <1>1, ResultInvariant, PTL

\* A stored result always has exactly one owner, stale saves included:
\* objectKey never dereferences a guest_session_id that is NULL.
THEOREM ResultsHaveOneOwner == SafeSpec => []OneOwner
<1>1. ResultIInv => OneOwner
  BY DEF ResultIInv
<1>2. QED
  BY <1>1, ResultInvariant, PTL

\* A result that was claimed in time outlives every purge.
THEOREM ClaimedResultsAreKept == SafeSpec => []KeptOnceClaimed
<1>1. ResultIInv => KeptOnceClaimed
  BY DEF ResultIInv, ClaimsAreSafe, KeptOnceClaimed
<1>2. QED
  BY <1>1, ResultInvariant, PTL

\* No essay and no prompt log outlives its result.
THEOREM PurgedResultsAreForgotten == SafeSpec => []PurgedMeansForgotten
<1>1. ResultIInv => PurgedMeansForgotten
  BY DEF ResultIInv, TextsAreStored, PurgedMeansForgotten
<1>2. QED
  BY <1>1, ResultInvariant, PTL

\* No step moves a member's result to somebody else.
THEOREM OwnersAreFinal == SafeSpec => OwnerIsFinal
<1>1. ResultIInv /\ [Next]_vars =>
        [\A r \in Results :
            Stored(r) /\ row[r].user # Nobody /\ Stored(r)' /\ stale' = 0
            => row'[r].user = row[r].user]_vars
  BY ResultInductive DEF OwnerKept
<1>2. QED
  BY <1>1, ResultInvariant, PTL DEF SafeSpec, OwnerIsFinal

\* Without failures no report is left behind in storage: neither by a claim
\* that moves the result between the upload and the update, nor by the purge,
\* nor by an anonymization.
THEOREM NoReportIsOrphaned == SafeSpec => []NoOrphanedObject
<1>1. ResultIInv /\ TraceIInv => NoOrphanedObject
  <2> SUFFICES ASSUME ResultTypeOK, ReportsAreKnown, faults = 0 /\ stale = 0,
                      NEW f \in objects
               PROVE  \/ Stored(f[2]) /\ row[f[2]].url = f[1]
                      \/ Uploading(f[1], f[2])
                      \/ f[2] \in crossed
    BY DEF ResultIInv, TraceIInv, NoOrphanedObject
  <2>1. PICK o \in Owners, r \in Results : f = <<o, r>>
    BY DEF ResultTypeOK, Files
  <2>2. QED
    BY <2>1 DEF ReportsAreKnown, Smooth, Uploading
<1>2. QED
  BY <1>1, ResultInvariant, TraceInvariant, PTL

\* Without failures an erased account has neither essays, nor prompt logs, nor
\* reports but those of results that were in the making when it was erased.
THEOREM ErasureIsComplete == SafeSpec => []ErasedMeansNoTraces
<1>1. TraceIInv => ErasedMeansNoTraces
  BY DEF TraceIInv
<1>2. QED
  BY <1>1, TraceInvariant, PTL

\* Whatever failed, the pdf_url of a visible result names a report that is
\* there, unless its owner is being erased.
THEOREM VisibleReportsDownload == SafeSpec => []Downloadable
<1>1. TraceIInv => Downloadable
  BY DEF TraceIInv
<1>2. QED
  BY <1>1, TraceInvariant, PTL
=============================================================================
