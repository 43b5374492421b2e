----------------------- MODULE KnowledgeIngestion_proofs -----------------------
(***************************************************************************)
(* Theorems about KnowledgeIngestion for any number of documents, instances *)
(* of Core, attempts, revisions and crashes.                                *)
(***************************************************************************)
EXTENDS KnowledgeIngestion, TLAPS

\* A worker past its claim has a document in hand; what it cleans up was deleted,
\* and a file it has erased is gone.
Working == {"claimed", "marked", "embedding", "publishing", "replacing", "failing", "recording"}

HandInv ==
    \A w \in Workers :
        /\ stage[w] \in Working \union {"erased"} => held[w].doc \in Docs
        /\ \A d \in condemned[w] : doc[d].status \in {"DELETING", "removed"}
        /\ stage[w] = "erased" =>
              held[w].doc \in condemned[w] /\ file[held[w].doc] = "deleted"

\* The row of a document is locked by the worker that says so, and then the
\* document is visible and still what that worker found; the owner locks a row that
\* has a revision left.
LockInv ==
    /\ \A w \in Workers, d \in Docs :
          lock[d] = w <=> stage[w] \in {"replacing", "recording"} /\ held[w].doc = d
    /\ \A d \in Docs : lock[d] # None => doc[d].status \in Visible
    /\ \A d \in Docs : lock[d] = Owner => doc[d].rev < MaxRevision
    /\ \A w \in Workers : stage[w] = "replacing" => held[w].rev = doc[held[w].doc].rev

\* No lease a claim found past is renewed, and the job counts as exhausted from the
\* beginning of the claim or not at all.
ScanInv ==
    \A w \in Workers : \A d \in scan[w].lapsed :
        /\ lease[d] # "valid"
        /\ d \notin scan[w].exhausted => job[d].attempts < MaxAttempts

\* A file is new while its document is uploaded, and what a sweep does not know to be
\* referenced is new if it is referenced.
FileInv ==
    /\ \A d \in Docs : doc[d].status = "uploading" => file[d] = "new"
    /\ referenced # None => \A d \in Docs :
          doc[d].status \in Visible /\ d \notin referenced => file[d] = "new"

IInv ==
    /\ TypeOK /\ HandInv /\ LockInv /\ ScanInv /\ FileInv
    /\ ReadyIsIndexed /\ NoDocumentIsStranded /\ FilesFollowDocuments

-------------------------------------------------------------------------------
USE BoundsAssumption, NamesAssumption

\* What changing the status of a document does.
LEMMA BecomesEffect ==
  ASSUME TypeOK, NEW d \in Docs, NEW s \in Visible \union NoRow \union {"DELETING"},
         Becomes(d, s)
  PROVE  /\ doc' \in [Docs -> DocTypes]
         /\ doc'[d].status = s /\ doc'[d].rev = doc[d].rev
         /\ \A e \in Docs \ {d} : doc'[e] = doc[e]
<1>1. doc[d] = [status |-> doc[d].status, rev |-> doc[d].rev]
  BY DEF TypeOK, DocTypes
<1>2. [doc[d] EXCEPT !.status = s] = [status |-> s, rev |-> doc[d].rev]
  BY <1>1
<1>3. doc' = [doc EXCEPT ![d] = [status |-> s, rev |-> doc[d].rev]]
  BY <1>2 DEF Becomes
<1> QED
  BY <1>3 DEF TypeOK, DocTypes

\* The rows of jobs that differ from j where a claim, a publication, a failure and the
\* clock change one.
JobRow(status, rev, attempts, owner, due) ==
    [status |-> status, rev |-> rev, attempts |-> attempts, owner |-> owner, due |-> due]

\* What coming due does to a row.
LEMMA DueRow ==
  ASSUME NEW j \in JobTypes, NEW due
  PROVE  [j EXCEPT !.due = due] = JobRow(j.status, j.rev, j.attempts, j.owner, due)
  BY DEF JobTypes, JobRow

\* What a lease does to a row: PROCESSING, one attempt more, owned by w.
LEMMA LeasedRow ==
  ASSUME NEW j \in JobTypes, NEW w
  PROVE  Leased(j, w) = JobRow("PROCESSING", j.rev, j.attempts + 1, w, j.due)
<1>1. [j EXCEPT !.status = "PROCESSING"]
         = JobRow("PROCESSING", j.rev, j.attempts, j.owner, j.due)
  BY DEF JobTypes, JobRow
<1>2. [JobRow("PROCESSING", j.rev, j.attempts, j.owner, j.due) EXCEPT !.attempts = j.attempts + 1]
         = JobRow("PROCESSING", j.rev, j.attempts + 1, j.owner, j.due)
  BY DEF JobRow
<1>3. [JobRow("PROCESSING", j.rev, j.attempts + 1, j.owner, j.due) EXCEPT !.owner = w]
         = JobRow("PROCESSING", j.rev, j.attempts + 1, w, j.due)
  BY DEF JobRow
<1> QED
  BY <1>1, <1>2, <1>3, Zenon DEF Leased

\* What the end of a job, or of an attempt, does to its row.
LEMMA EndedRow ==
  ASSUME NEW j \in JobTypes, NEW s, NEW due
  PROVE  /\ [j EXCEPT !.status = s, !.owner = None] = JobRow(s, j.rev, j.attempts, None, j.due)
         /\ [j EXCEPT !.status = s, !.owner = None, !.due = due]
               = JobRow(s, j.rev, j.attempts, None, due)
<1>1. [j EXCEPT !.status = s] = JobRow(s, j.rev, j.attempts, j.owner, j.due)
  BY DEF JobTypes, JobRow
<1>2. [JobRow(s, j.rev, j.attempts, j.owner, j.due) EXCEPT !.owner = None]
         = JobRow(s, j.rev, j.attempts, None, j.due)
  BY DEF JobRow
<1>3. [JobRow(s, j.rev, j.attempts, None, j.due) EXCEPT !.due = due]
         = JobRow(s, j.rev, j.attempts, None, due)
  BY DEF JobRow
<1> QED
  BY <1>1, <1>2, <1>3, Zenon

\* What a claim does to documents and jobs: what it condemns becomes FAILED, what is
\* exhausted ends, what it leases to w has one attempt more.
LEMMA ClaimEffect ==
  ASSUME TypeOK, NEW w \in Workers, CommitClaim(w)
  PROVE  /\ doc' \in [Docs -> DocTypes]
         /\ job' \in [Docs -> JobTypes]
         /\ held' \in [Workers -> HeldTypes]
         /\ \A e \in Docs :
               /\ doc'[e].rev = doc[e].rev
               /\ doc'[e].status = IF e \in Condemns(w) THEN "FAILED" ELSE doc[e].status
         /\ \/ /\ \A e \in Docs :
                     /\ job'[e].attempts = job[e].attempts
                     /\ job'[e].status = IF e \in Exhausted(w) THEN "FAILED" ELSE job[e].status
               /\ UNCHANGED <<lease, held>>
               /\ scan' = ScansAfterLeasing(w, {})
               /\ stage' = [stage EXCEPT ![w] = "idle"]
            \/ \E d \in Candidates(w) :
                  /\ job'[d].status = "PROCESSING"
                  /\ \A e \in Docs \ {d} :
                        /\ job'[e].attempts = job[e].attempts
                        /\ job'[e].status = IF e \in Exhausted(w) THEN "FAILED" ELSE job[e].status
                  /\ lease' = [lease EXCEPT ![d] = "valid"]
                  /\ scan' = ScansAfterLeasing(w, {d})
                  /\ stage' = [stage EXCEPT ![w] = "claimed"]
                  /\ held' = [held EXCEPT ![w] = [doc |-> d, rev |-> job[d].rev, code |-> "none"]]
<1>1. ASSUME NEW e \in Docs
      PROVE  [doc[e] EXCEPT !.status = "FAILED"] = [status |-> "FAILED", rev |-> doc[e].rev]
  <2>1. doc[e] = [status |-> doc[e].status, rev |-> doc[e].rev]
    BY DEF TypeOK, DocTypes
  <2> QED BY <2>1
<1>2. doc' = [e \in Docs |-> IF e \in Condemns(w)
                             THEN [status |-> "FAILED", rev |-> doc[e].rev] ELSE doc[e]]
  BY <1>1 DEF CommitClaim
<1>3. /\ doc' \in [Docs -> DocTypes]
      /\ \A e \in Docs :
            /\ doc'[e].rev = doc[e].rev
            /\ doc'[e].status = IF e \in Condemns(w) THEN "FAILED" ELSE doc[e].status
  BY <1>2 DEF TypeOK, DocTypes, Visible
<1>4. \A e \in Docs : job[e] \in JobTypes
  BY DEF TypeOK
<1>5. /\ Failing(w) \in [Docs -> JobTypes]
      /\ \A e \in Docs :
            /\ Failing(w)[e].attempts = job[e].attempts
            /\ Failing(w)[e].status = IF e \in Exhausted(w) THEN "FAILED" ELSE job[e].status
  BY <1>4 DEF Failing, JobTypes
<1>6. ASSUME NEW j \in JobTypes, j.attempts < MaxAttempts
      PROVE  Leased(j, w) \in JobTypes /\ Leased(j, w).status = "PROCESSING"
  <2>1. j.attempts + 1 \in 0..MaxAttempts
    BY <1>6 DEF JobTypes
  <2> QED
    BY <2>1, LeasedRow DEF JobTypes, JobRow
<1>7. CASE /\ job' = Failing(w)
           /\ scan' = ScansAfterLeasing(w, {})
           /\ Goes(w, "idle")
           /\ UNCHANGED <<lease, held>>
  BY <1>3, <1>5, <1>7 DEF Goes, TypeOK
<1>8. ASSUME NEW d \in Candidates(w),
             job' = [Failing(w) EXCEPT ![d] = Leased(@, w)],
             lease' = [lease EXCEPT ![d] = "valid"],
             held' = [held EXCEPT ![w] = [doc |-> d, rev |-> job[d].rev, code |-> "none"]],
             scan' = ScansAfterLeasing(w, {d}),
             Goes(w, "claimed")
      PROVE  /\ job' \in [Docs -> JobTypes] /\ held' \in [Workers -> HeldTypes]
             /\ job'[d].status = "PROCESSING"
             /\ \A e \in Docs \ {d} : job'[e] = Failing(w)[e]
  <2>1. d \in Docs /\ job[d].attempts < MaxAttempts
    BY DEF Candidates
  <2>2. Leased(Failing(w)[d], w) \in JobTypes /\ Leased(Failing(w)[d], w).status = "PROCESSING"
    BY <2>1, <1>5, <1>6
  <2>3. [doc |-> d, rev |-> job[d].rev, code |-> "none"] \in HeldTypes
    BY <2>1, <1>4 DEF HeldTypes, JobTypes
  <2> QED
    BY <2>1, <2>2, <2>3, <1>5, <1>8 DEF TypeOK
<1>9. CASE \E d \in Candidates(w) :
              /\ job' = [Failing(w) EXCEPT ![d] = Leased(@, w)]
              /\ lease' = [lease EXCEPT ![d] = "valid"]
              /\ held' = [held EXCEPT ![w] = [doc |-> d, rev |-> job[d].rev, code |-> "none"]]
              /\ scan' = ScansAfterLeasing(w, {d})
              /\ Goes(w, "claimed")
  <2>1. PICK d \in Candidates(w) :
              /\ job' = [Failing(w) EXCEPT ![d] = Leased(@, w)]
              /\ lease' = [lease EXCEPT ![d] = "valid"]
              /\ held' = [held EXCEPT ![w] = [doc |-> d, rev |-> job[d].rev, code |-> "none"]]
              /\ scan' = ScansAfterLeasing(w, {d})
              /\ Goes(w, "claimed")
    BY <1>9
  <2>2. /\ job' \in [Docs -> JobTypes] /\ held' \in [Workers -> HeldTypes]
        /\ job'[d].status = "PROCESSING"
        /\ \A e \in Docs \ {d} : job'[e] = Failing(w)[e]
    BY <2>1, <1>8
  <2> QED
    BY <2>1, <2>2, <1>3, <1>5 DEF Goes
<1> QED
  BY <1>7, <1>9 DEF CommitClaim

\* Taking a document in hand changes nothing else in hand.
LEMMA TakeEffect ==
  ASSUME TypeOK, NEW w \in Workers, NEW d \in Docs, held' = [held EXCEPT ![w].doc = d]
  PROVE  /\ held' \in [Workers -> HeldTypes]
         /\ \A v \in Workers :
               held'[v] = IF v = w THEN [doc |-> d, rev |-> held[w].rev, code |-> held[w].code]
                                   ELSE held[v]
<1>1. held[w] = [doc |-> held[w].doc, rev |-> held[w].rev, code |-> held[w].code]
  BY DEF TypeOK, HeldTypes
<1>2. [held[w] EXCEPT !.doc = d] = [doc |-> d, rev |-> held[w].rev, code |-> held[w].code]
  BY <1>1
<1>3. held' = [held EXCEPT ![w] = [doc |-> d, rev |-> held[w].rev, code |-> held[w].code]]
  BY <1>2
<1> QED
  BY <1>3 DEF TypeOK, HeldTypes

\* Classifying a failure changes the code and nothing else in hand.
LEMMA CodeEffect ==
  ASSUME TypeOK, NEW w \in Workers, NEW code \in {"passing", "lasting"},
         held' = [held EXCEPT ![w].code = code]
  PROVE  /\ held' \in [Workers -> HeldTypes]
         /\ \A v \in Workers :
               held'[v] = IF v = w THEN [doc |-> held[w].doc, rev |-> held[w].rev, code |-> code]
                                   ELSE held[v]
<1>1. held[w] = [doc |-> held[w].doc, rev |-> held[w].rev, code |-> held[w].code]
  BY DEF TypeOK, HeldTypes
<1>2. [held[w] EXCEPT !.code = code] = [doc |-> held[w].doc, rev |-> held[w].rev, code |-> code]
  BY <1>1
<1>3. held' = [held EXCEPT ![w] = [doc |-> held[w].doc, rev |-> held[w].rev, code |-> code]]
  BY <1>2
<1> QED
  BY <1>3 DEF TypeOK, HeldTypes

\* Giving up leaves the other workers where they are.
LEMMA GiveUpEffect ==
  ASSUME TypeOK, NEW w \in Workers, GiveUp(w)
  PROVE  /\ held' \in [Workers -> HeldTypes]
         /\ stage' \in [Workers -> Stages]
         /\ fresh' \in [Workers -> BOOLEAN]
         /\ stage'[w] = "idle" /\ held'[w] = Nothing
         /\ \A v \in Workers \ {w} : stage'[v] = stage[v] /\ held'[v] = held[v]
<1>1. Nothing \in HeldTypes
  BY DEF Nothing, HeldTypes
<1> QED
  BY <1>1 DEF TypeOK, GiveUp, Goes, Stages

\* Rows of jobs: new, come due, finished.
LEMMA JobValues ==
  /\ NoJob \in JobTypes
  /\ \A rev \in 0..MaxRevision : NewJob(rev) \in JobTypes
  BY DEF NoJob, NewJob, JobTypes

\* Coming due changes neither the state nor the attempts of a job.
LEMMA DueEffect ==
  ASSUME TypeOK, NEW d \in Docs, ComeDue(d)
  PROVE  /\ job' \in [Docs -> JobTypes]
         /\ \A e \in Docs : job'[e].status = job[e].status /\ job'[e].attempts = job[e].attempts
<1>1. job[d] \in JobTypes
  BY DEF TypeOK
<1>2. job' = [job EXCEPT ![d] = [job[d] EXCEPT !.due = TRUE]]
  BY Zenon DEF ComeDue
<1>3. job' = [job EXCEPT ![d] = JobRow(job[d].status, job[d].rev, job[d].attempts,
                                       job[d].owner, TRUE)]
  BY <1>1, <1>2, DueRow, Zenon
<1> QED
  BY <1>1, <1>3 DEF TypeOK, JobTypes, JobRow

\* A publication ends the job if it is still leased to w.
LEMMA PublishEffect ==
  ASSUME TypeOK, NEW w \in Workers, CommitPublish(w), held[w].doc \in Docs
  PROVE  /\ job' \in [Docs -> JobTypes]
         /\ lease' \in [Docs -> {"none", "valid", "expired"}]
         /\ \A e \in Docs :
               /\ job'[e].attempts = job[e].attempts
               /\ lease'[e] \in {lease[e], "none"}
               /\ e # held[w].doc => job'[e].status = job[e].status
<1> DEFINE d == held[w].doc
           after == JobRow("DONE", job[d].rev, job[d].attempts, None, job[d].due)
<1>1. job[d] \in JobTypes
  BY DEF TypeOK
<1>2. CASE Owns(w)
  <2>1. /\ job' = [job EXCEPT ![d].status = "DONE", ![d].owner = None]
        /\ lease' = [lease EXCEPT ![d] = "none"]
    BY <1>2, Zenon DEF CommitPublish
  <2>2. job' = [job EXCEPT ![d] = [job[d] EXCEPT !.status = "DONE", !.owner = None]]
    BY <2>1 DEF TypeOK
  <2>3. job' = [job EXCEPT ![d] = after]
    BY <1>1, <2>2, EndedRow, Zenon
  <2> QED
    BY <1>1, <2>1, <2>3 DEF TypeOK, JobTypes, JobRow
<1>3. CASE ~Owns(w)
  BY <1>3 DEF CommitPublish, TypeOK
<1> QED
  BY <1>2, <1>3

\* A failure puts document and job in the same state, or is rolled back.
LEMMA FailEffect ==
  ASSUME TypeOK, NEW w \in Workers, CommitFail(w), held[w].doc \in Docs
  PROVE  /\ doc' \in [Docs -> DocTypes]
         /\ job' \in [Docs -> JobTypes]
         /\ lease' \in [Docs -> {"none", "valid", "expired"}]
         /\ \A e \in Docs :
               /\ job'[e].attempts = job[e].attempts
               /\ lease'[e] \in {lease[e], "none"}
               /\ doc'[e].rev = doc[e].rev
               /\ \/ doc'[e] = doc[e] /\ job'[e].status = job[e].status
                  \/ /\ e = held[w].doc
                     /\ doc'[e].status = job'[e].status
                     /\ doc'[e].status \in {"PENDING", "FAILED"}
<1> DEFINE d == held[w].doc
           again == held[w].code = "passing" /\ job[d].attempts < MaxAttempts
           status == IF again THEN "PENDING" ELSE "FAILED"
           after == JobRow(status, job[d].rev, job[d].attempts, None, FALSE)
<1>1. job[d] \in JobTypes /\ status \in {"PENDING", "FAILED"}
  BY DEF TypeOK
<1>2. CASE Owns(w)
  <2>1. /\ job' = [job EXCEPT ![d] =
                      [job[d] EXCEPT !.status = status, !.owner = None, !.due = FALSE]]
        /\ lease' = [lease EXCEPT ![d] = "none"]
        /\ Becomes(d, status)
    BY <1>2, Zenon DEF CommitFail
  <2> HIDE DEF status
  <2>0. [job[d] EXCEPT !.status = status, !.owner = None, !.due = FALSE] = after
    BY <1>1, EndedRow, Zenon
  <2>2. job' = [job EXCEPT ![d] = after]
    BY <2>0, <2>1, Zenon
  <2>3. after \in JobTypes
    BY <1>1 DEF JobTypes, JobRow
  <2>4. /\ doc' \in [Docs -> DocTypes]
        /\ doc'[d].status = status /\ doc'[d].rev = doc[d].rev
        /\ \A e \in Docs \ {d} : doc'[e] = doc[e]
    BY <2>1, <1>1, BecomesEffect DEF Visible
  <2>5. /\ job' \in [Docs -> JobTypes]
        /\ \A e \in Docs : job'[e] = IF e = d THEN after ELSE job[e]
    BY <2>2, <2>3 DEF TypeOK
  <2>6. /\ lease' \in [Docs -> {"none", "valid", "expired"}]
        /\ \A e \in Docs : lease'[e] \in {lease[e], "none"}
    BY <2>1 DEF TypeOK
  <2>7. after.status = status /\ after.attempts = job[d].attempts
    BY DEF JobRow
  <2> HIDE DEF after
  <2>8. \A e \in Docs : doc'[e].rev = doc[e].rev
    BY <2>4
  <2>9. \A e \in Docs : e # d => doc'[e] = doc[e] /\ job'[e] = job[e]
    BY <2>4, <2>5
  <2>10. doc'[d].status = status /\ job'[d].status = status /\ job'[d].attempts = job[d].attempts
    BY <2>4, <2>5, <2>7
  <2> QED
    BY <1>1, <2>4, <2>5, <2>6, <2>8, <2>9, <2>10
<1>3. CASE ~Owns(w)
  BY <1>3 DEF CommitFail, TypeOK
<1> QED
  BY <1>2, <1>3

-------------------------------------------------------------------------------
(* Types.                                                                   *)

\* The initial state has the right types.
LEMMA TypeInit == Init => TypeOK
<1>1. [status |-> "absent", rev |-> 0] \in DocTypes
  BY DEF DocTypes, NoRow
<1>2. Nothing \in HeldTypes /\ NoScan \in ScanTypes
  BY DEF Nothing, HeldTypes, NoScan, ScanTypes
<1> QED
  BY <1>1, <1>2, JobValues DEF Init, TypeOK, Stages

\* A claim leaves scans behind.
LEMMA ScansType ==
  ASSUME TypeOK, NEW w \in Workers, NEW leased
  PROVE  ScansAfterLeasing(w, leased) \in [Workers -> ScanTypes]
<1>1. ASSUME NEW v \in Workers
      PROVE  /\ [scan[v] EXCEPT !.lapsed = scan[v].lapsed \ leased]
                   = [lapsed |-> scan[v].lapsed \ leased, exhausted |-> scan[v].exhausted]
             /\ [scan[v] EXCEPT !.lapsed = scan[v].lapsed \ leased] \in ScanTypes
  <2>1. scan[v] \in ScanTypes
    BY DEF TypeOK
  <2> QED
    BY <2>1 DEF ScanTypes
<1>2. NoScan \in ScanTypes
  BY DEF NoScan, ScanTypes
<1> QED
  BY <1>1, <1>2 DEF ScansAfterLeasing

\* Every step keeps the types.
LEMMA TypeStep ==
  ASSUME TypeOK, HandInv, LockInv, [Next]_vars
  PROVE  TypeOK'
<1>a. \A w \in Workers : stage[w] \in Working \union {"erased"} => held[w].doc \in Docs
  BY DEF HandInv
<1>b. \A d \in Docs : lock[d] = Owner => doc[d].rev < MaxRevision
  BY DEF LockInv
<1>1. ASSUME NEW d \in Docs, StoreFile(d) PROVE TypeOK'
  BY <1>1, BecomesEffect DEF TypeOK, StoreFile, worker, NoRow
<1>2. ASSUME NEW d \in Docs, Insert(d) PROVE TypeOK'
  BY <1>2, JobValues DEF TypeOK, Insert, worker, DocTypes, Visible
<1>3. ASSUME NEW d \in Docs, RejectUpload(d) PROVE TypeOK'
  BY <1>3, BecomesEffect DEF TypeOK, RejectUpload, worker, NoRow
<1>4. ASSUME NEW d \in Docs, CrashUpload(d) PROVE TypeOK'
  <2>1. doc' \in [Docs -> DocTypes]
    BY <1>4, BecomesEffect DEF CrashUpload, NoRow
  <2> QED
    BY <1>4, <2>1 DEF TypeOK, CrashUpload, worker
<1>5. ASSUME NEW d \in Docs, BeginReindex(d) PROVE TypeOK'
  BY <1>5 DEF TypeOK, BeginReindex, records, worker
<1>6. ASSUME NEW d \in Docs, CommitReindex(d) PROVE TypeOK'
  <2>1. doc[d].rev + 1 \in 0..MaxRevision
    BY <1>6, <1>b DEF CommitReindex, TypeOK, DocTypes
  <2>2. /\ [status |-> "PENDING", rev |-> doc[d].rev + 1] \in DocTypes
        /\ NewJob(doc[d].rev + 1) \in JobTypes
    BY <2>1, JobValues DEF DocTypes, Visible
  <2> QED
    BY <1>6, <2>2 DEF TypeOK, CommitReindex, worker
<1>7. ASSUME NEW d \in Docs, AbortReindex(d) PROVE TypeOK'
  BY <1>7 DEF TypeOK, AbortReindex, records, worker
<1>8. ASSUME NEW d \in Docs, Tombstone(d) PROVE TypeOK'
  BY <1>8, BecomesEffect DEF TypeOK, Tombstone, worker
<1>9. ASSUME NEW d \in Docs, Expire(d) PROVE TypeOK'
  BY <1>9 DEF TypeOK, Expire, worker
<1>10. ASSUME NEW d \in Docs, ComeDue(d) PROVE TypeOK'
  BY <1>10, DueEffect DEF TypeOK, ComeDue, worker
<1>11. ASSUME NEW d \in Docs, Age(d) PROVE TypeOK'
  BY <1>11 DEF TypeOK, Age, records, worker
<1>12. ASSUME NEW w \in Workers, BeginCleanup(w) PROVE TypeOK'
  BY <1>12 DEF TypeOK, BeginCleanup, Goes, Deleting, records, Stages
<1>13. ASSUME NEW w \in Workers, EraseFile(w) PROVE TypeOK'
  BY <1>13, TakeEffect DEF TypeOK, EraseFile, Goes, records, Stages
<1>14. ASSUME NEW w \in Workers, RemoveRow(w) PROVE TypeOK'
  <2>1. held[w].doc \in Docs
    BY <1>14, <1>a DEF RemoveRow, Working
  <2>2. doc' \in [Docs -> DocTypes]
    BY <1>14, <2>1, BecomesEffect DEF RemoveRow, NoRow, TypeOK
  <2>3. Nothing \in HeldTypes
    BY DEF Nothing, HeldTypes
  <2>4. /\ stage' \in [Workers -> Stages] /\ condemned' \in [Workers -> SUBSET Docs]
        /\ job' \in [Docs -> JobTypes] /\ chunks' \in [Docs -> 0..MaxRevision]
        /\ lease' \in [Docs -> {"none", "valid", "expired"}]
        /\ held' \in [Workers -> HeldTypes]
    BY <1>14, <2>1, <2>3, JobValues DEF TypeOK, RemoveRow, NextCondemned, Goes, Stages
  <2> QED
    BY <1>14, <2>1, <2>2, <2>3, <2>4 DEF RemoveRow, TypeOK
<1>15. ASSUME NEW w \in Workers, BeginClaim(w) PROVE TypeOK'
  BY <1>15 DEF TypeOK, BeginClaim, Goes, records, Stages, ScanTypes
<1>16. ASSUME NEW w \in Workers, CommitClaim(w) PROVE TypeOK'
  <2>1. /\ doc' \in [Docs -> DocTypes] /\ job' \in [Docs -> JobTypes]
        /\ held' \in [Workers -> HeldTypes]
    BY <1>16, ClaimEffect
  <2>2. \A leased : ScansAfterLeasing(w, leased) \in [Workers -> ScanTypes]
    BY ScansType
  <2>3. stage' \in [Workers -> Stages]
    BY <1>16, ClaimEffect DEF TypeOK, Stages
  <2>5. \E leased : scan' = ScansAfterLeasing(w, leased)
    BY <1>16, Zenon DEF CommitClaim
  <2>4. lease' \in [Docs -> {"none", "valid", "expired"}]
    BY <1>16, ClaimEffect DEF TypeOK
  <2>6. scan' \in [Workers -> ScanTypes]
    BY <2>2, <2>5
  <2> QED
    BY <1>16, <2>1, <2>3, <2>4, <2>6 DEF TypeOK, CommitClaim
<1>17. ASSUME NEW w \in Workers, MarkProcessing(w) PROVE TypeOK'
  <2>1. held[w].doc \in Docs
    BY <1>17, <1>a DEF MarkProcessing, Working
  <2>2. doc' \in [Docs -> DocTypes]
    BY <1>17, <2>1, BecomesEffect DEF MarkProcessing, Visible, TypeOK
  <2> QED
    BY <1>17, <2>2, GiveUpEffect DEF TypeOK, MarkProcessing, Goes, Stages
<1>18. ASSUME NEW w \in Workers, Renew(w) PROVE TypeOK'
  BY <1>18, GiveUpEffect DEF TypeOK, Renew, Goes, records, Stages
<1>19. ASSUME NEW w \in Workers, BeginPublish(w) PROVE TypeOK'
  BY <1>19 DEF TypeOK, BeginPublish, InTime, Goes, records, Stages
<1>20. ASSUME NEW w \in Workers, LockToPublish(w) PROVE TypeOK'
  BY <1>20, GiveUpEffect DEF TypeOK, LockToPublish, Goes, records, Stages
<1>21. ASSUME NEW w \in Workers, CommitPublish(w) PROVE TypeOK'
  <2>1. held[w].doc \in Docs /\ held[w].rev \in 0..MaxRevision
    BY <1>21, <1>a DEF CommitPublish, TypeOK, HeldTypes, Working
  <2>2. doc' \in [Docs -> DocTypes]
    BY <1>21, <2>1, BecomesEffect DEF CommitPublish, Visible
  <2>3. /\ job' \in [Docs -> JobTypes] /\ lease' \in [Docs -> {"none", "valid", "expired"}]
    BY <1>21, <2>1, PublishEffect
  <2>4. /\ held' \in [Workers -> HeldTypes] /\ stage' \in [Workers -> Stages]
        /\ fresh' \in [Workers -> BOOLEAN]
    BY <1>21, GiveUpEffect DEF CommitPublish
  <2>5. /\ chunks' \in [Docs -> 0..MaxRevision]
        /\ lock' \in [Docs -> Workers \union {Owner, None}]
    BY <1>21, <2>1 DEF TypeOK, CommitPublish, Release
  <2> QED
    BY <1>21, <2>2, <2>3, <2>4, <2>5 DEF TypeOK, CommitPublish
<1>22. ASSUME NEW w \in Workers, NEW code \in {"passing", "lasting"}, BeginFail(w, code)
      PROVE  TypeOK'
  BY <1>22, CodeEffect DEF TypeOK, BeginFail, InTime, Goes, Release, records, Stages
<1>23. ASSUME NEW w \in Workers, LockToFail(w) PROVE TypeOK'
  BY <1>23, GiveUpEffect DEF TypeOK, LockToFail, Goes, records, Stages
<1>24. ASSUME NEW w \in Workers, CommitFail(w) PROVE TypeOK'
  <2>1. held[w].doc \in Docs
    BY <1>24, <1>a DEF CommitFail, Working
  <2>2. /\ doc' \in [Docs -> DocTypes] /\ job' \in [Docs -> JobTypes]
        /\ lease' \in [Docs -> {"none", "valid", "expired"}]
    BY <1>24, <2>1, FailEffect
  <2> QED
    BY <1>24, <2>2, GiveUpEffect DEF TypeOK, CommitFail, Release
<1>25. ASSUME NEW w \in Workers, Crash(w) PROVE TypeOK'
  BY <1>25, GiveUpEffect DEF TypeOK, Crash, Release, records, NoScan, ScanTypes
<1>26. ASSUME BeginSweep PROVE TypeOK'
  BY <1>26 DEF TypeOK, BeginSweep, records, worker
<1>27. ASSUME CommitSweep PROVE TypeOK'
  BY <1>27 DEF TypeOK, CommitSweep, records, worker
<1>28. ASSUME Suspend PROVE TypeOK'
  BY <1>28 DEF TypeOK, Suspend, records, worker
<1>29. ASSUME UNCHANGED vars PROVE TypeOK'
  BY <1>29 DEF TypeOK, vars, records, worker
<1> QED
  BY <1>1, <1>2, <1>3, <1>4, <1>5, <1>6, <1>7, <1>8, <1>9, <1>10, <1>11, <1>12, <1>13, <1>14,
     <1>15, <1>16, <1>17, <1>18, <1>19, <1>20, <1>21, <1>22, <1>23, <1>24, <1>25, <1>26, <1>27,
     <1>28, <1>29
  DEF Next, Use, Time, RunOnce

-------------------------------------------------------------------------------
(* The life of a document.                                                  *)

\* What a step may do to a document, and who may do it.
Stores(d)    == doc[d].status = "absent" /\ doc'[d].status = "uploading" /\ file'[d] = "new"
Abandons(d)  == doc[d].status = "uploading" /\ doc'[d].status = "abandoned"
Inserts(d)   == doc[d].status = "uploading" /\ doc'[d].status = "PENDING"
Reindexes(d) == lock[d] = Owner /\ lock'[d] = None /\ doc'[d].status = "PENDING"
Finishes(d)  == lock[d] \in Workers /\ doc'[d].status \in {"READY", "PENDING", "FAILED"}
Moves(d)     == /\ lock[d] = None /\ doc[d].status \in Visible
                /\ doc'[d].status \in {"DELETING", "FAILED", "PROCESSING"}
Removes(d)   == /\ lock[d] = None /\ doc[d].status = "DELETING" /\ doc'[d].status = "removed"
                /\ file[d] = "deleted" /\ file'[d] = "deleted"

DocStep(d) ==
    \/ doc'[d] = doc[d] \/ Stores(d) \/ Abandons(d) \/ Inserts(d) \/ Reindexes(d)
    \/ doc'[d].rev = doc[d].rev /\ (Finishes(d) \/ Moves(d) \/ Removes(d))

\* Every step is one of these for every document.
LEMMA DocumentStep ==
  ASSUME TypeOK, HandInv, LockInv, [Next]_vars
  PROVE  \A e \in Docs : DocStep(e)
<1>a. \A w \in Workers : stage[w] \in Working \union {"erased"} => held[w].doc \in Docs
  BY DEF HandInv
<1>b. \A w \in Workers : stage[w] \in {"replacing", "recording"} => lock[held[w].doc] = w
  BY <1>a DEF LockInv, Working
<1>1. ASSUME NEW d \in Docs, BeginReindex(d) \/ AbortReindex(d) \/ Age(d)
      PROVE  \A e \in Docs : DocStep(e)
  BY <1>1 DEF BeginReindex, AbortReindex, Age, records, DocStep
<1>2. ASSUME NEW w \in Workers, BeginCleanup(w) \/ EraseFile(w) \/ BeginClaim(w) \/ Renew(w) \/
             BeginPublish(w) \/ LockToPublish(w) \/ LockToFail(w) \/ Crash(w) \/
             \E code \in {"passing", "lasting"} : BeginFail(w, code)
      PROVE  \A e \in Docs : DocStep(e)
  BY <1>2 DEF BeginCleanup, EraseFile, BeginClaim, Renew, BeginPublish, LockToPublish,
     BeginFail, LockToFail, Crash, records, DocStep
<1>3. ASSUME BeginSweep \/ CommitSweep \/ Suspend \/ UNCHANGED vars
      PROVE  \A e \in Docs : DocStep(e)
  BY <1>3 DEF BeginSweep, CommitSweep, Suspend, vars, records, DocStep
<1>4. ASSUME NEW d \in Docs, StoreFile(d) PROVE \A e \in Docs : DocStep(e)
  BY <1>4, BecomesEffect DEF StoreFile, DocStep, Stores, NoRow, TypeOK
<1>5. ASSUME NEW d \in Docs, Insert(d) PROVE \A e \in Docs : DocStep(e)
  BY <1>5 DEF Insert, DocStep, Inserts, TypeOK
<1>6. ASSUME NEW d \in Docs, RejectUpload(d) PROVE \A e \in Docs : DocStep(e)
  BY <1>6, BecomesEffect DEF RejectUpload, DocStep, Abandons, NoRow
<1>7. ASSUME NEW d \in Docs, CrashUpload(d) PROVE \A e \in Docs : DocStep(e)
  BY <1>7, BecomesEffect DEF CrashUpload, DocStep, Abandons, NoRow
<1>8. ASSUME NEW d \in Docs, CommitReindex(d) PROVE \A e \in Docs : DocStep(e)
  BY <1>8 DEF CommitReindex, DocStep, Reindexes, TypeOK
<1>9. ASSUME NEW d \in Docs, Tombstone(d) PROVE \A e \in Docs : DocStep(e)
  BY <1>9, BecomesEffect DEF Tombstone, DocStep, Moves, Unlocked
<1>10. ASSUME NEW d \in Docs, Expire(d) PROVE \A e \in Docs : DocStep(e)
  BY <1>10 DEF Expire, DocStep
<1>11. ASSUME NEW d \in Docs, ComeDue(d) PROVE \A e \in Docs : DocStep(e)
  BY <1>11 DEF ComeDue, DocStep
<1>12. ASSUME NEW w \in Workers, RemoveRow(w) PROVE \A e \in Docs : DocStep(e)
  <2>1. held[w].doc \in Docs /\ file[held[w].doc] = "deleted"
    BY <1>12 DEF RemoveRow, Working, HandInv
  <2> QED
    BY <1>12, <2>1, BecomesEffect DEF RemoveRow, DocStep, Removes, Unlocked, NoRow
<1>13. ASSUME NEW w \in Workers, CommitClaim(w) PROVE \A e \in Docs : DocStep(e)
  BY <1>13, ClaimEffect DEF CommitClaim, DocStep, Moves, Condemns, Unlocked
<1>14. ASSUME NEW w \in Workers, MarkProcessing(w) PROVE \A e \in Docs : DocStep(e)
  <2>1. held[w].doc \in Docs
    BY <1>14, <1>a DEF MarkProcessing, Working
  <2> QED
    BY <1>14, <2>1, BecomesEffect DEF MarkProcessing, Fenced, DocStep, Moves, Unlocked, Visible
<1>15. ASSUME NEW w \in Workers, CommitPublish(w) PROVE \A e \in Docs : DocStep(e)
  <2>1. held[w].doc \in Docs
    BY <1>15, <1>a DEF CommitPublish, Working
  <2> QED
    BY <1>15, <2>1, <1>b, BecomesEffect DEF CommitPublish, DocStep, Finishes, Visible
<1>16. ASSUME NEW w \in Workers, CommitFail(w) PROVE \A e \in Docs : DocStep(e)
  <2>1. held[w].doc \in Docs /\ lock[held[w].doc] = w
    BY <1>16, <1>a, <1>b DEF CommitFail, Working
  <2>2. \A e \in Docs :
           /\ doc'[e].rev = doc[e].rev
           /\ \/ doc'[e] = doc[e]
              \/ e = held[w].doc /\ doc'[e].status \in {"PENDING", "FAILED"}
    BY <1>16, <2>1, FailEffect
  <2> QED
    BY <2>1, <2>2 DEF DocStep, Finishes
<1> QED
  BY <1>1, <1>2, <1>3, <1>4, <1>5, <1>6, <1>7, <1>8, <1>9, <1>10, <1>11, <1>12, <1>13, <1>14,
     <1>15, <1>16
  DEF Next, Use, Time, RunOnce

\* The owner locks a row that has a revision left, and unlocks its own.
OwnerLock(d) ==
    \/ lock'[d] = lock[d]
    \/ /\ lock[d] = None /\ lock'[d] = Owner /\ doc'[d] = doc[d]
       /\ doc[d].status \in Visible /\ doc[d].rev < MaxRevision
    \/ lock[d] = Owner /\ lock'[d] = None

\* A step is one of a worker or leaves the workers alone.
LEMMA StepKinds ==
  ASSUME TypeOK, [Next]_vars
  PROVE  \/ UNCHANGED worker /\ \A e \in Docs : OwnerLock(e)
         \/ \E w \in Workers : RunOnce(w) \/ Crash(w)
<1>1. ASSUME NEW d \in Docs, Use(d) PROVE UNCHANGED worker
  BY <1>1, Zenon DEF Use, StoreFile, Insert, RejectUpload, CrashUpload, BeginReindex,
     CommitReindex, AbortReindex, Tombstone
<1>2. ASSUME NEW d \in Docs, BeginReindex(d) \/ CommitReindex(d) \/ AbortReindex(d)
      PROVE  \A e \in Docs : OwnerLock(e)
  BY <1>2 DEF BeginReindex, CommitReindex, AbortReindex, OwnerLock, Unlocked, TypeOK, records
<1>3. ASSUME NEW d \in Docs, Use(d) PROVE \A e \in Docs : OwnerLock(e)
  BY <1>2, <1>3 DEF Use, StoreFile, Insert, RejectUpload, CrashUpload, Tombstone, OwnerLock
<1>4. ASSUME NEW d \in Docs, Time(d) PROVE UNCHANGED <<worker, lock>>
  BY <1>4, Zenon DEF Time, Expire, ComeDue, Age
<1>5. CASE BeginSweep \/ CommitSweep \/ Suspend \/ UNCHANGED vars
  BY <1>5, Zenon DEF BeginSweep, CommitSweep, Suspend, vars, OwnerLock
<1>6. ASSUME NEW d \in Docs, Time(d) PROVE \A e \in Docs : OwnerLock(e)
  BY <1>4, <1>6 DEF OwnerLock
<1> QED
  BY <1>1, <1>3, <1>4, <1>5, <1>6, Zenon DEF Next

\* A file is created before its document and never after; it ages and goes: with its
\* document, or because a sweep knows of none.
FileStep(d) ==
    \/ file'[d] = file[d]
    \/ doc[d].status = "absent" /\ file'[d] = "new"
    \/ /\ file[d] = "new" /\ file'[d] = "old" /\ doc[d].status # "uploading"
       /\ referenced = None /\ UNCHANGED referenced
    \/ file'[d] = "deleted" /\ doc'[d].status \in {"abandoned", "DELETING", "removed"}
    \/ /\ file'[d] = "deleted" /\ file[d] = "old" /\ doc'[d] = doc[d]
       /\ referenced # None /\ d \notin referenced

SweepStep ==
    \/ referenced' \in {referenced, None}
    \/ /\ referenced' = {d \in Docs : doc[d].status \notin NoRow}
       /\ UNCHANGED <<doc, file>>

\* Every step is one of these for every file, and for the sweep.
LEMMA FilesStep ==
  ASSUME TypeOK, HandInv, [Next]_vars
  PROVE  SweepStep /\ \A e \in Docs : FileStep(e)
<1>1. ASSUME NEW d \in Docs, StoreFile(d) \/ Insert(d) \/ CrashUpload(d) \/ BeginReindex(d) \/
             CommitReindex(d) \/ AbortReindex(d) \/ Tombstone(d) \/ Expire(d) \/ ComeDue(d) \/
             Age(d)
      PROVE  SweepStep /\ \A e \in Docs : FileStep(e)
  BY <1>1 DEF StoreFile, Insert, CrashUpload, BeginReindex, CommitReindex, AbortReindex,
     Tombstone, Expire, ComeDue, Age, FileStep, SweepStep, TypeOK, records
<1>2. ASSUME NEW w \in Workers, BeginCleanup(w) \/ RemoveRow(w) \/ BeginClaim(w) \/
             CommitClaim(w) \/ MarkProcessing(w) \/ Renew(w) \/ BeginPublish(w) \/
             LockToPublish(w) \/ CommitPublish(w) \/ LockToFail(w) \/ CommitFail(w) \/
             Crash(w) \/ \E code \in {"passing", "lasting"} : BeginFail(w, code)
      PROVE  SweepStep /\ \A e \in Docs : FileStep(e)
  BY <1>2 DEF BeginCleanup, RemoveRow, BeginClaim, CommitClaim, MarkProcessing, Renew,
     BeginPublish, LockToPublish, CommitPublish, BeginFail, LockToFail, CommitFail, Crash,
     FileStep, SweepStep, TypeOK, records
<1>3. ASSUME BeginSweep \/ Suspend
      PROVE  SweepStep /\ \A e \in Docs : FileStep(e)
  BY <1>3 DEF BeginSweep, Suspend, FileStep, SweepStep, TypeOK, records
<1>4. ASSUME NEW d \in Docs, RejectUpload(d) PROVE SweepStep /\ \A e \in Docs : FileStep(e)
  BY <1>4, BecomesEffect DEF RejectUpload, FileStep, SweepStep, TypeOK, NoRow
<1>5. ASSUME NEW w \in Workers, EraseFile(w) PROVE SweepStep /\ \A e \in Docs : FileStep(e)
  BY <1>5 DEF EraseFile, FileStep, SweepStep, TypeOK, HandInv, records
<1>6. ASSUME CommitSweep PROVE SweepStep /\ \A e \in Docs : FileStep(e)
  BY <1>6 DEF CommitSweep, Sweepable, FileStep, SweepStep, TypeOK, records
<1>7. ASSUME UNCHANGED vars PROVE SweepStep /\ \A e \in Docs : FileStep(e)
  BY <1>7 DEF vars, FileStep, SweepStep, records
<1> QED
  BY <1>1, <1>2, <1>3, <1>4, <1>5, <1>6, <1>7
  DEF Next, Use, Time, RunOnce

-------------------------------------------------------------------------------
(* The parts of the invariant, one by one.                                  *)

\* What workers have in hand stays a document, and condemned ones stay deleted.
LEMMA HandStep ==
  ASSUME TypeOK, TypeOK', HandInv, LockInv, [Next]_vars
  PROVE  HandInv'
<1>a. \A e \in Docs : DocStep(e) /\ FileStep(e)
  BY DocumentStep, FilesStep
<1>b. \A e \in Docs : doc[e].status \in {"DELETING", "removed"} =>
                         doc'[e].status \in {"DELETING", "removed"}
  <2> SUFFICES ASSUME NEW e \in Docs, doc[e].status \in {"DELETING", "removed"}
               PROVE  doc'[e].status \in {"DELETING", "removed"}
    OBVIOUS
  <2>1. DocStep(e) /\ lock[e] = None
    BY <1>a DEF LockInv, Visible
  <2> QED
    BY <2>1, NamesAssumption DEF DocStep, Stores, Abandons, Inserts, Reindexes, Finishes, Moves,
       Removes, Visible
<1>c. \A e \in Docs : doc[e].status \in {"DELETING", "removed"} /\ file[e] = "deleted" =>
                         file'[e] = "deleted"
  BY <1>a DEF FileStep
<1>q. CASE UNCHANGED worker
  BY <1>b, <1>c, <1>q DEF worker, HandInv, TypeOK
<1>1. ASSUME NEW w \in Workers, BeginCleanup(w) PROVE HandInv'
  BY <1>1, <1>b, <1>c DEF BeginCleanup, Goes, Deleting, HandInv, Working, TypeOK
<1>2. ASSUME NEW w \in Workers, EraseFile(w) PROVE HandInv'
  BY <1>2, <1>b, <1>c, TakeEffect DEF EraseFile, Goes, HandInv, Working, TypeOK
<1>3. ASSUME NEW w \in Workers, RemoveRow(w) PROVE HandInv'
  BY <1>3, <1>b, <1>c DEF RemoveRow, NextCondemned, Goes, Nothing, HandInv, Working, TypeOK
<1>4. ASSUME NEW w \in Workers, BeginClaim(w) PROVE HandInv'
  BY <1>4, <1>b, <1>c DEF BeginClaim, Goes, HandInv, Working, TypeOK, Stages
<1>5. ASSUME NEW w \in Workers, CommitClaim(w) PROVE HandInv'
  <2>1. CASE stage' = [stage EXCEPT ![w] = "idle"] /\ UNCHANGED <<held, condemned, file>>
    BY <2>1, <1>b DEF HandInv, Working, TypeOK
  <2>2. ASSUME NEW d \in Docs,
               stage' = [stage EXCEPT ![w] = "claimed"], UNCHANGED <<condemned, file>>,
               held' = [held EXCEPT ![w] = [doc |-> d, rev |-> job[d].rev, code |-> "none"]]
        PROVE  HandInv'
    BY <2>2, <1>b DEF HandInv, Working, TypeOK
  <2> QED
    BY <1>5, <2>1, <2>2, Zenon DEF CommitClaim, Candidates, Goes
<1>6. ASSUME NEW w \in Workers, MarkProcessing(w) PROVE HandInv'
  BY <1>6, <1>b, <1>c, GiveUpEffect DEF MarkProcessing, Goes, HandInv, Working, TypeOK
<1>7. ASSUME NEW w \in Workers, Renew(w) PROVE HandInv'
  BY <1>7, <1>b, <1>c, GiveUpEffect DEF Renew, Goes, HandInv, Working, TypeOK
<1>8. ASSUME NEW w \in Workers, BeginPublish(w) PROVE HandInv'
  BY <1>8, <1>b, <1>c DEF BeginPublish, Goes, HandInv, Working, TypeOK, Stages
<1>9. ASSUME NEW w \in Workers, LockToPublish(w) PROVE HandInv'
  BY <1>9, <1>b, <1>c, GiveUpEffect DEF LockToPublish, Goes, HandInv, Working, TypeOK
<1>10. ASSUME NEW w \in Workers, CommitPublish(w) PROVE HandInv'
  <2>1. GiveUp(w) /\ UNCHANGED <<condemned, file>>
    BY <1>10, Zenon DEF CommitPublish
  <2>2. /\ stage'[w] = "idle"
        /\ \A v \in Workers \ {w} : stage'[v] = stage[v] /\ held'[v] = held[v]
    BY <2>1, GiveUpEffect
  <2> QED
    BY <2>1, <2>2, <1>b DEF HandInv, Working, TypeOK
<1>11. ASSUME NEW w \in Workers, NEW code \in {"passing", "lasting"}, BeginFail(w, code)
      PROVE  HandInv'
  BY <1>11, <1>b, <1>c, CodeEffect DEF BeginFail, Goes, HandInv, Working, TypeOK
<1>12. ASSUME NEW w \in Workers, LockToFail(w) PROVE HandInv'
  BY <1>12, <1>b, <1>c, GiveUpEffect DEF LockToFail, Goes, HandInv, Working, TypeOK
<1>13. ASSUME NEW w \in Workers, CommitFail(w) PROVE HandInv'
  <2>1. GiveUp(w) /\ UNCHANGED <<condemned, file>>
    BY <1>13, Zenon DEF CommitFail
  <2>2. /\ stage'[w] = "idle"
        /\ \A v \in Workers \ {w} : stage'[v] = stage[v] /\ held'[v] = held[v]
    BY <2>1, GiveUpEffect
  <2> QED
    BY <2>1, <2>2, <1>b DEF HandInv, Working, TypeOK
<1>14. ASSUME NEW w \in Workers, Crash(w) PROVE HandInv'
  BY <1>14, <1>b, <1>c, GiveUpEffect DEF Crash, HandInv, Working, TypeOK
<1> QED
  BY <1>1, <1>2, <1>3, <1>4, <1>5, <1>6, <1>7, <1>8, <1>9, <1>10, <1>11, <1>12, <1>13, <1>14,
     <1>q, StepKinds DEF RunOnce

\* Locks stay with those that say so, on visible rows that nobody else changes.
LEMMA LockStep ==
  ASSUME TypeOK, TypeOK', HandInv, LockInv, [Next]_vars
  PROVE  LockInv'
<1>a. \A e \in Docs : lock[e] # None =>
         /\ doc'[e].status \in Visible
         /\ doc'[e].rev = doc[e].rev \/ (lock[e] = Owner /\ lock'[e] = None)
  <2> SUFFICES ASSUME NEW e \in Docs, lock[e] # None
               PROVE  /\ doc'[e].status \in Visible
                      /\ doc'[e].rev = doc[e].rev \/ (lock[e] = Owner /\ lock'[e] = None)
    OBVIOUS
  <2>1. DocStep(e) /\ doc[e].status \in Visible
    BY DocumentStep DEF LockInv
  <2>2. CASE Stores(e) \/ Abandons(e) \/ Inserts(e)
    BY <2>1, <2>2 DEF Stores, Abandons, Inserts, Visible
  <2>3. CASE Reindexes(e) \/ Moves(e) \/ Removes(e)
    BY <2>1, <2>3 DEF Reindexes, Moves, Removes, Visible
  <2>4. CASE doc'[e].rev = doc[e].rev /\ Finishes(e)
    BY <2>4 DEF Finishes, Visible
  <2> QED
    BY <2>1, <2>2, <2>3, <2>4 DEF DocStep
<1> DEFINE holds(v, e) == stage[v] \in {"replacing", "recording"} /\ held[v].doc = e
<1>h. \A v \in Workers, e \in Docs : lock[e] = v <=> holds(v, e)
  BY DEF LockInv
<1>v. \A e \in Docs : lock[e] # None => doc[e].status \in Visible
  BY DEF LockInv
<1>m. \A e \in Docs : lock[e] = Owner => doc[e].rev < MaxRevision
  BY DEF LockInv
<1>i. \A v \in Workers : stage[v] = "replacing" =>
         /\ held[v].doc \in Docs
         /\ lock[held[v].doc] = v
         /\ held[v].rev = doc[held[v].doc].rev
  BY DEF LockInv, HandInv, Working
<1>q. CASE UNCHANGED worker /\ \A e \in Docs : OwnerLock(e)
  <2>1. UNCHANGED <<stage, held>>
    BY <1>q DEF worker
  <2>2. \A v \in Workers, e \in Docs : lock'[e] = v <=> lock[e] = v
    BY <1>q DEF OwnerLock
  <2>3. \A v \in Workers, e \in Docs : lock'[e] = v <=> holds(v, e)'
    BY <2>1, <2>2, <1>h
  <2>4. \A e \in Docs : lock'[e] # None => doc'[e].status \in Visible
    BY <1>q, <1>a DEF OwnerLock
  <2>5. \A e \in Docs : lock'[e] = Owner => doc'[e].rev < MaxRevision
    BY <1>q, <1>a, <1>m DEF OwnerLock
  <2>6. \A v \in Workers : stage'[v] = "replacing" => held'[v].rev = doc'[held'[v].doc].rev
    BY <1>a, <1>i, <2>1
  <2> QED
    BY <2>3, <2>4, <2>5, <2>6 DEF LockInv
<1>r. ASSUME NEW w \in Workers, stage'[w] \notin {"replacing", "recording"},
             \A v \in Workers \ {w} : stage'[v] = stage[v] /\ held'[v] = held[v],
             Release(w) \/ (stage[w] \notin {"replacing", "recording"} /\ UNCHANGED lock)
      PROVE  LockInv'
  <2>1. \A e \in Docs : lock'[e] = IF lock[e] = w THEN None ELSE lock[e]
    BY <1>r, <1>h DEF Release, TypeOK
  <2>2. \A v \in Workers, e \in Docs : lock'[e] = v <=> holds(v, e)'
    BY <1>r, <1>h, <2>1
  <2>3. \A e \in Docs : lock'[e] # None => doc'[e].status \in Visible
    BY <1>a, <2>1
  <2>4. \A e \in Docs : lock'[e] = Owner => doc'[e].rev < MaxRevision
    BY <1>a, <1>m, <2>1
  <2>5. \A v \in Workers : stage'[v] = "replacing" => held'[v].rev = doc'[held'[v].doc].rev
    BY <1>a, <1>i, <1>r
  <2> QED
    BY <2>2, <2>3, <2>4, <2>5 DEF LockInv
<1>1. ASSUME NEW w \in Workers, BeginCleanup(w) PROVE LockInv'
  <2>1. /\ stage'[w] \notin {"replacing", "recording"}
        /\ \A v \in Workers \ {w} : stage'[v] = stage[v] /\ held'[v] = held[v]
    BY <1>1 DEF BeginCleanup, Goes, TypeOK
  <2>2. Release(w) \/ (stage[w] \notin {"replacing", "recording"} /\ UNCHANGED lock)
    BY <1>1, Zenon DEF BeginCleanup
  <2> QED
    BY <2>1, <2>2, <1>r
<1>2. ASSUME NEW w \in Workers, EraseFile(w) PROVE LockInv'
  <2>1. PICK d \in Docs : held' = [held EXCEPT ![w].doc = d]
    BY <1>2 DEF EraseFile, TypeOK
  <2>2. /\ stage[w] = "cleaning" /\ UNCHANGED lock
        /\ stage' = [stage EXCEPT ![w] = "erased"]
    BY <1>2, Zenon DEF EraseFile, Goes
  <2>3. /\ stage'[w] = "erased"
        /\ \A v \in Workers \ {w} : stage'[v] = stage[v] /\ held'[v] = held[v]
    BY <2>1, <2>2, TakeEffect DEF TypeOK
  <2> QED
    BY <2>2, <2>3, <1>r
<1>3. ASSUME NEW w \in Workers, RemoveRow(w) PROVE LockInv'
  <2>1. /\ stage'[w] \notin {"replacing", "recording"}
        /\ \A v \in Workers \ {w} : stage'[v] = stage[v] /\ held'[v] = held[v]
    BY <1>3 DEF RemoveRow, NextCondemned, Goes, TypeOK
  <2>2. Release(w) \/ (stage[w] \notin {"replacing", "recording"} /\ UNCHANGED lock)
    BY <1>3, Zenon DEF RemoveRow
  <2> QED
    BY <2>1, <2>2, <1>r
<1>4. ASSUME NEW w \in Workers, BeginClaim(w) PROVE LockInv'
  <2>1. /\ stage'[w] \notin {"replacing", "recording"}
        /\ \A v \in Workers \ {w} : stage'[v] = stage[v] /\ held'[v] = held[v]
    BY <1>4 DEF BeginClaim, Goes, TypeOK
  <2>2. Release(w) \/ (stage[w] \notin {"replacing", "recording"} /\ UNCHANGED lock)
    BY <1>4, Zenon DEF BeginClaim
  <2> QED
    BY <2>1, <2>2, <1>r
<1>5. ASSUME NEW w \in Workers, CommitClaim(w) PROVE LockInv'
  <2>1. /\ stage[w] = "claiming" /\ UNCHANGED lock
        /\ \/ stage' = [stage EXCEPT ![w] = "idle"] /\ UNCHANGED held
           \/ /\ stage' = [stage EXCEPT ![w] = "claimed"]
              /\ \E h : held' = [held EXCEPT ![w] = h]
    BY <1>5, Zenon DEF CommitClaim, Goes
  <2>2. /\ stage'[w] \in {"idle", "claimed"}
        /\ \A v \in Workers \ {w} : stage'[v] = stage[v] /\ held'[v] = held[v]
    BY <2>1 DEF TypeOK
  <2> QED
    BY <2>1, <2>2, <1>r
<1>6. ASSUME NEW w \in Workers, MarkProcessing(w) PROVE LockInv'
  <2>1. /\ stage'[w] \notin {"replacing", "recording"}
        /\ \A v \in Workers \ {w} : stage'[v] = stage[v] /\ held'[v] = held[v]
    BY <1>6, GiveUpEffect DEF MarkProcessing, Goes, TypeOK
  <2>2. Release(w) \/ (stage[w] \notin {"replacing", "recording"} /\ UNCHANGED lock)
    BY <1>6, Zenon DEF MarkProcessing
  <2> QED
    BY <2>1, <2>2, <1>r
<1>7. ASSUME NEW w \in Workers, Renew(w) PROVE LockInv'
  <2>1. /\ stage'[w] \notin {"replacing", "recording"}
        /\ \A v \in Workers \ {w} : stage'[v] = stage[v] /\ held'[v] = held[v]
    BY <1>7, GiveUpEffect DEF Renew, Goes, TypeOK
  <2>2. Release(w) \/ (stage[w] \notin {"replacing", "recording"} /\ UNCHANGED lock)
    BY <1>7, Zenon DEF Renew
  <2> QED
    BY <2>1, <2>2, <1>r
<1>8. ASSUME NEW w \in Workers, BeginPublish(w) PROVE LockInv'
  <2>1. /\ stage'[w] \notin {"replacing", "recording"}
        /\ \A v \in Workers \ {w} : stage'[v] = stage[v] /\ held'[v] = held[v]
    BY <1>8 DEF BeginPublish, Goes, TypeOK
  <2>2. Release(w) \/ (stage[w] \notin {"replacing", "recording"} /\ UNCHANGED lock)
    BY <1>8, Zenon DEF BeginPublish
  <2> QED
    BY <2>1, <2>2, <1>r
<1>9. ASSUME NEW w \in Workers, LockToPublish(w) PROVE LockInv'
  <2>1. held[w].doc \in Docs
    BY <1>9 DEF HandInv, Working, LockToPublish
  <2>2. CASE Alive(w, fresh[w])
    <3>1. /\ Unlocked(held[w].doc)
          /\ lock' = [lock EXCEPT ![held[w].doc] = w] /\ Goes(w, "replacing")
          /\ UNCHANGED <<held, doc>>
      BY <1>9, <2>2, Zenon DEF LockToPublish, records
    <3>2. doc[held[w].doc].status \in Visible /\ doc[held[w].doc].rev = held[w].rev
      BY <2>2 DEF Alive, Fenced
    <3> QED
      BY <2>1, <3>1, <3>2 DEF LockInv, Unlocked, Goes, TypeOK
  <2>3. CASE ~Alive(w, fresh[w])
    <3>1. GiveUp(w) /\ stage[w] = "publishing" /\ UNCHANGED lock
      BY <1>9, <2>3, Zenon DEF LockToPublish
    <3> QED
      BY <3>1, <1>r, GiveUpEffect
  <2> QED
    BY <2>2, <2>3
<1>10. ASSUME NEW w \in Workers, CommitPublish(w) PROVE LockInv'
  <2>1. /\ stage'[w] \notin {"replacing", "recording"}
        /\ \A v \in Workers \ {w} : stage'[v] = stage[v] /\ held'[v] = held[v]
    BY <1>10, GiveUpEffect DEF CommitPublish
  <2>2. Release(w) \/ (stage[w] \notin {"replacing", "recording"} /\ UNCHANGED lock)
    BY <1>10, Zenon DEF CommitPublish
  <2> QED
    BY <2>1, <2>2, <1>r
<1>11. ASSUME NEW w \in Workers, NEW code \in {"passing", "lasting"}, BeginFail(w, code)
      PROVE  LockInv'
  <2>1. Release(w) /\ stage' = [stage EXCEPT ![w] = "failing"]
    BY <1>11, Zenon DEF BeginFail, Goes
  <2>2. \A v \in Workers \ {w} : held'[v] = held[v]
    BY <1>11, CodeEffect DEF BeginFail
  <2> QED
    BY <2>1, <2>2, <1>r DEF TypeOK
<1>12. ASSUME NEW w \in Workers, LockToFail(w) PROVE LockInv'
  <2>1. held[w].doc \in Docs
    BY <1>12 DEF HandInv, Working, LockToFail
  <2>2. CASE Alive(w, fresh[w])
    <3>1. /\ Unlocked(held[w].doc)
          /\ lock' = [lock EXCEPT ![held[w].doc] = w] /\ Goes(w, "recording")
          /\ UNCHANGED <<held, doc>>
      BY <1>12, <2>2, Zenon DEF LockToFail, records
    <3>2. doc[held[w].doc].status \in Visible /\ doc[held[w].doc].rev = held[w].rev
      BY <2>2 DEF Alive, Fenced
    <3> QED
      BY <2>1, <3>1, <3>2 DEF LockInv, Unlocked, Goes, TypeOK
  <2>3. CASE ~Alive(w, fresh[w])
    <3>1. GiveUp(w) /\ stage[w] = "failing" /\ UNCHANGED lock
      BY <1>12, <2>3, Zenon DEF LockToFail
    <3> QED
      BY <3>1, <1>r, GiveUpEffect
  <2> QED
    BY <2>2, <2>3
<1>13. ASSUME NEW w \in Workers, CommitFail(w) PROVE LockInv'
  <2>1. /\ stage'[w] \notin {"replacing", "recording"}
        /\ \A v \in Workers \ {w} : stage'[v] = stage[v] /\ held'[v] = held[v]
    BY <1>13, GiveUpEffect DEF CommitFail
  <2>2. Release(w) \/ (stage[w] \notin {"replacing", "recording"} /\ UNCHANGED lock)
    BY <1>13, Zenon DEF CommitFail
  <2> QED
    BY <2>1, <2>2, <1>r
<1>14. ASSUME NEW w \in Workers, Crash(w) PROVE LockInv'
  <2>1. /\ stage'[w] \notin {"replacing", "recording"}
        /\ \A v \in Workers \ {w} : stage'[v] = stage[v] /\ held'[v] = held[v]
    BY <1>14, GiveUpEffect DEF Crash
  <2>2. Release(w) \/ (stage[w] \notin {"replacing", "recording"} /\ UNCHANGED lock)
    BY <1>14, Zenon DEF Crash
  <2> QED
    BY <2>1, <2>2, <1>r
<1> QED
  BY <1>1, <1>2, <1>3, <1>4, <1>5, <1>6, <1>7, <1>8, <1>9, <1>10, <1>11, <1>12, <1>13, <1>14,
     <1>q, StepKinds DEF RunOnce

\* Outside of a claim no job has one attempt more and no lease begins.
JobStep(d) ==
    /\ job'[d].attempts \in {job[d].attempts, 0}
    /\ lease'[d] = "valid" => lease[d] = "valid"

\* Every step but a claim is one of these for every job.
LEMMA JobsStep ==
  ASSUME TypeOK, HandInv, [Next]_vars
  PROVE  (\E w \in Workers : CommitClaim(w)) \/ \A e \in Docs : JobStep(e)
<1>1. ASSUME NEW d \in Docs, BeginReindex(d) \/ AbortReindex(d) \/ Age(d)
      PROVE  (\E v \in Workers : CommitClaim(v)) \/ \A e \in Docs : JobStep(e)
  BY <1>1 DEF BeginReindex, AbortReindex, Age, JobStep, records
<1>2. ASSUME NEW w \in Workers, BeginCleanup(w) \/ EraseFile(w) \/ BeginClaim(w) \/ Renew(w) \/
             BeginPublish(w) \/ LockToPublish(w) \/ LockToFail(w) \/ Crash(w) \/
             \E code \in {"passing", "lasting"} : BeginFail(w, code)
      PROVE  (\E v \in Workers : CommitClaim(v)) \/ \A e \in Docs : JobStep(e)
  BY <1>2 DEF BeginCleanup, EraseFile, BeginClaim, Renew, BeginPublish, LockToPublish,
     BeginFail, LockToFail, Crash, JobStep, records
<1>3. ASSUME BeginSweep \/ CommitSweep \/ Suspend \/ UNCHANGED vars
      PROVE  (\E v \in Workers : CommitClaim(v)) \/ \A e \in Docs : JobStep(e)
  BY <1>3 DEF BeginSweep, CommitSweep, Suspend, vars, JobStep, records
<1>4. ASSUME NEW d \in Docs, StoreFile(d)
      PROVE  (\E v \in Workers : CommitClaim(v)) \/ \A e \in Docs : JobStep(e)
  BY <1>4 DEF StoreFile, JobStep
<1>5. ASSUME NEW d \in Docs, Insert(d)
      PROVE  (\E v \in Workers : CommitClaim(v)) \/ \A e \in Docs : JobStep(e)
  BY <1>5 DEF Insert, NewJob, JobStep, TypeOK
<1>6. ASSUME NEW d \in Docs, RejectUpload(d)
      PROVE  (\E v \in Workers : CommitClaim(v)) \/ \A e \in Docs : JobStep(e)
  BY <1>6 DEF RejectUpload, JobStep
<1>7. ASSUME NEW d \in Docs, CrashUpload(d)
      PROVE  (\E v \in Workers : CommitClaim(v)) \/ \A e \in Docs : JobStep(e)
  BY <1>7 DEF CrashUpload, JobStep
<1>8. ASSUME NEW d \in Docs, CommitReindex(d)
      PROVE  (\E v \in Workers : CommitClaim(v)) \/ \A e \in Docs : JobStep(e)
  BY <1>8 DEF CommitReindex, NewJob, JobStep, TypeOK
<1>9. ASSUME NEW d \in Docs, Tombstone(d)
      PROVE  (\E v \in Workers : CommitClaim(v)) \/ \A e \in Docs : JobStep(e)
  BY <1>9 DEF Tombstone, JobStep
<1>10. ASSUME NEW d \in Docs, Expire(d)
      PROVE  (\E v \in Workers : CommitClaim(v)) \/ \A e \in Docs : JobStep(e)
  BY <1>10 DEF Expire, JobStep, TypeOK
<1>11. ASSUME NEW d \in Docs, ComeDue(d)
      PROVE  (\E v \in Workers : CommitClaim(v)) \/ \A e \in Docs : JobStep(e)
  <2>1. UNCHANGED lease
    BY <1>11, Zenon DEF ComeDue
  <2> QED
    BY <1>11, <2>1, DueEffect DEF JobStep
<1>12. ASSUME NEW w \in Workers, RemoveRow(w)
      PROVE  (\E v \in Workers : CommitClaim(v)) \/ \A e \in Docs : JobStep(e)
  BY <1>12 DEF RemoveRow, NoJob, JobStep, TypeOK
<1>13. ASSUME NEW w \in Workers, CommitClaim(w)
      PROVE  (\E v \in Workers : CommitClaim(v)) \/ \A e \in Docs : JobStep(e)
  BY <1>13
<1>14. ASSUME NEW w \in Workers, MarkProcessing(w)
      PROVE  (\E v \in Workers : CommitClaim(v)) \/ \A e \in Docs : JobStep(e)
  BY <1>14 DEF MarkProcessing, JobStep
<1>15. ASSUME NEW w \in Workers, CommitPublish(w)
      PROVE  (\E v \in Workers : CommitClaim(v)) \/ \A e \in Docs : JobStep(e)
  <2>1. held[w].doc \in Docs
    BY <1>15 DEF HandInv, Working, CommitPublish
  <2> QED
    BY <1>15, <2>1, PublishEffect DEF JobStep
<1>16. ASSUME NEW w \in Workers, CommitFail(w)
      PROVE  (\E v \in Workers : CommitClaim(v)) \/ \A e \in Docs : JobStep(e)
  <2>1. held[w].doc \in Docs
    BY <1>16 DEF HandInv, Working, CommitFail
  <2> QED
    BY <1>16, <2>1, FailEffect DEF JobStep
<1> QED
  BY <1>1, <1>2, <1>3, <1>4, <1>5, <1>6, <1>7, <1>8, <1>9, <1>10, <1>11, <1>12, <1>13, <1>14,
     <1>15, <1>16
  DEF Next, Use, Time, RunOnce

\* Nothing a running claim has seen lapse is leased, or given attempts, before it ends.
LEMMA ScanStep ==
  ASSUME TypeOK, TypeOK', HandInv, ScanInv, [Next]_vars
  PROVE  ScanInv'
<1>a. MaxAttempts > 0
  OBVIOUS
<1>q. CASE UNCHANGED scan /\ \A e \in Docs : JobStep(e)
  BY <1>a, <1>q DEF JobStep, ScanInv, TypeOK, ScanTypes
<1>1. ASSUME NEW w \in Workers, BeginClaim(w) PROVE ScanInv'
  <2> DEFINE lapsed == {d \in Docs : job[d].status = "PROCESSING" /\ lease[d] = "expired"}
             exhausted == {d \in lapsed : job[d].attempts >= MaxAttempts}
  <2>1. /\ scan' = [scan EXCEPT ![w] = [lapsed |-> lapsed, exhausted |-> exhausted]]
        /\ UNCHANGED <<job, lease>>
    BY <1>1, Zenon DEF BeginClaim, records
  <2>2. \A d \in lapsed : lease[d] = "expired"
    OBVIOUS
  <2>3. \A d \in lapsed : d \notin exhausted => job[d].attempts < MaxAttempts
    BY DEF TypeOK, JobTypes
  <2> HIDE DEF lapsed, exhausted
  <2>4. /\ scan'[w].lapsed = lapsed /\ scan'[w].exhausted = exhausted
        /\ \A v \in Workers \ {w} : scan'[v] = scan[v]
    BY <2>1 DEF TypeOK
  <2>5. \A v \in Workers : \A d \in scan'[v].lapsed :
           /\ lease[d] # "valid"
           /\ d \notin scan'[v].exhausted => job[d].attempts < MaxAttempts
    BY <2>2, <2>3, <2>4 DEF ScanInv
  <2> QED
    BY <2>1, <2>5 DEF ScanInv
<1>2. ASSUME NEW w \in Workers, NEW leased, scan' = ScansAfterLeasing(w, leased),
             \A e \in Docs \ leased : JobStep(e)
      PROVE  ScanInv'
  <2>1. ASSUME NEW v \in Workers, v # w
        PROVE  scan'[v].lapsed = scan[v].lapsed \ leased /\ scan'[v].exhausted = scan[v].exhausted
    <3>1. scan[v] \in ScanTypes /\ scan'[v] = [scan[v] EXCEPT !.lapsed = scan[v].lapsed \ leased]
      BY <1>2, <2>1 DEF TypeOK, ScansAfterLeasing
    <3> QED
      BY <3>1 DEF ScanTypes
  <2>2. scan'[w].lapsed = {}
    BY <1>2 DEF ScansAfterLeasing, NoScan
  <2>3. \A v \in Workers : scan[v].lapsed \subseteq Docs
    BY DEF TypeOK, ScanTypes
  <2> QED
    BY <1>2, <1>a, <2>1, <2>2, <2>3 DEF ScanInv, JobStep
<1>3. ASSUME NEW w \in Workers, CommitClaim(w) PROVE ScanInv'
  <2>1. CASE /\ \A e \in Docs : job'[e].attempts = job[e].attempts
             /\ UNCHANGED lease
             /\ scan' = ScansAfterLeasing(w, {})
    <3>1. \A e \in Docs \ {} : JobStep(e)
      BY <2>1 DEF JobStep
    <3> QED
      BY <1>2, <2>1, <3>1
  <2>2. ASSUME NEW d \in Docs,
               \A e \in Docs \ {d} : job'[e].attempts = job[e].attempts,
               lease' = [lease EXCEPT ![d] = "valid"],
               scan' = ScansAfterLeasing(w, {d})
        PROVE  ScanInv'
    <3>1. \A e \in Docs \ {d} : JobStep(e)
      BY <2>2 DEF JobStep, TypeOK
    <3> QED
      BY <1>2, <2>2, <3>1
  <2>3. Candidates(w) \subseteq Docs
    BY DEF Candidates
  <2>4. \/ /\ \A e \in Docs : job'[e].attempts = job[e].attempts
           /\ UNCHANGED lease
           /\ scan' = ScansAfterLeasing(w, {})
        \/ \E d \in Candidates(w) :
              /\ \A e \in Docs \ {d} : job'[e].attempts = job[e].attempts
              /\ lease' = [lease EXCEPT ![d] = "valid"]
              /\ scan' = ScansAfterLeasing(w, {d})
    BY <1>3, ClaimEffect
  <2> QED
    BY <2>1, <2>2, <2>3, <2>4
<1>4. ASSUME NEW w \in Workers, Crash(w) PROVE ScanInv'
  <2>1. scan' = [scan EXCEPT ![w] = NoScan] /\ UNCHANGED <<job, lease>>
    BY <1>4, Zenon DEF Crash, records
  <2>2. scan'[w].lapsed = {} /\ \A v \in Workers \ {w} : scan'[v] = scan[v]
    BY <2>1 DEF NoScan, TypeOK
  <2> QED
    BY <2>1, <2>2 DEF ScanInv
<1>5. ASSUME NEW w \in Workers, RunOnce(w), ~BeginClaim(w), ~CommitClaim(w)
      PROVE  UNCHANGED scan
  BY <1>5, Zenon DEF RunOnce, BeginCleanup, EraseFile, RemoveRow, MarkProcessing, Renew,
     BeginPublish, LockToPublish, CommitPublish, BeginFail, LockToFail, CommitFail
<1>6. CASE \A e \in Docs : JobStep(e)
  BY <1>q, <1>1, <1>3, <1>4, <1>5, <1>6, StepKinds DEF worker
<1> QED
  BY <1>3, <1>6, JobsStep

\* No file of a document goes before it is deleted, none stays after its row went.
LEMMA FileInvStep ==
  ASSUME TypeOK, HandInv, LockInv, FileInv, FilesFollowDocuments, [Next]_vars
  PROVE  FileInv' /\ FilesFollowDocuments'
<1>a. \A e \in Docs : lock[e] # None => doc[e].status \in Visible
  BY DEF LockInv
<1>b. SweepStep /\ \A e \in Docs : FileStep(e)
  BY FilesStep
<1>c. ASSUME NEW e \in Docs
      PROVE  /\ doc'[e].status = "uploading" => file'[e] = "new"
             /\ doc'[e].status \in Visible => file'[e] \in {"new", "old"}
             /\ doc'[e].status = "removed" => file'[e] = "deleted"
             /\ doc'[e].status \in Visible /\ doc[e].status \notin Visible => file'[e] = "new"
             /\ doc'[e].status \in Visible =>
                   file'[e] = file[e] \/ (referenced = None /\ referenced' = None)
  <2>1. /\ doc[e].status = "uploading" => file[e] = "new"
        /\ doc[e].status \in Visible => file[e] \in {"new", "old"}
        /\ doc[e].status = "removed" => file[e] = "deleted"
        /\ referenced # None /\ doc[e].status \in Visible /\ e \notin referenced => file[e] = "new"
    BY DEF FileInv, FilesFollowDocuments
  <2>2. DocStep(e) /\ FileStep(e)
    BY <1>b, DocumentStep
  <2>3. CASE doc'[e] = doc[e]
    BY <2>1, <2>2, <2>3 DEF FileStep, Visible
  <2>4. CASE Stores(e) \/ Abandons(e) \/ Removes(e)
    BY <2>4 DEF Stores, Abandons, Removes, Visible
  <2>5. CASE Inserts(e)
    BY <2>1, <2>2, <2>5 DEF Inserts, FileStep, Visible
  <2>6. CASE (Reindexes(e) \/ Moves(e) \/ Finishes(e)) /\ doc'[e] # doc[e]
    <3>1. /\ doc[e].status \in Visible
          /\ doc'[e].status \in {"PENDING", "READY", "FAILED", "PROCESSING", "DELETING"}
      BY <1>a, <2>6 DEF Reindexes, Moves, Finishes
    <3> QED
      BY <2>1, <2>2, <2>6, <3>1 DEF FileStep, Visible
  <2> QED
    BY <2>2, <2>3, <2>4, <2>5, <2>6 DEF DocStep
<1> QED
  BY <1>b, <1>c DEF FileInv, FilesFollowDocuments, SweepStep, NoRow, Visible

\* A step never leaves a READY document without the chunks of its revision.
LEMMA IndexStep ==
  ASSUME TypeOK, HandInv, LockInv, ReadyIsIndexed, [Next]_vars
  PROVE  ReadyIsIndexed'
<1>1. ASSUME NEW d \in Docs, BeginReindex(d) \/ AbortReindex(d) \/ Age(d)
      PROVE  ReadyIsIndexed'
  BY <1>1 DEF BeginReindex, AbortReindex, Age, records, ReadyIsIndexed
<1>2. ASSUME NEW w \in Workers, BeginCleanup(w) \/ EraseFile(w) \/ BeginClaim(w) \/ Renew(w) \/
             BeginPublish(w) \/ LockToPublish(w) \/ LockToFail(w) \/ Crash(w) \/
             \E code \in {"passing", "lasting"} : BeginFail(w, code)
      PROVE  ReadyIsIndexed'
  BY <1>2 DEF BeginCleanup, EraseFile, BeginClaim, Renew, BeginPublish, LockToPublish,
     BeginFail, LockToFail, Crash, records, ReadyIsIndexed
<1>3. ASSUME BeginSweep \/ CommitSweep \/ Suspend \/ UNCHANGED vars
      PROVE  ReadyIsIndexed'
  BY <1>3 DEF BeginSweep, CommitSweep, Suspend, vars, records, ReadyIsIndexed
<1>4. ASSUME NEW d \in Docs, StoreFile(d) PROVE ReadyIsIndexed'
  BY <1>4, BecomesEffect DEF StoreFile, ReadyIsIndexed, NoRow
<1>5. ASSUME NEW d \in Docs, Insert(d) PROVE ReadyIsIndexed'
  BY <1>5 DEF Insert, ReadyIsIndexed, TypeOK
<1>6. ASSUME NEW d \in Docs, RejectUpload(d) PROVE ReadyIsIndexed'
  BY <1>6, BecomesEffect DEF RejectUpload, ReadyIsIndexed, NoRow
<1>7. ASSUME NEW d \in Docs, CrashUpload(d) PROVE ReadyIsIndexed'
  BY <1>7, BecomesEffect DEF CrashUpload, ReadyIsIndexed, NoRow
<1>8. ASSUME NEW d \in Docs, CommitReindex(d) PROVE ReadyIsIndexed'
  BY <1>8 DEF CommitReindex, ReadyIsIndexed, TypeOK
<1>9. ASSUME NEW d \in Docs, Tombstone(d) PROVE ReadyIsIndexed'
  BY <1>9, BecomesEffect DEF Tombstone, ReadyIsIndexed
<1>10. ASSUME NEW d \in Docs, Expire(d) PROVE ReadyIsIndexed'
  BY <1>10 DEF Expire, ReadyIsIndexed
<1>11. ASSUME NEW d \in Docs, ComeDue(d) PROVE ReadyIsIndexed'
  BY <1>11 DEF ComeDue, ReadyIsIndexed
<1>12. ASSUME NEW w \in Workers, RemoveRow(w) PROVE ReadyIsIndexed'
  <2>1. held[w].doc \in Docs /\ doc[held[w].doc].status \in {"DELETING", "removed"}
    BY <1>12 DEF RemoveRow, Working, HandInv
  <2> QED
    BY <1>12, <2>1, BecomesEffect DEF RemoveRow, ReadyIsIndexed, NoRow, TypeOK
<1>13. ASSUME NEW w \in Workers, CommitClaim(w) PROVE ReadyIsIndexed'
  <2>1. UNCHANGED chunks
    BY <1>13, Zenon DEF CommitClaim
  <2>2. \A e \in Docs : doc'[e].rev = doc[e].rev /\ doc'[e].status \in {"FAILED", doc[e].status}
    BY <1>13, ClaimEffect
  <2> QED
    BY <2>1, <2>2 DEF ReadyIsIndexed
<1>14. ASSUME NEW w \in Workers, MarkProcessing(w) PROVE ReadyIsIndexed'
  <2>1. held[w].doc \in Docs
    BY <1>14 DEF HandInv, Working, MarkProcessing
  <2> QED
    BY <1>14, <2>1, BecomesEffect DEF MarkProcessing, ReadyIsIndexed, Visible
<1>15. ASSUME NEW w \in Workers, CommitPublish(w) PROVE ReadyIsIndexed'
  <2>1. held[w].doc \in Docs /\ held[w].rev = doc[held[w].doc].rev
    BY <1>15 DEF CommitPublish, Working, HandInv, LockInv
  <2>2. Becomes(held[w].doc, "READY") /\ chunks' = [chunks EXCEPT ![held[w].doc] = held[w].rev]
    BY <1>15, Zenon DEF CommitPublish
  <2> QED
    BY <2>1, <2>2, BecomesEffect DEF ReadyIsIndexed, Visible, TypeOK
<1>16. ASSUME NEW w \in Workers, CommitFail(w) PROVE ReadyIsIndexed'
  <2>1. held[w].doc \in Docs /\ UNCHANGED chunks
    BY <1>16 DEF CommitFail, Working, HandInv
  <2>2. \A e \in Docs : doc'[e] = doc[e] \/ doc'[e].status \in {"PENDING", "FAILED"}
    BY <1>16, <2>1, FailEffect
  <2> QED
    BY <2>1, <2>2 DEF ReadyIsIndexed
<1> QED
  BY <1>1, <1>2, <1>3, <1>4, <1>5, <1>6, <1>7, <1>8, <1>9, <1>10, <1>11, <1>12, <1>13, <1>14,
     <1>15, <1>16
  DEF Next, Use, Time, RunOnce

\* A step never ends the job of a document that still waits or is being processed.
LEMMA StrandStep ==
  ASSUME TypeOK, HandInv, ScanInv, NoDocumentIsStranded, [Next]_vars
  PROVE  NoDocumentIsStranded'
<1>1. ASSUME NEW d \in Docs, BeginReindex(d) \/ AbortReindex(d) \/ Age(d)
      PROVE  NoDocumentIsStranded'
  BY <1>1 DEF BeginReindex, AbortReindex, Age, records, NoDocumentIsStranded
<1>2. ASSUME NEW w \in Workers, BeginCleanup(w) \/ EraseFile(w) \/ BeginClaim(w) \/ Renew(w) \/
             BeginPublish(w) \/ LockToPublish(w) \/ LockToFail(w) \/ Crash(w) \/
             \E code \in {"passing", "lasting"} : BeginFail(w, code)
      PROVE  NoDocumentIsStranded'
  BY <1>2 DEF BeginCleanup, EraseFile, BeginClaim, Renew, BeginPublish, LockToPublish,
     BeginFail, LockToFail, Crash, records, NoDocumentIsStranded
<1>3. ASSUME BeginSweep \/ CommitSweep \/ Suspend \/ UNCHANGED vars
      PROVE  NoDocumentIsStranded'
  BY <1>3 DEF BeginSweep, CommitSweep, Suspend, vars, records, NoDocumentIsStranded
<1>4. ASSUME NEW d \in Docs, StoreFile(d) PROVE NoDocumentIsStranded'
  BY <1>4, BecomesEffect DEF StoreFile, NoDocumentIsStranded, NoRow
<1>5. ASSUME NEW d \in Docs, Insert(d) PROVE NoDocumentIsStranded'
  BY <1>5 DEF Insert, NewJob, NoDocumentIsStranded, TypeOK
<1>6. ASSUME NEW d \in Docs, RejectUpload(d) PROVE NoDocumentIsStranded'
  BY <1>6, BecomesEffect DEF RejectUpload, NoDocumentIsStranded, NoRow
<1>7. ASSUME NEW d \in Docs, CrashUpload(d) PROVE NoDocumentIsStranded'
  BY <1>7, BecomesEffect DEF CrashUpload, NoDocumentIsStranded, NoRow
<1>8. ASSUME NEW d \in Docs, CommitReindex(d) PROVE NoDocumentIsStranded'
  BY <1>8 DEF CommitReindex, NewJob, NoDocumentIsStranded, TypeOK
<1>9. ASSUME NEW d \in Docs, Tombstone(d) PROVE NoDocumentIsStranded'
  BY <1>9, BecomesEffect DEF Tombstone, NoDocumentIsStranded
<1>10. ASSUME NEW d \in Docs, Expire(d) PROVE NoDocumentIsStranded'
  BY <1>10 DEF Expire, NoDocumentIsStranded
<1>11. ASSUME NEW d \in Docs, ComeDue(d) PROVE NoDocumentIsStranded'
  <2>1. UNCHANGED doc
    BY <1>11, Zenon DEF ComeDue
  <2> QED
    BY <1>11, <2>1, DueEffect DEF NoDocumentIsStranded
<1>12. ASSUME NEW w \in Workers, RemoveRow(w) PROVE NoDocumentIsStranded'
  <2>1. held[w].doc \in Docs /\ doc[held[w].doc].status \in {"DELETING", "removed"}
    BY <1>12 DEF RemoveRow, Working, HandInv
  <2> QED
    BY <1>12, <2>1, BecomesEffect DEF RemoveRow, NoDocumentIsStranded, NoRow, TypeOK
<1>13. ASSUME NEW w \in Workers, CommitClaim(w) PROVE NoDocumentIsStranded'
  <2>1. \A e \in Exhausted(w) : doc[e].status \in Visible => e \in Condemns(w)
    <3> SUFFICES ASSUME NEW e \in Docs, e \in scan[w].lapsed, job[e].attempts >= MaxAttempts
                 PROVE  e \in scan[w].exhausted
      BY DEF Exhausted, Lapsed, Condemns
    <3> QED
      BY DEF ScanInv, TypeOK, JobTypes
  <2>2. \A e \in Docs : doc'[e].status = IF e \in Condemns(w) THEN "FAILED" ELSE doc[e].status
    BY <1>13, ClaimEffect
  <2>3. \A e \in Docs : \/ job'[e].status = "PROCESSING"
                        \/ job'[e].status = IF e \in Exhausted(w) THEN "FAILED" ELSE job[e].status
    BY <1>13, ClaimEffect
  <2> QED
    BY <2>1, <2>2, <2>3 DEF NoDocumentIsStranded, Visible
<1>14. ASSUME NEW w \in Workers, MarkProcessing(w) PROVE NoDocumentIsStranded'
  <2>1. held[w].doc \in Docs /\ UNCHANGED job
    BY <1>14 DEF MarkProcessing, Working, HandInv
  <2>2. CASE Fenced(w, InTime(w))
    <3>1. Becomes(held[w].doc, "PROCESSING") /\ job[held[w].doc].status = "PROCESSING"
      BY <1>14, <2>2 DEF MarkProcessing, Fenced
    <3> QED
      BY <2>1, <3>1, BecomesEffect DEF NoDocumentIsStranded, Visible
  <2>3. CASE ~Fenced(w, InTime(w))
    BY <1>14, <2>1, <2>3 DEF MarkProcessing, NoDocumentIsStranded
  <2> QED
    BY <2>2, <2>3
<1>15. ASSUME NEW w \in Workers, CommitPublish(w) PROVE NoDocumentIsStranded'
  <2>1. held[w].doc \in Docs /\ Becomes(held[w].doc, "READY")
    BY <1>15 DEF CommitPublish, Working, HandInv
  <2>2. \A e \in Docs : e # held[w].doc => job'[e].status = job[e].status
    BY <1>15, <2>1, PublishEffect
  <2> QED
    BY <2>1, <2>2, BecomesEffect DEF NoDocumentIsStranded, Visible
<1>16. ASSUME NEW w \in Workers, CommitFail(w) PROVE NoDocumentIsStranded'
  <2>1. held[w].doc \in Docs
    BY <1>16 DEF CommitFail, Working, HandInv
  <2>2. \A e \in Docs : \/ doc'[e] = doc[e] /\ job'[e].status = job[e].status
                        \/ doc'[e].status = job'[e].status
    BY <1>16, <2>1, FailEffect
  <2> QED
    BY <2>2 DEF NoDocumentIsStranded
<1> QED
  BY <1>1, <1>2, <1>3, <1>4, <1>5, <1>6, <1>7, <1>8, <1>9, <1>10, <1>11, <1>12, <1>13, <1>14,
     <1>15, <1>16
  DEF Next, Use, Time, RunOnce

-------------------------------------------------------------------------------
(* One instance of Core.                                                    *)

\* With one worker the job of a READY document has ended: what the worker is about to
\* publish or record is still leased to it, and what a claim found exhausted is not READY
\* when the claim condemns it, because nobody else publishes.
Unfinished == {"PENDING", "PROCESSING"}

AloneInv ==
    /\ \A d \in Docs : doc[d].status = "READY" => job[d].status \notin Unfinished
    /\ \A w \in Workers : stage[w] \in {"replacing", "recording"} =>
          job[held[w].doc].status = "PROCESSING" /\ job[held[w].doc].owner = w
    /\ \A w \in Workers : stage[w] # "claiming" => scan[w].exhausted = {}
    /\ \A w \in Workers : \A d \in scan[w].exhausted : doc[d].status # "READY"

\* A READY document stays so, is deleted or reindexed, and one that is READY has no job.
Stays(d) ==
    /\ doc[d].status = "READY" =>
          doc'[d].status \in {"READY", "DELETING"} \/ doc'[d].rev > doc[d].rev
    /\ doc'[d].status = "READY" => job'[d].status \notin Unfinished

\* A claim ends the jobs it does not take, or leaves them as they are.
LEMMA ClaimEnds ==
  ASSUME TypeOK, NEW w \in Workers, CommitClaim(w)
  PROVE  \A d \in Docs : job'[d].status \in {"FAILED", job[d].status} \/ d \in Candidates(w)
BY ClaimEffect

\* They do with every step that condemns and overwrites nothing READY and publishes only
\* what is leased.
LEMMA RowsStay ==
  ASSUME IInv, [Next]_vars,
         \A d \in Docs : doc[d].status = "READY" => job[d].status \notin Unfinished,
         \A v \in Workers : CommitClaim(v) => \A d \in Condemns(v) : doc[d].status # "READY",
         \A v \in Workers : CommitPublish(v) => Owns(v),
         \A v \in Workers : CommitFail(v) => doc[held[v].doc].status # "READY"
  PROVE  \A d \in Docs : Stays(d)
<1>a. TypeOK /\ HandInv
  BY DEF IInv
<1>b. \A v \in Workers : stage[v] \in Working \union {"erased"} => held[v].doc \in Docs
  BY <1>a DEF HandInv
<1>1. CASE UNCHANGED <<doc, job>>
  BY <1>a, <1>1 DEF Stays
<1>2. ASSUME NEW d \in Docs, BeginReindex(d) \/ AbortReindex(d) \/ Expire(d) \/ Age(d)
      PROVE  UNCHANGED <<doc, job>>
  BY <1>2, Zenon DEF BeginReindex, AbortReindex, Expire, Age, records
<1>3. ASSUME NEW v \in Workers, BeginCleanup(v) \/ EraseFile(v) \/ BeginClaim(v) \/ Renew(v) \/
             BeginPublish(v) \/ LockToPublish(v) \/ LockToFail(v) \/ Crash(v) \/
             \E code \in {"passing", "lasting"} : BeginFail(v, code)
      PROVE  UNCHANGED <<doc, job>>
  BY <1>3, Zenon DEF BeginCleanup, EraseFile, BeginClaim, Renew, BeginPublish, LockToPublish,
     BeginFail, LockToFail, Crash, records
<1>4. ASSUME BeginSweep \/ CommitSweep \/ Suspend \/ UNCHANGED vars
      PROVE  UNCHANGED <<doc, job>>
  BY <1>4, Zenon DEF BeginSweep, CommitSweep, Suspend, vars, records
<1>5. ASSUME NEW d \in Docs, StoreFile(d) \/ RejectUpload(d) \/ CrashUpload(d) \/ Tombstone(d)
      PROVE  \A e \in Docs : Stays(e)
  <2>1. UNCHANGED job /\ doc[d].status \in {"absent", "uploading"} \union Visible
    BY <1>5 DEF StoreFile, RejectUpload, CrashUpload, Tombstone
  <2>2. \/ doc[d].status # "READY" /\ Becomes(d, "uploading")
        \/ doc[d].status # "READY" /\ Becomes(d, "abandoned")
        \/ Becomes(d, "DELETING")
    BY <1>5, Zenon DEF StoreFile, RejectUpload, CrashUpload, Tombstone
  <2> QED
    BY <1>a, <2>1, <2>2, BecomesEffect DEF Stays, NoRow
<1>6. ASSUME NEW d \in Docs, Insert(d) \/ CommitReindex(d) PROVE \A e \in Docs : Stays(e)
  <2>1. /\ doc[d].status # "READY" \/ doc'[d].rev = doc[d].rev + 1
        /\ doc'[d].status = "PENDING" /\ doc[d].rev \in Nat
        /\ \A e \in Docs \ {d} : doc'[e] = doc[e] /\ job'[e] = job[e]
    BY <1>a, <1>6 DEF Insert, CommitReindex, TypeOK, DocTypes
  <2> QED
    BY <1>a, <2>1 DEF Stays
<1>7. ASSUME NEW d \in Docs, ComeDue(d) PROVE \A e \in Docs : Stays(e)
  BY <1>a, <1>7, DueEffect DEF ComeDue, Stays
<1>8. ASSUME NEW v \in Workers, RemoveRow(v) PROVE \A e \in Docs : Stays(e)
  <2> DEFINE d == held[v].doc
  <2>1. d \in Docs /\ doc[d].status \in {"DELETING", "removed"}
    BY <1>a, <1>8 DEF RemoveRow, Working, HandInv
  <2>2. /\ doc' = doc \/ Becomes(d, "removed")
        /\ job' = [job EXCEPT ![d] = NoJob]
    BY <1>8, Zenon DEF RemoveRow
  <2>3. doc'[d].status # "READY" /\ \A e \in Docs \ {d} : doc'[e] = doc[e]
    BY <1>a, <2>1, <2>2, BecomesEffect DEF NoRow
  <2> QED
    BY <1>a, <2>1, <2>2, <2>3 DEF Stays, TypeOK
<1>9. ASSUME NEW v \in Workers, CommitClaim(v) PROVE \A e \in Docs : Stays(e)
  <2>1. \A e \in Docs : e \in Condemns(v) => doc[e].status # "READY"
    BY <1>9
  <2>2. \A e \in Docs :
           doc'[e].status = IF e \in Condemns(v) THEN "FAILED" ELSE doc[e].status
    BY <1>a, <1>9, ClaimEffect
  <2>3. \A e \in Candidates(v) : doc[e].status # "READY"
    BY <1>a DEF Candidates, Lapsed, Unfinished
  <2>4. \A e \in Docs : \/ job'[e].status \in {"FAILED", job[e].status}
                        \/ e \in Candidates(v)
    BY <1>a, <1>9, ClaimEnds
  <2> QED
    BY <1>a, <2>1, <2>2, <2>3, <2>4 DEF Stays, Unfinished
<1>10. ASSUME NEW v \in Workers, MarkProcessing(v) PROVE \A e \in Docs : Stays(e)
  <2>1. held[v].doc \in Docs /\ UNCHANGED job
    BY <1>b, <1>10 DEF MarkProcessing, Working
  <2>2. \/ UNCHANGED doc
        \/ Becomes(held[v].doc, "PROCESSING") /\ job[held[v].doc].status = "PROCESSING"
    BY <1>10 DEF MarkProcessing, Fenced
  <2> QED
    BY <1>a, <2>1, <2>2, BecomesEffect DEF Stays, Unfinished, Visible
<1>11. ASSUME NEW v \in Workers, CommitPublish(v) PROVE \A e \in Docs : Stays(e)
  <2> DEFINE d == held[v].doc
  <2>1. d \in Docs /\ Becomes(d, "READY") /\ Owns(v)
    BY <1>b, <1>11 DEF CommitPublish, Working
  <2>2. job' = [job EXCEPT ![d].status = "DONE", ![d].owner = None]
    BY <1>11, <2>1, Zenon DEF CommitPublish
  <2>3. job'[d].status = "DONE" /\ \A e \in Docs \ {d} : job'[e] = job[e]
    <3>1. job[d] \in JobTypes
      BY <1>a, <2>1 DEF TypeOK
    <3>2. job' = [job EXCEPT ![d] = [job[d] EXCEPT !.status = "DONE", !.owner = None]]
      BY <1>a, <2>2 DEF TypeOK
    <3>3. job' = [job EXCEPT ![d] =
                     JobRow("DONE", job[d].rev, job[d].attempts, None, job[d].due)]
      BY <3>1, <3>2, EndedRow, Zenon
    <3> QED
      BY <1>a, <2>1, <3>3 DEF TypeOK, JobRow
  <2> QED
    BY <1>a, <2>1, <2>3, BecomesEffect DEF Stays, Unfinished, Visible
<1>12. ASSUME NEW v \in Workers, CommitFail(v) PROVE \A e \in Docs : Stays(e)
  <2>1. held[v].doc \in Docs /\ doc[held[v].doc].status # "READY"
    BY <1>b, <1>12 DEF CommitFail, Working
  <2>2. \A e \in Docs : \/ doc'[e] = doc[e] /\ job'[e].status = job[e].status
                        \/ /\ e = held[v].doc /\ doc'[e].status \in {"PENDING", "FAILED"}
    BY <1>a, <1>12, <2>1, FailEffect
  <2> QED
    BY <1>a, <2>1, <2>2 DEF Stays, Unfinished
<1> QED
  BY <1>1, <1>2, <1>3, <1>4, <1>5, <1>6, <1>7, <1>8, <1>9, <1>10, <1>11, <1>12
  DEF Next, Use, Time, RunOnce

LEMMA AloneStays ==
  ASSUME NEW w, Workers = {w}, IInv, AloneInv, [Next]_vars
  PROVE  \A d \in Docs : Stays(d)
<1>a. /\ \A d \in Docs : doc[d].status = "READY" => job[d].status \notin Unfinished
      /\ \A v \in Workers : stage[v] \in Working => held[v].doc \in Docs
  BY DEF AloneInv, IInv, HandInv
<1>1. \A v \in Workers : \A d \in Condemns(v) : doc[d].status # "READY"
  BY DEF Condemns, AloneInv
<1>2. \A v \in Workers : CommitPublish(v) => Owns(v)
  BY DEF CommitPublish, Owns, AloneInv
<1>3. \A v \in Workers : CommitFail(v) => doc[held[v].doc].status # "READY"
  BY <1>a DEF CommitFail, Working, AloneInv, Unfinished
<1> QED
  BY <1>a, <1>1, <1>2, <1>3, RowsStay

\* What the worker is about to publish or record stays leased to it.
LEMMA AloneLeased ==
  ASSUME NEW w, Workers = {w}, IInv, AloneInv, [Next]_vars,
         stage'[w] \in {"replacing", "recording"}
  PROVE  job'[held'[w].doc].status = "PROCESSING" /\ job'[held'[w].doc].owner = w
<1>a. TypeOK /\ HandInv /\ LockInv /\ w \in Workers
  BY DEF IInv
<1>1. ASSUME UNCHANGED worker
      PROVE  /\ held'[w].doc = held[w].doc /\ held[w].doc \in Docs
             /\ lock[held[w].doc] = w /\ doc[held[w].doc].status \in Visible
             /\ job[held[w].doc].status = "PROCESSING" /\ job[held[w].doc].owner = w
  <2>1. stage[w] \in {"replacing", "recording"} /\ held'[w].doc = held[w].doc
    BY <1>1 DEF worker
  <2>2. held[w].doc \in Docs
    BY <1>a, <2>1 DEF HandInv, Working
  <2>3. w # None
    BY <1>a
  <2>4. lock[held[w].doc] = w
    BY <1>a, <2>1, <2>2 DEF LockInv
  <2>5. doc[held[w].doc].status \in Visible
    BY <1>a, <2>2, <2>3, <2>4 DEF LockInv
  <2>6. job[held[w].doc].status = "PROCESSING" /\ job[held[w].doc].owner = w
    BY <1>a, <2>1 DEF AloneInv
  <2> QED
    BY <2>1, <2>2, <2>4, <2>5, <2>6
<1>2. ASSUME NEW d \in Docs, Use(d) \/ Time(d)
      PROVE  job'[held'[w].doc].status = "PROCESSING" /\ job'[held'[w].doc].owner = w
  <2>1. UNCHANGED worker
    BY <1>2, Zenon DEF Use, Time, StoreFile, Insert, RejectUpload, CrashUpload, BeginReindex,
       CommitReindex, AbortReindex, Tombstone, Expire, ComeDue, Age
  <2>2. \/ UNCHANGED job
        \/ doc[d].status = "uploading" /\ \E row : job' = [job EXCEPT ![d] = row]
        \/ lock[d] = Owner /\ \E row : job' = [job EXCEPT ![d] = row]
        \/ job[d].status = "PENDING" /\ \E row : job' = [job EXCEPT ![d] = row]
    <3>1. CASE Insert(d)
      BY <3>1, Zenon DEF Insert
    <3>2. CASE CommitReindex(d)
      BY <3>2 DEF CommitReindex
    <3>3. CASE ComeDue(d)
      BY <3>3, Zenon DEF ComeDue
    <3>4. CASE UNCHANGED job
      BY <3>4
    <3> QED
      BY <1>2, <3>1, <3>2, <3>3, <3>4, Zenon DEF Use, Time, StoreFile, RejectUpload, CrashUpload,
         BeginReindex, AbortReindex, Tombstone, Expire, Age, records
  <2>3. UNCHANGED job \/ (d # held[w].doc /\ \E row : job' = [job EXCEPT ![d] = row])
    BY <1>1, <2>1, <2>2 DEF Visible
  <2>4. job'[held[w].doc] = job[held[w].doc]
    BY <1>a, <1>1, <2>1, <2>3 DEF TypeOK
  <2> QED
    BY <1>1, <2>1, <2>4
<1>3. ASSUME BeginSweep \/ CommitSweep \/ Suspend \/ UNCHANGED vars
      PROVE  job'[held'[w].doc].status = "PROCESSING" /\ job'[held'[w].doc].owner = w
  <2>1. UNCHANGED worker /\ UNCHANGED job
    BY <1>3, Zenon DEF BeginSweep, CommitSweep, Suspend, vars, records
  <2> QED
    BY <1>1, <2>1
<1>4. ASSUME RunOnce(w) \/ Crash(w)
      PROVE  job'[held'[w].doc].status = "PROCESSING" /\ job'[held'[w].doc].owner = w
  <2>1. CASE LockToPublish(w) \/ LockToFail(w)
    BY <1>a, <2>1 DEF LockToPublish, LockToFail, Alive, Fenced, GiveUp, Goes, records, TypeOK
  <2>2. ASSUME ~LockToPublish(w), ~LockToFail(w)
        PROVE  stage'[w] \notin {"replacing", "recording"}
    <3>1. CASE \/ BeginCleanup(w) \/ EraseFile(w) \/ RemoveRow(w)
               \/ BeginClaim(w) \/ CommitClaim(w)
      BY <1>a, <3>1 DEF BeginCleanup, EraseFile, RemoveRow, NextCondemned, BeginClaim,
         CommitClaim, Goes, TypeOK
    <3>2. CASE \/ MarkProcessing(w) \/ Renew(w) \/ BeginPublish(w) \/ CommitPublish(w)
               \/ CommitFail(w) \/ Crash(w)
               \/ \E code \in {"passing", "lasting"} : BeginFail(w, code)
      BY <1>a, <3>2 DEF MarkProcessing, Renew, BeginPublish, CommitPublish, CommitFail, Crash,
         BeginFail, GiveUp, Goes, TypeOK
    <3> QED
      BY <1>4, <2>2, <3>1, <3>2 DEF RunOnce
  <2> QED
    BY <2>1, <2>2
<1> QED
  BY <1>2, <1>3, <1>4 DEF Next

\* A claim condemns nothing that is READY.
LEMMA AloneScan ==
  ASSUME NEW w, Workers = {w}, IInv, AloneInv, [Next]_vars
  PROVE  /\ stage'[w] # "claiming" => scan'[w].exhausted = {}
         /\ \A d \in scan'[w].exhausted : doc'[d].status # "READY"
<1>a. TypeOK /\ HandInv /\ w \in Workers
  BY DEF IInv
<1>b. /\ stage[w] # "claiming" => scan[w].exhausted = {}
      /\ scan[w].exhausted \subseteq Docs
      /\ \A d \in scan[w].exhausted : doc[d].status # "READY"
      /\ \A d \in Docs : doc[d].status = "READY" => job[d].status \notin Unfinished
  BY <1>a DEF AloneInv, TypeOK, ScanTypes
<1>1. ASSUME UNCHANGED worker,
             \A d \in Docs : doc'[d].status = "READY" => doc[d].status = "READY"
      PROVE  /\ stage'[w] # "claiming" => scan'[w].exhausted = {}
             /\ \A d \in scan'[w].exhausted : doc'[d].status # "READY"
  BY <1>b, <1>1 DEF worker
<1>2. ASSUME NEW d \in Docs, Use(d) \/ Time(d)
      PROVE  /\ UNCHANGED worker
             /\ \A e \in Docs : doc'[e].status = "READY" => doc[e].status = "READY"
  <2>1. UNCHANGED worker
    BY <1>2, Zenon DEF Use, Time, StoreFile, Insert, RejectUpload, CrashUpload, BeginReindex,
       CommitReindex, AbortReindex, Tombstone, Expire, ComeDue, Age
  <2>2. \/ UNCHANGED doc
        \/ \E rev : doc' = [doc EXCEPT ![d] = [status |-> "PENDING", rev |-> rev]]
        \/ \E s \in {"uploading", "abandoned", "DELETING"} : Becomes(d, s)
    BY <1>2, Zenon DEF Use, Time, StoreFile, Insert, RejectUpload, CrashUpload, BeginReindex,
       CommitReindex, AbortReindex, Tombstone, Expire, ComeDue, Age, records
  <2> QED
    BY <1>a, <2>1, <2>2, BecomesEffect DEF TypeOK, NoRow
<1>3. ASSUME BeginSweep \/ CommitSweep \/ Suspend \/ UNCHANGED vars
      PROVE  UNCHANGED worker /\ UNCHANGED doc
  BY <1>3, Zenon DEF BeginSweep, CommitSweep, Suspend, vars, records
<1>4. CASE BeginClaim(w)
  <2> DEFINE lapsed == {d \in Docs : job[d].status = "PROCESSING" /\ lease[d] = "expired"}
             exhausted == {d \in lapsed : job[d].attempts >= MaxAttempts}
  <2>1. /\ scan' = [scan EXCEPT ![w] = [lapsed |-> lapsed, exhausted |-> exhausted]]
        /\ UNCHANGED doc /\ Goes(w, "claiming")
    BY <1>4, Zenon DEF BeginClaim, records
  <2>2. \A d \in exhausted : doc[d].status # "READY"
    BY <1>b DEF Unfinished
  <2> HIDE DEF exhausted
  <2> QED
    BY <1>a, <2>1, <2>2 DEF Goes, TypeOK
<1>5. CASE CommitClaim(w) \/ Crash(w)
  <2>1. scan'[w] = NoScan
    BY <1>a, <1>5 DEF CommitClaim, Crash, ScansAfterLeasing, TypeOK
  <2> QED
    BY <2>1 DEF NoScan
<1>6. ASSUME RunOnce(w), ~BeginClaim(w), ~CommitClaim(w)
      PROVE  UNCHANGED scan /\ stage[w] # "claiming"
  BY <1>6, Zenon DEF RunOnce, BeginCleanup, EraseFile, RemoveRow, MarkProcessing, Renew,
     BeginPublish, LockToPublish, CommitPublish, BeginFail, LockToFail, CommitFail
<1> QED
  BY <1>b, <1>1, <1>2, <1>3, <1>4, <1>5, <1>6 DEF Next

LEMMA AloneKept ==
  ASSUME NEW w, Workers = {w}
  PROVE  /\ Init => AloneInv
         /\ IInv /\ AloneInv /\ [Next]_vars => AloneInv' /\ \A d \in Docs : Stays(d)
<1>1. Init => AloneInv
  BY DEF Init, AloneInv, NoScan
<1>2. ASSUME IInv, AloneInv, [Next]_vars PROVE AloneInv'
  BY <1>2, AloneStays, AloneLeased, AloneScan DEF AloneInv, Stays
<1> QED
  BY <1>1, <1>2, AloneStays

-------------------------------------------------------------------------------
(* Any number of instances.                                                 *)

\* No claim condemns a document that was published since the claim began. The code does not
\* ensure it: the first UPDATE checks the document it waited for again, but not the job.
ClaimsAreCurrent ==
    [][\A d \in Docs, w \in Workers :
          CommitClaim(w) /\ d \in Condemns(w) => doc[d].status # "READY"]_vars

\* While publications are fenced the job of a READY document has ended, and what a worker
\* has locked is not READY.
FenceInv ==
    /\ \A d \in Docs : doc[d].status = "READY" => job[d].status \notin Unfinished
    /\ \A w \in Workers : stage[w] \in {"replacing", "recording"} =>
          doc[held[w].doc].status # "READY"

\* Only a publication makes a document READY, and it leaves the row unlocked.
LEMMA OnlyPublished ==
  ASSUME IInv, [Next]_vars, NEW d \in Docs, doc[d].status # "READY", doc'[d].status = "READY"
  PROVE  lock'[d] = None
<1>a. TypeOK /\ LockInv /\ \A w \in Workers : stage[w] \in Working => held[w].doc \in Docs
  BY DEF IInv, HandInv
<1>1. ASSUME NEW e \in Docs, Use(e) \/ Time(e) PROVE FALSE
  <2>1. \/ UNCHANGED doc
        \/ \E rev : doc' = [doc EXCEPT ![e] = [status |-> "PENDING", rev |-> rev]]
        \/ \E s \in {"uploading", "abandoned", "DELETING"} : Becomes(e, s)
    BY <1>1, Zenon DEF Use, Time, StoreFile, Insert, RejectUpload, CrashUpload, BeginReindex,
       CommitReindex, AbortReindex, Tombstone, Expire, ComeDue, Age, records
  <2> QED
    BY <1>a, <2>1, BecomesEffect DEF TypeOK, NoRow
<1>2. ~UNCHANGED doc
  OBVIOUS
<1>3. ASSUME NEW w \in Workers, RemoveRow(w) \/ CommitClaim(w) \/ MarkProcessing(w) PROVE FALSE
  <2>1. CASE RemoveRow(w)
    <3>1. held[w].doc \in Docs
      BY <2>1 DEF RemoveRow, IInv, HandInv
    <3>2. Becomes(held[w].doc, "removed")
      BY <1>2, <2>1, Zenon DEF RemoveRow
    <3> QED
      BY <1>a, <3>1, <3>2, BecomesEffect DEF NoRow
  <2>2. CASE CommitClaim(w)
    BY <1>a, <2>2, ClaimEffect
  <2>3. CASE MarkProcessing(w)
    <3>1. held[w].doc \in Docs
      BY <1>a, <2>3 DEF MarkProcessing, Working
    <3>2. Becomes(held[w].doc, "PROCESSING")
      BY <1>2, <2>3, Zenon DEF MarkProcessing
    <3> QED
      BY <1>a, <3>1, <3>2, BecomesEffect DEF Visible
  <2> QED
    BY <1>3, <2>1, <2>2, <2>3
<1>4. ASSUME NEW w \in Workers, CommitFail(w) PROVE FALSE
  BY <1>a, <1>4, FailEffect DEF CommitFail, Working
<1>5. ASSUME NEW w \in Workers, CommitPublish(w) PROVE lock'[d] = None
  <2>1. stage[w] = "replacing" /\ held[w].doc \in Docs
    BY <1>a, <1>5 DEF CommitPublish, Working
  <2>2. Becomes(held[w].doc, "READY") /\ Release(w)
    BY <1>5, Zenon DEF CommitPublish
  <2>3. d = held[w].doc
    BY <1>a, <2>1, <2>2, BecomesEffect DEF Visible
  <2>4. lock[d] = w
    BY <1>a, <2>1, <2>3 DEF LockInv
  <2> QED
    BY <1>a, <2>2, <2>4 DEF Release, TypeOK
<1>6. ASSUME NEW w \in Workers, RunOnce(w) \/ Crash(w), ~RemoveRow(w), ~CommitClaim(w),
             ~MarkProcessing(w), ~CommitFail(w), ~CommitPublish(w)
      PROVE  UNCHANGED doc
  BY <1>6, Zenon DEF RunOnce, BeginCleanup, EraseFile, BeginClaim, Renew, BeginPublish,
     LockToPublish, BeginFail, LockToFail, Crash, records
<1>7. ASSUME BeginSweep \/ CommitSweep \/ Suspend \/ UNCHANGED vars PROVE UNCHANGED doc
  BY <1>7, Zenon DEF BeginSweep, CommitSweep, Suspend, vars, records
<1> QED
  BY <1>1, <1>2, <1>3, <1>4, <1>5, <1>6, <1>7 DEF Next

\* Who locks a row holds its job.
LEMMA LockHoldsJob ==
  ASSUME IInv, [Next]_vars, NEW d \in Docs, NEW v \in Workers, lock[d] # v, lock'[d] = v
  PROVE  job[d].status = "PROCESSING"
<1>a. TypeOK /\ v # None /\ v # Owner
  BY DEF IInv
<1>1. \A e \in Docs : OwnerLock(e) => e # d
  BY <1>a DEF OwnerLock
<1>2. PICK w \in Workers : RunOnce(w) \/ Crash(w)
  BY <1>a, <1>1, StepKinds
<1>3. CASE LockToPublish(w) \/ LockToFail(w)
  BY <1>a, <1>3 DEF LockToPublish, LockToFail, Alive, Fenced, TypeOK
<1>4. CASE CommitPublish(w) \/ CommitFail(w) \/ Crash(w) \/
           \E code \in {"passing", "lasting"} : BeginFail(w, code)
  BY <1>a, <1>4 DEF CommitPublish, CommitFail, Crash, BeginFail, Release, TypeOK
<1>5. CASE BeginCleanup(w) \/ EraseFile(w) \/ RemoveRow(w) \/ BeginClaim(w) \/ CommitClaim(w) \/
           MarkProcessing(w) \/ Renew(w) \/ BeginPublish(w)
  BY <1>5, Zenon DEF BeginCleanup, EraseFile, RemoveRow, BeginClaim, CommitClaim,
     MarkProcessing, Renew, BeginPublish
<1> QED
  BY <1>2, <1>3, <1>4, <1>5 DEF RunOnce

\* Where publications are fenced and claims current, the invariant is kept and a READY
\* document stays so.
LEMMA FenceKept ==
  ASSUME IInv, IInv', FenceInv, [Next]_vars,
         \A d \in Docs, w \in Workers :
            lock[d] = w /\ doc[d].status # "READY" /\ doc'[d].status = "READY"
                => job[d].owner = w,
         \A d \in Docs, w \in Workers :
            CommitClaim(w) /\ d \in Condemns(w) => doc[d].status # "READY"
  PROVE  FenceInv' /\ \A d \in Docs : Stays(d)
<1>a. /\ TypeOK /\ LockInv /\ LockInv'
      /\ \A w \in Workers : stage[w] \in Working => held[w].doc \in Docs
  BY DEF IInv, HandInv
<1>b. \A w \in Workers : stage'[w] \in Working => held'[w].doc \in Docs
  BY DEF IInv, HandInv
<1>1. \A v \in Workers : CommitClaim(v) => \A d \in Condemns(v) : doc[d].status # "READY"
  BY <1>a DEF Condemns, TypeOK, ScanTypes
<1>2. ASSUME NEW v \in Workers, CommitPublish(v) PROVE Owns(v)
  <2>1. stage[v] = "replacing" /\ held[v].doc \in Docs
    BY <1>a, <1>2 DEF CommitPublish, Working
  <2>2. lock[held[v].doc] = v /\ doc[held[v].doc].status # "READY"
    BY <1>a, <2>1 DEF LockInv, FenceInv
  <2>3. doc'[held[v].doc].status = "READY"
    BY <1>a, <1>2, <2>1, BecomesEffect DEF CommitPublish, Visible
  <2> QED
    BY <2>1, <2>2, <2>3 DEF Owns
<1>3. \A v \in Workers : CommitFail(v) => doc[held[v].doc].status # "READY"
  BY DEF CommitFail, FenceInv
<1>4. \A d \in Docs : Stays(d)
  BY <1>1, <1>2, <1>3, RowsStay DEF FenceInv
<1>5. ASSUME NEW v \in Workers, stage'[v] \in {"replacing", "recording"}
      PROVE  doc'[held'[v].doc].status # "READY"
  <2> DEFINE d == held'[v].doc
  <2>1. d \in Docs /\ v # None
    BY <1>a, <1>b, <1>5 DEF Working
  <2>2. lock'[d] = v
    BY <1>a, <1>5, <2>1 DEF LockInv
  <2>3. CASE doc[d].status # "READY"
    BY <2>1, <2>2, <2>3, OnlyPublished
  <2>4. CASE doc[d].status = "READY"
    <3>1. lock[d] # v
      BY <1>a, <2>1, <2>4 DEF LockInv, FenceInv
    <3>2. job[d].status = "PROCESSING"
      BY <2>1, <2>2, <3>1, LockHoldsJob
    <3> QED
      BY <2>1, <2>4, <3>2 DEF FenceInv, Unfinished
  <2> QED
    BY <2>3, <2>4
<1> QED
  BY <1>4, <1>5 DEF FenceInv, Stays

-------------------------------------------------------------------------------
(* Theorems.                                                                *)

\* The invariant holds in the beginning,
LEMMA InvInit == Init => IInv
<1> SUFFICES ASSUME Init PROVE IInv
  OBVIOUS
<1>1. TypeOK
  BY TypeInit
<1>2. \A w \in Workers : stage[w] = "idle" /\ condemned[w] = {} /\ scan[w].lapsed = {}
  BY DEF Init, NoScan
<1>3. \A d \in Docs : doc[d].status = "absent" /\ lock[d] = None
  BY DEF Init
<1>4. HandInv /\ LockInv /\ ScanInv
  BY <1>2, <1>3 DEF HandInv, Working, LockInv, ScanInv
<1>5. FileInv /\ ReadyIsIndexed /\ NoDocumentIsStranded /\ FilesFollowDocuments
  BY <1>3 DEF Init, FileInv, ReadyIsIndexed, NoDocumentIsStranded, FilesFollowDocuments, Visible
<1> QED
  BY <1>1, <1>4, <1>5 DEF IInv

\* every step preserves it,
LEMMA InvStep == IInv /\ [Next]_vars => IInv'
  BY TypeStep, HandStep, LockStep, ScanStep, FileInvStep, IndexStep, StrandStep DEF IInv

\* and so it always holds.
LEMMA Invariance == Spec => []IInv
  BY InvInit, InvStep, PTL DEF Spec

\* Types: rows, leases, locks, files and workers are always what the schema and the
\* worker's steps allow; no job has more attempts than MaxAttempts.
THEOREM TypeCorrect == Spec => []TypeOK
<1>1. IInv => TypeOK
  BY DEF IInv
<1> QED
  BY <1>1, Invariance, PTL

\* KnowledgeRepository.publish: whatever workers crash, lose their lease or are
\* overtaken, a document that is READY has the chunks of its present revision.
THEOREM ReadyMeansIndexed == Spec => []ReadyIsIndexed
<1>1. IInv => ReadyIsIndexed
  BY DEF IInv
<1> QED
  BY <1>1, Invariance, PTL

\* KnowledgeRepository.claim: the two statements that end exhausted leases see the
\* same ones, so no document waits for a job that has ended.
THEOREM NoneIsStranded == Spec => []NoDocumentIsStranded
<1>1. IInv => NoDocumentIsStranded
  BY DEF IInv
<1> QED
  BY <1>1, Invariance, PTL

\* KnowledgeWorker.cleanup and sweep: files go with the documents they belong to,
\* never before they are deleted and never after their rows.
THEOREM FilesFollow == Spec => []FilesFollowDocuments
<1>1. IInv => FilesFollowDocuments
  BY DEF IInv
<1> QED
  BY <1>1, Invariance, PTL

\* With one instance of Core, a document that is READY remains so until its owner
\* reindexes or deletes it, for any number of documents and whatever crashes or expires.
THEOREM OneInstanceKeepsIndex ==
  ASSUME NEW w, Workers = {w}
  PROVE  Spec => IndexedStays
<1>1. Init => AloneInv
  BY AloneKept
<1>2. IInv /\ AloneInv /\ [Next]_vars => AloneInv'
  BY AloneKept
<1>3. IInv /\ AloneInv /\ [Next]_vars =>
        [ \A d \in Docs : doc[d].status = "READY" =>
            doc'[d].status \in {"READY", "DELETING"} \/ doc'[d].rev > doc[d].rev ]_vars
  BY AloneKept DEF Stays
<1> QED
  BY <1>1, <1>2, <1>3, Invariance, PTL DEF Spec, IndexedStays

\* With one instance of Core a publication is fenced as the documentation has it: who holds
\* the document's row still owns the lease when it makes the document READY. The violation
\* that TLC finds with two instances needs the second one.
THEOREM OneInstanceIsFenced ==
  ASSUME NEW one, Workers = {one}
  PROVE  Spec => PublicationIsFenced
<1>1. Init => AloneInv
  BY AloneKept
<1>2. IInv /\ AloneInv /\ [Next]_vars => AloneInv'
  BY AloneKept
<1>3. ASSUME IInv, AloneInv, NEW d \in Docs, NEW w \in Workers, lock[d] = w
      PROVE  job[d].owner = w
  BY <1>3 DEF IInv, LockInv, AloneInv
<1>4. IInv /\ AloneInv /\ [Next]_vars =>
        [ \A d \in Docs, w \in Workers :
            lock[d] = w /\ doc[d].status # "READY" /\ doc'[d].status = "READY"
                => job[d].owner = w ]_vars
  BY <1>3
<1> QED
  BY <1>1, <1>2, <1>4, Invariance, PTL DEF Spec, PublicationIsFenced

\* With any number of instances a READY document loses its index in two ways only: a worker
\* whose lease has gone publishes, or a claim condemns what was published since it began.
\* Where neither happens it remains READY until its owner reindexes or deletes it.
THEOREM FencingKeepsIndex ==
  Spec /\ PublicationIsFenced /\ ClaimsAreCurrent => IndexedStays
<1>1. Init => FenceInv
  BY DEF Init, FenceInv
<1>2. ASSUME IInv, IInv', FenceInv, [Next]_vars,
             [ \A d \in Docs, w \in Workers :
                 lock[d] = w /\ doc[d].status # "READY" /\ doc'[d].status = "READY"
                     => job[d].owner = w ]_vars,
             [ \A d \in Docs, w \in Workers :
                 CommitClaim(w) /\ d \in Condemns(w) => doc[d].status # "READY" ]_vars
      PROVE  /\ FenceInv'
             /\ [ \A d \in Docs : doc[d].status = "READY" =>
                    doc'[d].status \in {"READY", "DELETING"} \/ doc'[d].rev > doc[d].rev ]_vars
  <2>1. CASE UNCHANGED vars
    BY <1>2, <2>1 DEF vars, records, worker, FenceInv
  <2>2. CASE ~UNCHANGED vars
    BY <1>2, <2>2, FenceKept DEF Stays
  <2> QED
    BY <2>1, <2>2
<1> QED
  BY <1>1, <1>2, Invariance, PTL DEF Spec, IndexedStays, PublicationIsFenced, ClaimsAreCurrent

===============================================================================
