--------------------------- MODULE KnowledgeIngestion ---------------------------
(***************************************************************************)
(* Personal documents on their way into the search index.                   *)
(*                                                                         *)
(* KnowledgeService stores a file, then a document and its ingestion job.   *)
(* KnowledgeWorker, one per instance of Core, removes deleted documents,    *)
(* claims a job under a lease, embeds the text and publishes the chunks;    *)
(* it also sweeps files no document refers to.  The owner may reindex or    *)
(* delete a document at any point of that.                                  *)
(*                                                                         *)
(* KnowledgeRepository works at READ COMMITTED.  A transaction reads the    *)
(* clock (CURRENT_TIMESTAMP) when it begins, waits for row locks where it   *)
(* updates, and each of its statements sees what was committed when that    *)
(* statement began.  Rows of documents are locked before rows of jobs, and  *)
(* a claim locks the row of the job only.                                   *)
(***************************************************************************)
EXTENDS Naturals, FiniteSets

CONSTANTS
    Docs,
    Workers,      \* instances of Core
    MaxAttempts,  \* 3 in the code
    MaxRevision,  \* bound on reindexing
    MaxCrashes,   \* bound on crashes of Core and failures of its requests
    Owner,        \* the transaction of a request of the owner
    None

ASSUME BoundsAssumption ==
    /\ MaxAttempts \in Nat \ {0} /\ MaxRevision \in Nat \ {0} /\ MaxCrashes \in Nat
ASSUME NamesAssumption == Owner # None /\ {Owner, None} \intersect Workers = {}

VARIABLES
    doc,       \* knowledge_documents: status and ingestion_revision
    job,       \* knowledge_ingestion_jobs
    lease,     \* lease_expires_at: absent, in the future or past
    chunks,    \* the revision of the document's knowledge_chunks, 0 without any
    lock,      \* the transaction that holds the lock of the document's row
    file,      \* the stored file, and whether it is older than a day
    active,    \* the owner's account and Space are enabled
    stage,     \* where each worker stands
    held,      \* the document in hand, its revision and how its indexing failed
    scan,      \* what a claim found at its beginning
    fresh,     \* was the lease valid when its transaction began?
    condemned, \* deleted documents it is cleaning up
    referenced, \* the storage keys a running sweep has read
    crashes

records == <<doc, job, lease, chunks>>
worker  == <<stage, held, scan, fresh, condemned>>
vars == <<records, lock, file, active, worker, referenced, crashes>>

\* DELETING stands for a deleted_at that is set: one statement writes both.
Visible == {"PENDING", "PROCESSING", "READY", "FAILED"}
NoRow   == {"absent", "uploading", "abandoned", "removed"}
Stages  == {"idle", "cleaning", "erased", "cleaned", "claiming", "claimed", "marked",
            "embedding", "publishing", "replacing", "failing", "recording"}

NoJob == [status |-> "none", rev |-> 0, attempts |-> 0, owner |-> None, due |-> FALSE]
NewJob(rev) == [status |-> "PENDING", rev |-> rev, attempts |-> 0, owner |-> None, due |-> TRUE]
Nothing == [doc |-> None, rev |-> 0, code |-> "none"]
NoScan == [lapsed |-> {}, exhausted |-> {}]

DocTypes  == [status : Visible \union NoRow \union {"DELETING"}, rev : 0..MaxRevision]
JobTypes  == [status : {"none", "PENDING", "PROCESSING", "DONE", "FAILED"},
              rev : 0..MaxRevision, attempts : 0..MaxAttempts,
              owner : Workers \union {None}, due : BOOLEAN]
HeldTypes == [doc : Docs \union {None}, rev : 0..MaxRevision,
              code : {"none", "passing", "lasting"}]
ScanTypes == [lapsed : SUBSET Docs, exhausted : SUBSET Docs]

TypeOK ==
    /\ doc \in [Docs -> DocTypes]
    /\ job \in [Docs -> JobTypes]
    /\ lease \in [Docs -> {"none", "valid", "expired"}]
    /\ chunks \in [Docs -> 0..MaxRevision]
    /\ lock \in [Docs -> Workers \union {Owner, None}]
    /\ file \in [Docs -> {"none", "new", "old", "deleted"}]
    /\ active \in BOOLEAN
    /\ stage \in [Workers -> Stages]
    /\ held \in [Workers -> HeldTypes]
    /\ scan \in [Workers -> ScanTypes]
    /\ fresh \in [Workers -> BOOLEAN]
    /\ condemned \in [Workers -> SUBSET Docs]
    /\ referenced \in (SUBSET Docs) \union {None}
    /\ crashes \in 0..MaxCrashes

Init ==
    /\ doc = [d \in Docs |-> [status |-> "absent", rev |-> 0]]
    /\ job = [d \in Docs |-> NoJob]
    /\ lease = [d \in Docs |-> "none"]
    /\ chunks = [d \in Docs |-> 0]
    /\ lock = [d \in Docs |-> None]
    /\ file = [d \in Docs |-> "none"]
    /\ active = TRUE
    /\ stage = [w \in Workers |-> "idle"]
    /\ held = [w \in Workers |-> Nothing]
    /\ scan = [w \in Workers |-> NoScan]
    /\ fresh = [w \in Workers |-> FALSE]
    /\ condemned = [w \in Workers |-> {}]
    /\ referenced = None
    /\ crashes = 0

Becomes(d, status) == doc' = [doc EXCEPT ![d].status = status]
Goes(w, to) == stage' = [stage EXCEPT ![w] = to]
Unlocked(d) == lock[d] = None

-------------------------------------------------------------------------------
(* KnowledgeService: upload, reindex, delete.                               *)

\* The file is stored before anything refers to it.
StoreFile(d) ==
    /\ doc[d].status = "absent" /\ active
    /\ Becomes(d, "uploading")
    /\ file' = [file EXCEPT ![d] = "new"]
    /\ UNCHANGED <<job, lease, chunks, lock, active, worker, referenced, crashes>>

Insert(d) ==
    /\ doc[d].status = "uploading"
    /\ doc' = [doc EXCEPT ![d] = [status |-> "PENDING", rev |-> 1]]
    /\ job' = [job EXCEPT ![d] = NewJob(1)]
    /\ UNCHANGED <<lease, chunks, lock, file, active, worker, referenced, crashes>>

\* Text that cannot be extracted, the quota or the database: finally deletes the file.
RejectUpload(d) ==
    /\ doc[d].status = "uploading"
    /\ Becomes(d, "abandoned")
    /\ file' = [file EXCEPT ![d] = "deleted"]
    /\ UNCHANGED <<job, lease, chunks, lock, active, worker, referenced, crashes>>

CrashUpload(d) ==
    /\ doc[d].status = "uploading" /\ crashes < MaxCrashes
    /\ Becomes(d, "abandoned")
    /\ crashes' = crashes + 1
    /\ UNCHANGED <<job, lease, chunks, lock, file, active, worker, referenced>>

\* The UPDATE of the document holds its row until the job is reset too.
BeginReindex(d) ==
    /\ doc[d].status \in Visible /\ active
    /\ doc[d].rev < MaxRevision
    /\ Unlocked(d)
    /\ lock' = [lock EXCEPT ![d] = Owner]
    /\ UNCHANGED <<records, file, active, worker, referenced, crashes>>

CommitReindex(d) ==
    /\ lock[d] = Owner
    /\ LET rev == doc[d].rev + 1 IN
       /\ doc' = [doc EXCEPT ![d] = [status |-> "PENDING", rev |-> rev]]
       /\ job' = [job EXCEPT ![d] = NewJob(rev)]
    /\ lease' = [lease EXCEPT ![d] = "none"]
    /\ lock' = [lock EXCEPT ![d] = None]
    /\ UNCHANGED <<chunks, file, active, worker, referenced, crashes>>

\* The transaction fails, or Core does.
AbortReindex(d) ==
    /\ lock[d] = Owner /\ crashes < MaxCrashes
    /\ lock' = [lock EXCEPT ![d] = None]
    /\ crashes' = crashes + 1
    /\ UNCHANGED <<records, file, active, worker, referenced>>

Tombstone(d) ==
    /\ doc[d].status \in Visible /\ active
    /\ Unlocked(d)
    /\ Becomes(d, "DELETING")
    /\ UNCHANGED <<job, lease, chunks, lock, file, active, worker, referenced, crashes>>

-------------------------------------------------------------------------------
(* KnowledgeWorker.cleanup: the file, then the row.                         *)

\* Altered variants of the code stand before the definition they alter; no
\* specification uses them.
StillStored == {d \in Docs : doc[d].status = "DELETING" /\ file[d] # "deleted"}

Deleting == {d \in Docs : doc[d].status = "DELETING"}

BeginCleanup(w) ==
    /\ stage[w] = "idle"
    /\ condemned' = [condemned EXCEPT ![w] = Deleting]
    /\ Goes(w, IF Deleting = {} THEN "cleaned" ELSE "cleaning")
    /\ UNCHANGED <<records, lock, file, active, held, scan, fresh, referenced, crashes>>

NextCondemned(w, d) ==
    /\ condemned' = [condemned EXCEPT ![w] = @ \ {d}]
    /\ Goes(w, IF condemned[w] = {d} THEN "cleaned" ELSE "cleaning")

EraseFile(w) ==
    /\ stage[w] = "cleaning"
    /\ \E d \in condemned[w] :
          /\ file' = [file EXCEPT ![d] = "deleted"]
          /\ held' = [held EXCEPT ![w].doc = d]
    /\ Goes(w, "erased")
    /\ UNCHANGED <<records, lock, active, scan, fresh, condemned, referenced, crashes>>

\* The foreign keys cascade to the job and the chunks.
RemoveRow(w) ==
    /\ stage[w] = "erased"
    /\ LET d == held[w].doc IN
       /\ Unlocked(d)
       /\ IF doc[d].status = "DELETING" THEN Becomes(d, "removed") ELSE UNCHANGED doc
       /\ job' = [job EXCEPT ![d] = NoJob]
       /\ lease' = [lease EXCEPT ![d] = "none"]
       /\ chunks' = [chunks EXCEPT ![d] = 0]
       /\ NextCondemned(w, d)
    /\ held' = [held EXCEPT ![w] = Nothing]
    /\ UNCHANGED <<lock, file, active, scan, fresh, referenced, crashes>>

-------------------------------------------------------------------------------
(* KnowledgeRepository.claim.                                               *)

\* The clock of the transaction is read here, and the first UPDATE takes its
\* snapshot of the jobs.
BeginClaim(w) ==
    /\ stage[w] = "cleaned"
    /\ LET lapsed == {d \in Docs : job[d].status = "PROCESSING" /\ lease[d] = "expired"} IN
       scan' = [scan EXCEPT ![w] =
           [lapsed |-> lapsed,
            exhausted |-> {d \in lapsed : job[d].attempts >= MaxAttempts}]]
    /\ Goes(w, "claiming")
    /\ UNCHANGED <<records, lock, file, active, held, fresh, condemned, referenced, crashes>>

Lapsed(w, d) == d \in scan[w].lapsed /\ job[d].status = "PROCESSING" /\ lease[d] = "expired"

NeverExhausted(w) == {}

\* The second UPDATE looks at the jobs again.
Exhausted(w) == {d \in Docs : Lapsed(w, d) /\ job[d].attempts >= MaxAttempts}

NoneCondemned(w) == {}

\* The first one waits for the rows of the documents and then checks those again,
\* but not the jobs.
Condemns(w) == {d \in scan[w].exhausted : doc[d].status \in Visible}

CandidatesWithoutLimit(w) ==
    {d \in Docs :
        /\ doc[d].status \in Visible /\ active
        /\ (job[d].status = "PENDING" /\ job[d].due) \/ Lapsed(w, d)}

Candidates(w) ==
    {d \in Docs :
        /\ doc[d].status \in Visible /\ active
        /\ job[d].attempts < MaxAttempts
        /\ (job[d].status = "PENDING" /\ job[d].due) \/ Lapsed(w, d)}

Failing(w) ==
    [d \in Docs |-> IF d \in Exhausted(w) THEN [job[d] EXCEPT !.status = "FAILED"] ELSE job[d]]

Leased(j, w) == [j EXCEPT !.status = "PROCESSING", !.attempts = @ + 1, !.owner = w]

\* A lease granted now ends after every claim that has begun.
ScansAfterLeasing(w, leased) ==
    [v \in Workers |-> IF v = w THEN NoScan ELSE [scan[v] EXCEPT !.lapsed = @ \ leased]]

\* Exhausted leases become failures; then one candidate whose job is not locked
\* (FOR UPDATE OF j SKIP LOCKED LIMIT 1) is leased, or none.
CommitClaim(w) ==
    /\ stage[w] = "claiming"
    /\ \A d \in Condemns(w) : Unlocked(d)
    /\ doc' = [d \in Docs |->
           IF d \in Condemns(w) THEN [doc[d] EXCEPT !.status = "FAILED"] ELSE doc[d]]
    /\ \/ \E d \in Candidates(w) :
             /\ job' = [Failing(w) EXCEPT ![d] = Leased(@, w)]
             /\ lease' = [lease EXCEPT ![d] = "valid"]
             /\ held' = [held EXCEPT ![w] = [doc |-> d, rev |-> job[d].rev, code |-> "none"]]
             /\ scan' = ScansAfterLeasing(w, {d})
             /\ Goes(w, "claimed")
       \/ /\ \A d \in Candidates(w) : ~Unlocked(d)
          /\ job' = Failing(w)
          /\ scan' = ScansAfterLeasing(w, {})
          /\ Goes(w, "idle")
          /\ UNCHANGED <<lease, held>>
    /\ UNCHANGED <<chunks, lock, file, active, fresh, condemned, referenced, crashes>>

-------------------------------------------------------------------------------
(* KnowledgeWorker.runOnce with the claimed job.                            *)

\* The document is as it was claimed and the job leased to w, as a transaction
\* sees it that began in time.
Fenced(w, inTime) ==
    LET d == held[w].doc IN
    /\ doc[d].status \in Visible /\ doc[d].rev = held[w].rev
    /\ job[d].status = "PROCESSING" /\ job[d].owner = w /\ inTime

\* KnowledgeRepository.alive.
Alive(w, inTime) == Fenced(w, inTime) /\ active

InTime(w) == lease[held[w].doc] = "valid"

\* Back to the next tick, holding nothing.
GiveUp(w) ==
    /\ Goes(w, "idle")
    /\ held' = [held EXCEPT ![w] = Nothing]
    /\ fresh' = [fresh EXCEPT ![w] = FALSE]

MarkProcessing(w) ==
    /\ stage[w] = "claimed"
    /\ LET d == held[w].doc IN
       /\ Unlocked(d)
       /\ IF Fenced(w, InTime(w))
          THEN Becomes(d, "PROCESSING") /\ Goes(w, "marked") /\ UNCHANGED <<held, fresh>>
          ELSE GiveUp(w) /\ UNCHANGED doc
    /\ UNCHANGED <<job, lease, chunks, lock, file, active, scan, condemned, referenced, crashes>>

\* Once the text is extracted, and before each batch, the lease is renewed for its
\* full length; if that fails the worker stops without a word.
Renew(w) ==
    /\ stage[w] \in {"marked", "embedding"}
    /\ stage[w] = "marked" => file[held[w].doc] # "deleted"
    /\ IF Alive(w, InTime(w)) THEN Goes(w, "embedding") /\ UNCHANGED <<held, fresh>>
       ELSE GiveUp(w)
    /\ UNCHANGED <<records, lock, file, active, scan, condemned, referenced, crashes>>

BeginPublish(w) ==
    /\ stage[w] = "embedding" /\ active
    /\ fresh' = [fresh EXCEPT ![w] = InTime(w)]
    /\ Goes(w, "publishing")
    /\ UNCHANGED <<records, lock, file, active, held, scan, condemned, referenced, crashes>>

LockWithoutWaiting(w) ==
    /\ stage[w] = "publishing"
    /\ IF Alive(w, fresh[w])
       THEN Goes(w, "replacing") /\ UNCHANGED <<held, fresh>>
       ELSE GiveUp(w)
    /\ UNCHANGED <<records, lock, file, active, scan, condemned, referenced, crashes>>

\* SELECT ... FOR UPDATE of the document, and alive; false commits nothing.
LockToPublish(w) ==
    /\ stage[w] = "publishing"
    /\ LET d == held[w].doc IN
       /\ Unlocked(d)
       /\ IF Alive(w, fresh[w])
          THEN /\ lock' = [lock EXCEPT ![d] = w]
               /\ Goes(w, "replacing")
               /\ UNCHANGED <<held, fresh>>
          ELSE GiveUp(w) /\ UNCHANGED lock
    /\ UNCHANGED <<records, file, active, scan, condemned, referenced, crashes>>

Release(w) == lock' = [d \in Docs |-> IF lock[d] = w THEN None ELSE lock[d]]

OwnsNothing(w) == FALSE

\* ... WHERE lease_owner=:lease, with the lease of w.
Owns(w) == job[held[w].doc].owner = w

\* The chunks are replaced, and the job ends if it is still leased to w.
CommitPublish(w) ==
    /\ stage[w] = "replacing"
    /\ LET d == held[w].doc IN
       /\ chunks' = [chunks EXCEPT ![d] = held[w].rev]
       /\ Becomes(d, "READY")
       /\ IF Owns(w)
          THEN /\ job' = [job EXCEPT ![d].status = "DONE", ![d].owner = None]
               /\ lease' = [lease EXCEPT ![d] = "none"]
          ELSE UNCHANGED <<job, lease>>
    /\ Release(w)
    /\ GiveUp(w)
    /\ UNCHANGED <<file, active, scan, condemned, referenced, crashes>>

\* Extraction, authorization, embedding or the publication itself throws.  A
\* "passing" code is worth another attempt.
BeginFail(w, code) ==
    /\ stage[w] \in {"marked", "embedding", "replacing"}
    /\ code = "passing" => stage[w] = "embedding"
    /\ held' = [held EXCEPT ![w].code = code]
    /\ fresh' = [fresh EXCEPT ![w] = InTime(w)]
    /\ Release(w)
    /\ Goes(w, "failing")
    /\ UNCHANGED <<records, file, active, scan, condemned, referenced, crashes>>

LockToFail(w) ==
    /\ stage[w] = "failing"
    /\ LET d == held[w].doc IN
       /\ Unlocked(d)
       /\ IF Alive(w, fresh[w])
          THEN /\ lock' = [lock EXCEPT ![d] = w]
               /\ Goes(w, "recording")
               /\ UNCHANGED <<held, fresh>>
          ELSE GiveUp(w) /\ UNCHANGED lock
    /\ UNCHANGED <<records, file, active, scan, condemned, referenced, crashes>>

\* single() throws, and everything is rolled back, if the lease went meanwhile.
CommitFail(w) ==
    /\ stage[w] = "recording"
    /\ LET d == held[w].doc
           again == held[w].code = "passing" /\ job[d].attempts < MaxAttempts
           status == IF again THEN "PENDING" ELSE "FAILED"
       IN IF Owns(w)
          THEN /\ job' = [job EXCEPT ![d] =
                      [@ EXCEPT !.status = status, !.owner = None, !.due = FALSE]]
               /\ lease' = [lease EXCEPT ![d] = "none"]
               /\ Becomes(d, status)
          ELSE UNCHANGED <<job, lease, doc>>
    /\ Release(w)
    /\ GiveUp(w)
    /\ UNCHANGED <<chunks, file, active, scan, condemned, referenced, crashes>>

Crash(w) ==
    /\ stage[w] # "idle" /\ crashes < MaxCrashes
    /\ crashes' = crashes + 1
    /\ GiveUp(w)
    /\ scan' = [scan EXCEPT ![w] = NoScan]
    /\ condemned' = [condemned EXCEPT ![w] = {}]
    /\ Release(w)
    /\ UNCHANGED <<records, file, active, referenced>>

-------------------------------------------------------------------------------
(* KnowledgeWorker.sweep and LocalKnowledgeObjectStore.sweep.               *)

BeginSweep ==
    /\ referenced = None
    /\ referenced' = {d \in Docs : doc[d].status \notin NoRow}
    /\ UNCHANGED <<records, lock, file, active, worker, crashes>>

AnyAge(d) == file[d] \in {"new", "old"}

Sweepable(d) == file[d] = "old"

CommitSweep ==
    /\ referenced # None
    /\ file' = [d \in Docs |->
           IF Sweepable(d) /\ d \notin referenced THEN "deleted" ELSE file[d]]
    /\ referenced' = None
    /\ UNCHANGED <<records, lock, active, worker, crashes>>

-------------------------------------------------------------------------------
(* Time, and the administrator.                                             *)

\* Ten minutes without a renewal.
Expire(d) ==
    /\ lease[d] = "valid"
    /\ lease' = [lease EXCEPT ![d] = "expired"]
    /\ UNCHANGED <<doc, job, chunks, lock, file, active, worker, referenced, crashes>>

\* Thirty seconds after a passing failure.
ComeDue(d) ==
    /\ job[d].status = "PENDING" /\ ~job[d].due
    /\ job' = [job EXCEPT ![d].due = TRUE]
    /\ UNCHANGED <<doc, lease, chunks, lock, file, active, worker, referenced, crashes>>

\* No upload and no sweep takes a day.
Age(d) ==
    /\ file[d] = "new" /\ doc[d].status # "uploading" /\ referenced = None
    /\ file' = [file EXCEPT ![d] = "old"]
    /\ UNCHANGED <<records, lock, active, worker, referenced, crashes>>

Suspend ==
    /\ active' = ~active
    /\ UNCHANGED <<records, lock, file, worker, referenced, crashes>>

-------------------------------------------------------------------------------
Use(d) ==
    \/ StoreFile(d) \/ Insert(d) \/ RejectUpload(d) \/ CrashUpload(d)
    \/ BeginReindex(d) \/ CommitReindex(d) \/ AbortReindex(d)
    \/ Tombstone(d)

\* One tick of the scheduler, step by step.
RunOnce(w) ==
    \/ BeginCleanup(w) \/ EraseFile(w) \/ RemoveRow(w)
    \/ BeginClaim(w) \/ CommitClaim(w) \/ MarkProcessing(w) \/ Renew(w)
    \/ BeginPublish(w) \/ LockToPublish(w) \/ CommitPublish(w)
    \/ \E code \in {"passing", "lasting"} : BeginFail(w, code)
    \/ LockToFail(w) \/ CommitFail(w)

Time(d) == Expire(d) \/ ComeDue(d) \/ Age(d)

Next ==
    \/ \E d \in Docs : Use(d) \/ Time(d)
    \/ \E w \in Workers : RunOnce(w) \/ Crash(w)
    \/ BeginSweep \/ CommitSweep \/ Suspend

Spec == Init /\ [][Next]_vars

-------------------------------------------------------------------------------
(* Safety.                                                                  *)

\* A document that is READY has the chunks of its present revision and no others:
\* neither a late worker nor a reindex in between leaves it without an index.
ReadyIsIndexed ==
    \A d \in Docs : doc[d].status = "READY" => chunks[d] = doc[d].rev

\* A document that waits or is being processed has a job somebody will still claim
\* or finish, whatever became of the workers that had it.
NoDocumentIsStranded ==
    \A d \in Docs : doc[d].status \in {"PENDING", "PROCESSING"} =>
        job[d].status \in {"PENDING", "PROCESSING"}

\* Cleaning up and sweeping never take the file of a document that is not deleted,
\* and no document goes before its file.
FilesFollowDocuments ==
    \A d \in Docs :
        /\ doc[d].status \in Visible => file[d] \in {"new", "old"}
        /\ doc[d].status = "removed" => file[d] = "deleted"

\* With one instance of Core, a document that is READY remains so until its owner
\* reindexes or deletes it.
IndexedStays ==
    [][\A d \in Docs : doc[d].status = "READY" =>
          doc'[d].status \in {"READY", "DELETING"} \/ doc'[d].rev > doc[d].rev]_vars

\* "Expired leases can be reclaimed, with [...] fencing on publication": who
\* publishes holds the lease.
PublicationIsFenced ==
    [][\A d \in Docs, w \in Workers :
          lock[d] = w /\ doc[d].status # "READY" /\ doc'[d].status = "READY"
              => job[d].owner = w]_vars

-------------------------------------------------------------------------------
(* Liveness.  The scheduler of every instance goes on and time passes; what  *)
(* the owner and the administrator do is theirs to choose.                   *)

FairSpec ==
    /\ Spec
    /\ \A w \in Workers : WF_vars(RunOnce(w))
    /\ \A d \in Docs : WF_vars(Expire(d) \/ ComeDue(d)) /\ SF_vars(Age(d)) /\ WF_vars(CommitReindex(d))
    /\ WF_vars(BeginSweep) /\ WF_vars(CommitSweep)

\* Every job ends, after the last worker crashed and however often leases expire,
\* unless the document is deleted or its owner suspended.
JobsEnd ==
    \A d \in Docs : job[d].status \in {"PENDING", "PROCESSING"} ~>
        job[d].status \in {"none", "DONE", "FAILED"} \/ doc[d].status = "DELETING" \/ ~active

\* What is deleted, or never finished uploading, leaves no file and no row behind.
NothingIsLeftBehind ==
    \A d \in Docs : doc[d].status \in {"DELETING", "abandoned"} ~>
        doc[d].status \in {"removed", "abandoned"} /\ file[d] = "deleted"

===============================================================================
