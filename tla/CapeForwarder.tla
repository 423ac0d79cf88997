---------------------------- MODULE CapeForwarder ----------------------------
(***************************************************************************)
(* nodepot_lite_mongo_forwarder.py: workers claim file_upload events of    *)
(* nodepot_logs, find the stored file, look for a duplicate, submit the    *)
(* file to CAPE and write the outcome back.  Each database call, each      *)
(* file-system look-up and each POST is a step, so workers interleave      *)
(* between them and a worker may die or be outlived by its lock anywhere.  *)
(***************************************************************************)
EXTENDS Naturals, Sequences

CONSTANTS
  Workers,        \* processes running main()
  Contents,       \* sha256 sums
  Names,          \* file names given by the client
  DedupWindow,    \* DEDUP_MINUTES, in ticks; 0: over all time
  LockExpire,     \* LOCK_EXPIRE_MINUTES, in ticks
  MaxUploads, MaxTime, MaxFaults, MaxCrashes, MaxTasks  \* bounds

None == 0

ASSUME ForwarderAssumption ==
  /\ None \notin Contents
  /\ DedupWindow \in Nat /\ LockExpire \in Nat
  /\ MaxUploads \in Nat /\ MaxTime \in Nat /\ MaxFaults \in Nat
  /\ MaxCrashes \in Nat /\ MaxTasks \in Nat

VARIABLES
  logs,       \* the file_upload documents of nodepot_logs, in _id order
  stored,     \* content of the file of each document, None once it is gone
  worker,     \* local state of each worker
  tasks,      \* files CAPE has accepted, in order
  results,    \* cape_results: which content, when
  now, faults, crashes,
  lapsed,     \* history: documents whose lock was taken over as stale, or
              \* released by an update that raised all the same
  misread     \* history: the documents, with the sum, of answers read as
              \* acceptance though CAPE took nothing

workerVars == <<logs, worker, lapsed>>
vars ==
  <<logs, stored, worker, tasks, results, now, faults, crashes, lapsed,
    misread>>

(* What a worker remembers: its document, the file it found for it (by the *)
(* upload it belongs to), the sum it computed, the time of its claim.      *)
Idle == [pc |-> "idle", doc |-> None, file |-> None, sha |-> None,
         claimed |-> 0]

-----------------------------------------------------------------------------
(* Environment                                                             *)

(* The upload handler of server.js has stored a file and logged it.  The   *)
(* content on disk differs from the logged sum when two uploads got the    *)
(* same stored name; it is missing when the container runs without the     *)
(* uploads volume.                                                         *)
Upload ==
  /\ Len(logs) < MaxUploads
  /\ \E sha \in Contents, name \in Names, onDisk \in Contents \cup {None} :
       /\ IF onDisk = sha THEN faults' = faults
          ELSE faults < MaxFaults /\ faults' = faults + 1
       /\ logs' = Append(logs,
            [sha256 |-> sha, filename |-> name, timestamp |-> now,
             forwarded |-> FALSE, dead |-> FALSE, processing |-> FALSE,
             processing_at |-> 0, updated_at |-> None, cape_sha256 |-> None,
             duplicate_of |-> None])
       /\ stored' = Append(stored, onDisk)
  /\ UNCHANGED <<worker, tasks, results, now, crashes, lapsed, misread>>

(* The analysis of an accepted file ends up in cape_results.               *)
CapeReport ==
  /\ \E k \in 1..Len(tasks) : results' = results \cup {<<tasks[k].content, now>>}
  /\ UNCHANGED <<logs, stored, worker, tasks, now, faults, crashes, lapsed,
                 misread>>

Tick ==
  /\ now < MaxTime
  /\ now' = now + 1
  /\ UNCHANGED <<logs, stored, worker, tasks, results, faults, crashes,
                 lapsed, misread>>

-----------------------------------------------------------------------------
(* Claiming                                                                *)

Stale(i) == logs[i].processing_at + LockExpire < now

(* Mutant: the filter does not look at the lock.                           *)
ClaimableThoughLocked == {i \in 1..Len(logs) : ~logs[i].dead}

(* Mutant: a lock is never taken over.                                     *)
ClaimableWithoutReclaim ==
  {i \in 1..Len(logs) : ~logs[i].dead /\ ~logs[i].processing}

(* The filter of claim_next.  The dict literal has two "$or" keys and      *)
(* Python keeps the later one: nothing asks about "forwarded".             *)
Claimable ==
  {i \in 1..Len(logs) : ~logs[i].dead /\ (~logs[i].processing \/ Stale(i))}

(* find_one_and_update, first by _id: one atomic step.                     *)
Claim(w) ==
  /\ worker[w].pc = "idle"
  /\ \E i \in Claimable :
       /\ \A j \in Claimable : i <= j
       /\ logs' = [logs EXCEPT ![i].processing = TRUE, ![i].processing_at = now]
       /\ worker' = [worker EXCEPT ![w] =
                       [pc |-> "locate", doc |-> i, file |-> None,
                        sha |-> None, claimed |-> now]]
       /\ lapsed' = IF logs[i].processing /\ Stale(i)
                       THEN lapsed \cup {i} ELSE lapsed
  /\ UNCHANGED <<stored, tasks, results, now, faults, crashes, misread>>

(* claim_next returns None and the worker sleeps POLL_SECS.                *)
PollNothing(w) ==
  /\ worker[w].pc = "idle" /\ Claimable = {}
  /\ UNCHANGED vars

-----------------------------------------------------------------------------
(* find_file_for_event and sha256_of                                       *)

(* The stored file if it is there, else the newest file whose name bears   *)
(* the client's file name, else a file with the logged sum.                *)
FilesFor(i) ==
  LET there  == {j \in 1..Len(stored) : stored[j] # None}
      named  == {j \in there : logs[j].filename = logs[i].filename}
      same   == {j \in there : stored[j] = logs[i].sha256}
  IN  IF i \in there THEN {i}
      ELSE IF named # {} THEN {j \in named : \A k \in named : k <= j}
      ELSE same

Goto(w, pc) == worker' = [worker EXCEPT ![w].pc = pc]

(* Mutant: the "continue" after the missing file is lost.                  *)
FileMissingFallsThrough(w) ==
  /\ worker[w].pc = "locate" /\ FilesFor(worker[w].doc) = {}
  /\ Goto(w, "dedup")
  /\ UNCHANGED <<logs, stored, tasks, results, now, faults, crashes, lapsed,
                 misread>>

FileMissing(w) ==
  /\ worker[w].pc = "locate" /\ FilesFor(worker[w].doc) = {}
  /\ Goto(w, "bury")
  /\ UNCHANGED <<logs, stored, tasks, results, now, faults, crashes, lapsed,
                 misread>>

(* A sum that cannot be computed is replaced by the logged one.            *)
FileFound(w) ==
  /\ worker[w].pc = "locate"
  /\ \E j \in FilesFor(worker[w].doc), hashed \in BOOLEAN :
       /\ IF hashed THEN faults' = faults
          ELSE faults < MaxFaults /\ faults' = faults + 1
       /\ worker' = [worker EXCEPT
            ![w].pc = "dedup", ![w].file = j,
            ![w].sha = IF hashed THEN stored[j]
                       ELSE logs[worker[w].doc].sha256]
  /\ UNCHANGED <<logs, stored, tasks, results, now, crashes, lapsed, misread>>

-----------------------------------------------------------------------------
(* Duplicates                                                              *)

Recent(t) == DedupWindow = 0 \/ t + DedupWindow >= now

(* Mutant: the window is that of the upload, not of the last update.       *)
AlreadyForwardedByTimestamp(sha) ==
  \/ \E i \in 1..Len(logs) :
       /\ ~logs[i].dead
       /\ logs[i].sha256 = sha \/ logs[i].cape_sha256 = sha
       /\ logs[i].forwarded \/ logs[i].processing
       /\ Recent(logs[i].timestamp)
  \/ \E r \in results : r[1] = sha /\ Recent(r[2])

(* already_forwarded looks at every document, the claimed one included.    *)
AlreadyForwarded(sha) ==
  \/ \E i \in 1..Len(logs) :
       /\ ~logs[i].dead
       /\ logs[i].sha256 = sha \/ logs[i].cape_sha256 = sha
       /\ logs[i].forwarded \/ logs[i].processing
       /\ \/ Recent(logs[i].timestamp)
          \/ logs[i].updated_at # None /\ Recent(logs[i].updated_at)
  \/ \E r \in results : r[1] = sha /\ Recent(r[2])

(* A query that raises lets the submission go on.                          *)
Dedup(w) ==
  /\ worker[w].pc = "dedup"
  /\ \/ /\ faults' = faults
        /\ worker' = [worker EXCEPT ![w].pc =
             IF AlreadyForwarded(worker[w].sha) THEN "duplicate" ELSE "submit"]
     \/ /\ faults < MaxFaults /\ faults' = faults + 1
        /\ Goto(w, "submit")
  /\ UNCHANGED <<logs, stored, tasks, results, now, crashes, lapsed, misread>>

-----------------------------------------------------------------------------
(* Submission and the four ways an attempt is written back                 *)

(* The POST of the file as it is now, which CAPE takes or not, and an      *)
(* answer, or none (or one that is an error).  Any other answer counts as  *)
(* acceptance, a body that is not JSON or names no task included.          *)
Post(w, taken, answered) ==
  /\ IF taken /\ answered THEN faults' = faults
     ELSE faults < MaxFaults /\ faults' = faults + 1
  /\ tasks' = IF taken
              THEN Append(tasks, [doc |-> worker[w].doc, sha |-> worker[w].sha,
                                  content |-> stored[worker[w].file],
                                  at |-> now])
              ELSE tasks
  /\ misread' = IF answered /\ ~taken
                THEN misread \cup {<<worker[w].doc, worker[w].sha>>}
                ELSE misread

(* Mutant: submit_to_cape does not raise for a failed POST.                *)
SubmitUnchecked(w) ==
  /\ worker[w].pc = "submit" /\ Len(tasks) < MaxTasks
  /\ stored[worker[w].file] # None
  /\ \E taken, answered \in BOOLEAN : Post(w, taken, answered)
  /\ Goto(w, "record")
  /\ UNCHANGED <<logs, stored, results, now, crashes, lapsed>>

Submit(w) ==
  /\ worker[w].pc = "submit" /\ Len(tasks) < MaxTasks
  /\ stored[worker[w].file] # None
  /\ \E taken, answered \in BOOLEAN :
       /\ Post(w, taken, answered)
       /\ Goto(w, IF answered THEN "record" ELSE "fail")
  /\ UNCHANGED <<logs, stored, results, now, crashes, lapsed>>

(* The file has gone since it was found: open raises.                      *)
SubmitNoFile(w) ==
  /\ worker[w].pc = "submit" /\ stored[worker[w].file] = None
  /\ Goto(w, "fail")
  /\ UNCHANGED <<logs, stored, tasks, results, now, faults, crashes, lapsed,
                 misread>>

(* The document of a worker, and what each outcome makes of it.            *)
Held(w) == logs[worker[w].doc]

Buried(w) == [Held(w) EXCEPT !.forwarded = FALSE, !.dead = TRUE]

BuriedDuplicate(w) == [Buried(w) EXCEPT !.duplicate_of = worker[w].sha]

Recorded(w) ==
  [Held(w) EXCEPT !.forwarded = TRUE, !.cape_sha256 = worker[w].sha]

(* The update of an outcome, which also takes the lock away.               *)
Write(w, doc) ==
  logs' = [logs EXCEPT ![worker[w].doc] =
             [doc EXCEPT !.processing = FALSE, !.updated_at = now]]

Finish(w, doc) ==
  /\ Write(w, doc)
  /\ worker' = [worker EXCEPT ![w] = Idle]
  /\ UNCHANGED <<stored, tasks, results, now, faults, crashes, lapsed,
                 misread>>

BuryMissing(w) == worker[w].pc = "bury" /\ Finish(w, Buried(w))

(* Mutant: burying a duplicate leaves the mark of an earlier submission.   *)
BuryDuplicateKeepsMark(w) ==
  /\ worker[w].pc = "duplicate"
  /\ Finish(w, [Held(w) EXCEPT !.dead = TRUE, !.duplicate_of = worker[w].sha])

BuryDuplicate(w) ==
  worker[w].pc = "duplicate" /\ Finish(w, BuriedDuplicate(w))

Record(w) == worker[w].pc = "record" /\ Finish(w, Recorded(w))

Fail(w) ==
  worker[w].pc = "fail" /\ Finish(w, [Held(w) EXCEPT !.forwarded = FALSE])

(* An update raises, whether or not it was applied (its answer is lost):   *)
(* applied, it has released the lock of a document the worker is still at. *)
WriteRaises(w, doc, pc) ==
  /\ faults < MaxFaults /\ faults' = faults + 1
  /\ Goto(w, pc)
  /\ \/ Write(w, doc) /\ lapsed' = lapsed \cup {worker[w].doc}
     \/ UNCHANGED <<logs, lapsed>>
  /\ UNCHANGED <<stored, tasks, results, now, crashes, misread>>

(* Where a raising update leads: the one that buries a duplicate is inside *)
(* the "try" of the duplicate check, which goes on to submit; the others   *)
(* end in the branch of a failed submission, an accepted one included.     *)
WriteFails(w) ==
  \E at \in {"bury", "duplicate", "record"} :
    /\ worker[w].pc = at
    /\ WriteRaises(w,
         CASE at = "bury" -> Buried(w)
           [] at = "duplicate" -> BuriedDuplicate(w)
           [] at = "record" -> Recorded(w),
         IF at = "duplicate" THEN "submit" ELSE "fail")

(* The process dies (the update of a failed submission or the claim itself *)
(* raises, or it is killed) and is started again; its claim stays in the   *)
(* database.  If such an update was applied this is Claim and then Crash,  *)
(* or just Fail.                                                           *)
(* The bound leaves time for that lock to expire.                          *)
Crash(w) ==
  /\ worker[w].pc # "idle" /\ crashes < MaxCrashes
  /\ now + LockExpire < MaxTime
  /\ crashes' = crashes + 1
  /\ worker' = [worker EXCEPT ![w] = Idle]
  /\ UNCHANGED <<logs, stored, tasks, results, now, faults, lapsed, misread>>

(* Stored files are removed, or written over by an upload that got the     *)
(* same stored name.                                                       *)
FilesChange ==
  /\ faults < MaxFaults
  /\ faults' = faults + 1
  /\ \E S \in SUBSET (1..Len(stored)), c \in Contents \cup {None} :
       stored' = [j \in 1..Len(stored) |-> IF j \in S THEN c ELSE stored[j]]
  /\ UNCHANGED <<logs, worker, tasks, results, now, crashes, lapsed, misread>>

-----------------------------------------------------------------------------
Init ==
  /\ logs = << >> /\ stored = << >> /\ tasks = << >>
  /\ worker = [w \in Workers |-> Idle]
  /\ results = {} /\ lapsed = {} /\ misread = {}
  /\ now = 1 /\ faults = 0 /\ crashes = 0

WorkerStep(w) ==
  \/ PollNothing(w) \/ Claim(w)
  \/ FileMissing(w) \/ FileFound(w) \/ Dedup(w)
  \/ Submit(w) \/ SubmitNoFile(w)
  \/ BuryMissing(w) \/ BuryDuplicate(w) \/ Record(w) \/ Fail(w)
  \/ WriteFails(w)

Next ==
  \/ \E w \in Workers : WorkerStep(w) \/ Crash(w)
  \/ Upload \/ CapeReport \/ FilesChange \/ Tick

Spec == Init /\ [][Next]_vars

(* Every worker keeps running (a crashed one is restarted), and time       *)
(* passes.  CAPE and the uploads owe nothing.                              *)
FairSpec ==
  /\ Spec
  /\ \A w \in Workers : WF_vars(WorkerStep(w))
  /\ WF_vars(Tick)

-----------------------------------------------------------------------------
(* Properties                                                              *)

UploadDoc ==
  [sha256 : Contents, filename : Names, timestamp : Nat,
   forwarded : BOOLEAN, dead : BOOLEAN, processing : BOOLEAN,
   processing_at : Nat, updated_at : Nat, cape_sha256 : Contents \cup {None},
   duplicate_of : Contents \cup {None}]

Pcs == {"idle", "locate", "bury", "dedup", "duplicate", "submit", "record",
        "fail"}

LogsOK ==
  /\ logs \in Seq(UploadDoc)
  /\ stored \in Seq(Contents \cup {None}) /\ Len(stored) = Len(logs)

WorkersOK ==
  /\ worker \in [Workers -> [pc : Pcs, doc : {None} \cup 1..Len(logs),
                             file : {None} \cup 1..Len(logs),
                             sha : Contents \cup {None}, claimed : Nat]]
  /\ \A w \in Workers :
       /\ (worker[w].pc = "idle") <=> (worker[w].doc = None)
       /\ worker[w].pc \in {"dedup", "duplicate", "submit", "record"}
            => worker[w].sha # None /\ worker[w].file # None

CapeOK ==
  /\ tasks \in Seq([doc : 1..Len(logs), sha : Contents,
                   content : Contents, at : Nat])
  /\ results \subseteq Contents \X Nat
  /\ now \in Nat /\ faults \in Nat /\ crashes \in Nat
  /\ lapsed \subseteq 1..Len(logs)
  /\ misread \subseteq (1..Len(logs)) \X Contents

(* Documents, locks, submissions and reports are well formed, and a worker *)
(* past the hashing of its file holds a document and a sum.                *)
TypeOK == LogsOK /\ WorkersOK /\ CapeOK

(* "Ensures multiple workers don't grab the same doc": two workers work on *)
(* one document only after its lock was taken over as stale, or the update *)
(* that released it raised.                                                *)
ExclusiveUnlessLapsed ==
  \A v, w \in Workers :
    v # w /\ worker[v].doc # None /\ worker[v].doc = worker[w].doc
    => worker[w].doc \in lapsed

(* A document that says forwarded has been accepted by CAPE, with the sum  *)
(* it says, or CAPE answered its submission, with that sum, as if it were. *)
ForwardedWasAccepted ==
  \A i \in 1..Len(logs) :
    logs[i].forwarded =>
      \/ \E k \in 1..Len(tasks) :
           tasks[k].doc = i /\ tasks[k].sha = logs[i].cape_sha256
      \/ <<i, logs[i].cape_sha256>> \in misread

(* Though nothing asks whether a document has been forwarded when it is    *)
(* claimed, a document goes to CAPE a second time only when more than the  *)
(* window has passed or a stale lock was taken over: the document is found *)
(* to be a duplicate of itself.                                            *)
SpacedResubmission ==
  faults = 0 =>
  \A j, k \in 1..Len(tasks) :
    j < k /\ tasks[j].doc = tasks[k].doc
    => \/ tasks[k].doc \in lapsed
       \/ DedupWindow # 0 /\ tasks[j].at + DedupWindow < tasks[k].at

(* A document has one outcome: it is not both forwarded and dead, because  *)
(* burying a document that was claimed again takes its mark away, unless   *)
(* its worker went on after the lock was gone: it outlived the lock, or it *)
(* wrote an outcome and was told it had not.                               *)
OneOutcome ==
  \A i \in 1..Len(logs) :
    logs[i].forwarded /\ logs[i].dead => i \in lapsed

(* Every upload is settled in the end, forwarded or dead, whatever worker  *)
(* dies holding it.                                                        *)
EventuallySettled ==
  \A i \in 1..MaxUploads :
    (i <= Len(logs)) ~>
      (i <= Len(logs) /\ (logs[i].forwarded \/ logs[i].dead))

(* The forwarder as a queue with leases: documents are jobs, a lease       *)
(* lapses when a lock is taken over as stale or released by an update that *)
(* raises, a job is accepted when CAPE took its file or answered so, done  *)
(* when its document says forwarded and discarded when it is dead.         *)
Queue == INSTANCE LeasedQueue WITH
  Workers   <- Workers,
  None      <- None,
  count     <- Len(logs),
  holds     <- [w \in Workers |-> worker[w].doc],
  lapsed    <- lapsed,
  accepted  <- {i \in 1..Len(logs) :
                  \/ \E k \in 1..Len(tasks) : tasks[k].doc = i
                  \/ \E m \in misread : m[1] = i},
  done      <- {i \in 1..Len(logs) : logs[i].forwarded},
  discarded <- {i \in 1..Len(logs) : logs[i].dead}

(* Claims, submissions, write-backs, failures and deaths are, step by      *)
(* step, those of a queue with leases, or nothing a queue can see.         *)
IsLeasedQueue == Queue!Spec

-----------------------------------------------------------------------------
(* What the docstrings say, and the code does not do                       *)

(* "True if the same sha256 was already forwarded recently": with one      *)
(* worker, a document buried as a duplicate has the sum of a submission.   *)
DuplicateOfASubmission ==
  \A i \in 1..Len(logs) :
    logs[i].duplicate_of # None =>
      \E k \in 1..Len(tasks) : tasks[k].sha = logs[i].duplicate_of
=============================================================================
