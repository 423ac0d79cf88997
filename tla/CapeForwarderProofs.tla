------------------------- MODULE CapeForwarderProofs -------------------------
(***************************************************************************)
(* Proofs about CapeForwarder, for every set of workers, every window and  *)
(* lock time, and every bound.                                             *)
(***************************************************************************)
EXTENDS CapeForwarder, SequenceTheorems, TLAPS

WorkerRecord ==
  [pc : Pcs, doc : {None} \cup 1..Len(logs), file : {None} \cup 1..Len(logs),
   sha : Contents \cup {None}, claimed : Nat]

(* What TypeOK says of one worker.                                         *)
WorkerFits(r) ==
  /\ r \in WorkerRecord
  /\ (r.pc = "idle") <=> (r.doc = None)
  /\ r.pc \in {"dedup", "duplicate", "submit", "record"}
       => r.sha # None /\ r.file # None

-----------------------------------------------------------------------------
(* Type correctness                                                        *)

(* The length of the log is a number, and its elements are documents.      *)
LEMMA LogFacts ==
  ASSUME LogsOK
  PROVE  /\ Len(logs) \in Nat /\ Len(stored) = Len(logs)
         /\ \A i \in 1..Len(logs) :
              logs[i] \in UploadDoc /\ stored[i] \in Contents \cup {None}
<1>1. Len(logs) \in Nat
  BY LenProperties DEF LogsOK
<1>2. \A i \in 1..Len(logs) : logs[i] \in UploadDoc
  BY ElementOfSeq DEF LogsOK
<1>3. \A i \in 1..Len(stored) : stored[i] \in Contents \cup {None}
  BY ElementOfSeq DEF LogsOK
<1> QED  BY <1>1, <1>2, <1>3 DEF LogsOK

(* WorkersOK is about each worker.                                         *)
LEMMA WorkersFit ==
  WorkersOK <=> /\ worker \in [Workers -> WorkerRecord]
                /\ \A w \in Workers : WorkerFits(worker[w])
  BY DEF WorkersOK, WorkerFits, WorkerRecord

(* Giving one worker a fitting state keeps the workers well formed.        *)
LEMMA OneWorker ==
  ASSUME WorkersOK, UNCHANGED Len(logs),
         NEW w \in Workers, NEW r, WorkerFits(r),
         worker' = [worker EXCEPT ![w] = r]
  PROVE  WorkersOK'
<1>1. worker' \in [Workers -> WorkerRecord]
  BY WorkersFit DEF WorkerFits
<1>2. \A v \in Workers : WorkerFits(worker'[v])
  BY WorkersFit
<1> QED  BY <1>1, <1>2 DEF WorkersOK, WorkerFits, WorkerRecord

(* So does moving it on to a label that asks for nothing it lacks.         *)
LEMMA Moved ==
  ASSUME WorkersOK, UNCHANGED Len(logs),
         NEW w \in Workers, NEW pc \in Pcs \ {"idle"}, Goto(w, pc),
         worker[w].pc # "idle",
         pc \in {"bury", "fail"} \/ worker[w].pc \in {"dedup", "duplicate", "submit"}
  PROVE  WorkersOK'
<1> DEFINE r == [worker[w] EXCEPT !.pc = pc]
<1>1. WorkerFits(worker[w]) /\ worker[w] \in WorkerRecord
  BY WorkersFit
<1>2. WorkerFits(r)
  BY <1>1 DEF WorkerFits, WorkerRecord
<1>3. worker' = [worker EXCEPT ![w] = r]
  BY DEF Goto
<1> HIDE DEF r
<1> QED  BY <1>2, <1>3, OneWorker

(* Dropping a document leaves an idle worker.                              *)
LEMMA Dropped ==
  ASSUME WorkersOK, UNCHANGED Len(logs), NEW w \in Workers,
         worker' = [worker EXCEPT ![w] = Idle]
  PROVE  WorkersOK'
<1>1. WorkerFits(Idle)
  BY DEF WorkerFits, WorkerRecord, Idle, Pcs, None
<1> QED  BY <1>1, OneWorker

(* The document of a worker, and what the outcomes make of it.             *)
LEMMA OutcomeDocs ==
  ASSUME TypeOK, NEW w \in Workers, worker[w].pc # "idle"
  PROVE  /\ worker[w].doc \in 1..Len(logs) /\ Held(w) = logs[worker[w].doc]
         /\ Held(w) \in UploadDoc
         /\ \A d \in {Buried(w), BuriedDuplicate(w)} :
              d \in UploadDoc /\ ~d.forwarded /\ d.dead /\ d.sha256 = Held(w).sha256
         /\ LET d == Recorded(w) IN
            /\ d \in UploadDoc /\ d.forwarded /\ d.dead = Held(w).dead
            /\ d.cape_sha256 = worker[w].sha /\ d.sha256 = Held(w).sha256
         /\ LET d == [Held(w) EXCEPT !.forwarded = FALSE] IN
            /\ d \in UploadDoc /\ ~d.forwarded /\ d.dead = Held(w).dead
            /\ d.sha256 = Held(w).sha256
<1>1. WorkerFits(worker[w]) /\ worker[w] \in WorkerRecord
  BY WorkersFit DEF TypeOK
<1>2. worker[w].doc \in 1..Len(logs) /\ worker[w].sha \in Contents \cup {None}
  BY <1>1 DEF WorkerFits, WorkerRecord
<1>3. Held(w) = logs[worker[w].doc] /\ Held(w) \in UploadDoc
  BY <1>2, LogFacts DEF TypeOK, Held
<1>4. /\ Buried(w) \in UploadDoc /\ Buried(w).forwarded = FALSE
      /\ Buried(w).dead = TRUE /\ Buried(w).sha256 = Held(w).sha256
  BY <1>3 DEF Buried, UploadDoc
<1>5. LET d == BuriedDuplicate(w) IN
      /\ d \in UploadDoc /\ d.forwarded = FALSE /\ d.dead = TRUE
      /\ d.sha256 = Held(w).sha256
  BY <1>2, <1>4 DEF BuriedDuplicate, UploadDoc
<1>6. LET d == Recorded(w) IN
      /\ d \in UploadDoc /\ d.forwarded = TRUE /\ d.dead = Held(w).dead
      /\ d.cape_sha256 = worker[w].sha /\ d.sha256 = Held(w).sha256
  BY <1>2, <1>3 DEF Recorded, UploadDoc
<1>7. LET d == [Held(w) EXCEPT !.forwarded = FALSE] IN
      /\ d \in UploadDoc /\ d.forwarded = FALSE /\ d.dead = Held(w).dead
      /\ d.sha256 = Held(w).sha256
  BY <1>3 DEF UploadDoc
<1> QED  BY <1>2, <1>3, <1>4, <1>5, <1>6, <1>7

(* What an update does to the documents.                                   *)
LEMMA WriteEffect ==
  ASSUME TypeOK, NEW w \in Workers, worker[w].pc # "idle",
         NEW doc \in UploadDoc, Write(w, doc)
  PROVE  /\ worker[w].doc \in 1..Len(logs)
         /\ logs' \in Seq(UploadDoc) /\ Len(logs') = Len(logs)
         /\ logs'[worker[w].doc] =
              [doc EXCEPT !.processing = FALSE, !.updated_at = now]
         /\ logs'[worker[w].doc].forwarded = doc.forwarded
         /\ logs'[worker[w].doc].dead = doc.dead
         /\ logs'[worker[w].doc].cape_sha256 = doc.cape_sha256
         /\ logs'[worker[w].doc].sha256 = doc.sha256
         /\ logs'[worker[w].doc].updated_at = now
         /\ \A i \in 1..Len(logs) : i # worker[w].doc => logs'[i] = logs[i]
<1> DEFINE i == worker[w].doc
           d == [doc EXCEPT !.processing = FALSE, !.updated_at = now]
<1>1. i \in 1..Len(logs) /\ now \in Nat
  BY DEF TypeOK, WorkersOK, CapeOK
<1>2. /\ d \in UploadDoc /\ d.forwarded = doc.forwarded
      /\ d.dead = doc.dead /\ d.cape_sha256 = doc.cape_sha256
      /\ d.sha256 = doc.sha256 /\ d.updated_at = now
  BY <1>1 DEF UploadDoc
<1>3. logs' = [logs EXCEPT ![i] = d]
  BY DEF Write
<1>4. d = [doc EXCEPT !.processing = FALSE, !.updated_at = now]
  OBVIOUS
<1> HIDE DEF d
<1>5. /\ logs' \in Seq(UploadDoc) /\ Len(logs') = Len(logs) /\ logs'[i] = d
      /\ \A j \in 1..Len(logs) : j # i => logs'[j] = logs[j]
  BY <1>1, <1>2, <1>3, ExceptSeq DEF TypeOK, LogsOK
<1> QED  BY <1>1, <1>2, <1>4, <1>5

(* Writing a document back keeps everything well formed.                   *)
LEMMA FinishType ==
  ASSUME TypeOK, NEW w \in Workers, worker[w].pc # "idle",
         NEW doc \in UploadDoc, Finish(w, doc)
  PROVE  TypeOK'
<1>1. logs' \in Seq(UploadDoc) /\ Len(logs') = Len(logs)
  BY WriteEffect DEF Finish
<1>2. LogsOK'
  BY <1>1 DEF Finish, TypeOK, LogsOK
<1>3. WorkersOK'
  BY <1>1, Dropped DEF Finish, TypeOK
<1>4. CapeOK'
  BY <1>1 DEF Finish, TypeOK, CapeOK
<1> QED  BY <1>2, <1>3, <1>4 DEF TypeOK

LEMMA InitType == ForwarderAssumption /\ Init => TypeOK
<1> SUFFICES ASSUME ForwarderAssumption, Init PROVE TypeOK
  OBVIOUS
<1> USE DEF Init
<1>1. LogsOK
  BY EmptySeq DEF LogsOK
<1>2. WorkersOK
  BY DEF WorkersOK, Idle, Pcs, None
<1>3. CapeOK
  BY EmptySeq DEF CapeOK
<1> QED  BY <1>1, <1>2, <1>3 DEF TypeOK

(* An upload adds a document; ids of documents remain ids.                 *)
LEMMA UploadType ==
  ASSUME ForwarderAssumption, TypeOK, Upload
  PROVE  TypeOK'
<1>1. PICK sha \in Contents, name \in Names, onDisk \in Contents \cup {None} :
        /\ faults' = faults \/ faults' = faults + 1
        /\ logs' = Append(logs,
            [sha256 |-> sha, filename |-> name, timestamp |-> now,
             forwarded |-> FALSE, dead |-> FALSE, processing |-> FALSE,
             processing_at |-> 0, updated_at |-> None, cape_sha256 |-> None,
             duplicate_of |-> None])
        /\ stored' = Append(stored, onDisk)
  BY DEF Upload
<1>2. now \in Nat /\ faults' \in Nat
  BY <1>1 DEF TypeOK, CapeOK
<1>3. [sha256 |-> sha, filename |-> name, timestamp |-> now,
       forwarded |-> FALSE, dead |-> FALSE, processing |-> FALSE,
       processing_at |-> 0, updated_at |-> None, cape_sha256 |-> None,
       duplicate_of |-> None] \in UploadDoc
  BY <1>2 DEF UploadDoc, None
<1>4. /\ logs' \in Seq(UploadDoc) /\ Len(logs') = Len(logs) + 1
      /\ stored' \in Seq(Contents \cup {None}) /\ Len(stored') = Len(logs) + 1
  BY <1>1, <1>3, AppendProperties DEF TypeOK, LogsOK
<1>5. 1..Len(logs) \subseteq 1..Len(logs')
  BY <1>4, LogFacts DEF TypeOK
<1>6. WorkersOK'
  BY <1>5 DEF Upload, TypeOK, WorkersOK
<1>7. CapeOK'
  <2>1. [doc : 1..Len(logs), sha : Contents, content : Contents, at : Nat]
          \subseteq
        [doc : 1..Len(logs'), sha : Contents, content : Contents, at : Nat]
    BY <1>5
  <2>2. tasks' \in Seq([doc : 1..Len(logs'), sha : Contents,
                        content : Contents, at : Nat])
    BY <2>1, SeqMonotonic DEF Upload, TypeOK, CapeOK
  <2> QED  BY <1>2, <1>5, <2>2 DEF Upload, TypeOK, CapeOK
<1> QED  BY <1>4, <1>6, <1>7 DEF TypeOK, LogsOK

LEMMA EnvironmentType ==
  ASSUME TypeOK, CapeReport \/ Tick \/ FilesChange
  PROVE  TypeOK'
<1> USE DEF TypeOK
<1>1. CASE CapeReport
  <2>1. PICK k \in 1..Len(tasks) : results' = results \cup {<<tasks[k].content, now>>}
    BY <1>1 DEF CapeReport
  <2>2. tasks[k].content \in Contents
    <3> DEFINE T == [doc : 1..Len(logs), sha : Contents, content : Contents,
                     at : Nat]
    <3>1. tasks \in Seq(T)
      BY DEF CapeOK
    <3> HIDE DEF T
    <3>2. tasks[k] \in T
      BY <3>1, ElementOfSeq
    <3> QED  BY <3>2 DEF T
  <2> QED  BY <1>1, <2>1, <2>2 DEF CapeReport, LogsOK, WorkersOK, CapeOK
<1>2. CASE Tick
  BY <1>2 DEF Tick, LogsOK, WorkersOK, CapeOK
<1>3. CASE FilesChange
  <2>1. PICK S \in SUBSET (1..Len(stored)), c \in Contents \cup {None} :
          stored' = [j \in 1..Len(stored) |-> IF j \in S THEN c ELSE stored[j]]
    BY <1>3 DEF FilesChange
  <2>2. stored' \in Seq(Contents \cup {None}) /\ Len(stored') = Len(stored)
    <3>1. Len(stored) \in Nat /\ \A j \in 1..Len(stored) :
            stored[j] \in Contents \cup {None}
      BY LenProperties, ElementOfSeq DEF LogsOK
    <3>2. stored' \in [1..Len(stored) -> Contents \cup {None}]
      BY <2>1, <3>1
    <3> QED  BY <3>1, <3>2, SeqDef, LenProperties
  <2> QED  BY <1>3, <2>2 DEF FilesChange, LogsOK, WorkersOK, CapeOK
<1> QED  BY <1>1, <1>2, <1>3

LEMMA ClaimType ==
  ASSUME TypeOK, NEW w \in Workers, Claim(w)
  PROVE  TypeOK'
<1>1. PICK i \in Claimable :
        /\ logs' = [logs EXCEPT ![i].processing = TRUE, ![i].processing_at = now]
        /\ worker' = [worker EXCEPT ![w] =
             [pc |-> "locate", doc |-> i, file |-> None, sha |-> None,
              claimed |-> now]]
        /\ lapsed' = lapsed \/ lapsed' = lapsed \cup {i}
  BY DEF Claim
<1> DEFINE d == [logs[i] EXCEPT !.processing = TRUE, !.processing_at = now]
           r == [pc |-> "locate", doc |-> i, file |-> None, sha |-> None,
                 claimed |-> now]
<1>2. i \in 1..Len(logs) /\ logs[i] \in UploadDoc /\ now \in Nat
  BY LogFacts DEF Claimable, TypeOK, CapeOK
<1>3. d \in UploadDoc
  BY <1>2 DEF UploadDoc
<1>4. logs' = [logs EXCEPT ![i] = d]
  BY <1>1, <1>2 DEF TypeOK, LogsOK
<1>5. WorkerFits(r)
  <2>1. Len(logs) \in Nat /\ i # None
    BY <1>2, LogFacts DEF TypeOK, None
  <2> QED  BY <1>2, <2>1 DEF WorkerFits, WorkerRecord, Pcs
<1>6. worker' = [worker EXCEPT ![w] = r]
  BY <1>1
<1> HIDE DEF d, r
<1>7. logs' \in Seq(UploadDoc) /\ Len(logs') = Len(logs)
  BY <1>2, <1>3, <1>4, ExceptSeq DEF TypeOK, LogsOK
<1>8. WorkersOK'
  BY <1>5, <1>6, <1>7, OneWorker DEF TypeOK
<1>9. CapeOK'
  BY <1>1, <1>2, <1>7 DEF Claim, TypeOK, CapeOK
<1> QED  BY <1>7, <1>8, <1>9 DEF Claim, TypeOK, LogsOK

(* The steps of a worker between its claim and its outcome.                *)
LEMMA WorkType ==
  ASSUME ForwarderAssumption, TypeOK, NEW w \in Workers,
         \/ FileMissing(w) \/ FileFound(w) \/ Dedup(w) \/ Submit(w)
         \/ SubmitNoFile(w)
  PROVE  TypeOK'
<1> USE DEF TypeOK
<1>0. WorkerFits(worker[w]) /\ worker[w] \in WorkerRecord
  BY WorkersFit
<1>1. CASE FileMissing(w)
  <2>1. WorkersOK'
    BY <1>1, Moved DEF FileMissing, Pcs
  <2> QED  BY <1>1, <2>1 DEF FileMissing, LogsOK, CapeOK
<1>2. CASE FileFound(w)
  <2>1. PICK j \in FilesFor(worker[w].doc), hashed \in BOOLEAN :
          /\ worker' = [worker EXCEPT
               ![w].pc = "dedup", ![w].file = j,
               ![w].sha = IF hashed THEN stored[j]
                          ELSE logs[worker[w].doc].sha256]
          /\ faults' = faults \/ faults' = faults + 1
    BY <1>2 DEF FileFound
  <2> DEFINE sha == IF hashed THEN stored[j] ELSE logs[worker[w].doc].sha256
  <2>2. worker[w].doc \in 1..Len(logs)
    BY <1>0, <1>2 DEF FileFound, WorkerFits, WorkerRecord
  <2>3. j \in 1..Len(logs) /\ stored[j] # None
    BY <2>1, LogFacts DEF FilesFor
  <2>4. sha \in Contents
    <3>1. stored[j] \in Contents
      BY <2>3, LogFacts
    <3>2. logs[worker[w].doc].sha256 \in Contents
      BY <2>2, LogFacts DEF UploadDoc
    <3> QED  BY <2>1, <3>1, <3>2
  <2> DEFINE r == [worker[w] EXCEPT !.pc = "dedup", !.file = j, !.sha = sha]
  <2>5. WorkerFits(r)
    <3>1. Len(logs) \in Nat /\ j # None /\ sha # None /\ worker[w].doc # None
      BY <2>2, <2>3, <2>4, LogFacts DEF None, ForwarderAssumption
    <3>2. /\ r.pc = "dedup" /\ r.file = j /\ r.sha = sha
          /\ r.doc = worker[w].doc /\ r \in WorkerRecord
      BY <1>0, <2>3, <2>4 DEF WorkerRecord, Pcs
    <3> HIDE DEF r, sha
    <3> QED  BY <3>1, <3>2 DEF WorkerFits
  <2>6. worker' = [worker EXCEPT ![w] = r]
    BY <2>1 DEF WorkersOK
  <2> HIDE DEF r
  <2>7. WorkersOK'
    BY <1>2, <2>5, <2>6, OneWorker DEF FileFound
  <2>8. UNCHANGED <<logs, stored, tasks, results, now, crashes, lapsed, misread>>
    BY <1>2 DEF FileFound
  <2>9. faults' \in Nat
    BY <2>1 DEF CapeOK
  <2> QED  BY <2>7, <2>8, <2>9 DEF LogsOK, CapeOK
<1>3. CASE Dedup(w)
  <2>1. WorkersOK'
    <3>1. CASE Goto(w, "duplicate")
      BY <1>3, <3>1, Moved DEF Dedup, Pcs
    <3>2. CASE Goto(w, "submit")
      BY <1>3, <3>2, Moved DEF Dedup, Pcs
    <3> QED  BY <1>3, <3>1, <3>2 DEF Dedup, Goto
  <2> QED  BY <1>3, <2>1 DEF Dedup, LogsOK, CapeOK
<1>4. CASE Submit(w)
  <2>1. PICK taken \in BOOLEAN, answered \in BOOLEAN :
          Post(w, taken, answered) /\ Goto(w, IF answered THEN "record" ELSE "fail")
    BY <1>4 DEF Submit
  <2>2. WorkersOK'
    BY <1>4, <2>1, Moved DEF Submit, Pcs
  <2>3. /\ worker[w].doc \in 1..Len(logs) /\ worker[w].sha \in Contents
        /\ worker[w].file \in 1..Len(logs)
    BY <1>0, <1>4 DEF Submit, WorkerFits, WorkerRecord
  <2>4. stored[worker[w].file] \in Contents
    BY <1>4, <2>3, LogFacts DEF Submit
  <2> DEFINE t == [doc |-> worker[w].doc, sha |-> worker[w].sha,
                   content |-> stored[worker[w].file], at |-> now]
             T == [doc : 1..Len(logs), sha : Contents, content : Contents, at : Nat]
  <2>5. t \in T
    BY <2>3, <2>4 DEF CapeOK
  <2>6. tasks' = tasks \/ tasks' = Append(tasks, t)
    BY <2>1 DEF Post
  <2>7. tasks \in Seq(T)
    BY DEF CapeOK
  <2> HIDE DEF t, T
  <2>8. tasks' \in Seq(T)
    BY <2>5, <2>6, <2>7, AppendProperties
  <2>9. misread' \subseteq (1..Len(logs)) \X Contents /\ faults' \in Nat
    BY <2>1, <2>3 DEF Post, CapeOK
  <2> QED  BY <1>4, <2>2, <2>8, <2>9 DEF T, Submit, LogsOK, CapeOK
<1>5. CASE SubmitNoFile(w)
  <2>1. WorkersOK'
    BY <1>5, Moved DEF SubmitNoFile, Pcs
  <2> QED  BY <1>5, <2>1 DEF SubmitNoFile, LogsOK, CapeOK
<1> QED  BY <1>1, <1>2, <1>3, <1>4, <1>5

(* An update that raises was applied, with what it makes of the document,  *)
(* or not; the worker keeps its document and is no longer about to record. *)
LEMMA RaisesEffect ==
  ASSUME TypeOK, NEW w \in Workers, WriteFails(w)
  PROVE  /\ worker[w].doc \in 1..Len(logs) /\ Len(logs') = Len(logs)
         /\ \E pc \in {"submit", "fail"} :
              /\ Goto(w, pc)
              /\ pc = "fail" \/ worker[w].pc = "duplicate"
         /\ worker[w].pc # "idle"
         /\ faults < MaxFaults /\ faults' = faults + 1
         /\ UNCHANGED <<stored, tasks, results, now, crashes, misread>>
         /\ \/ UNCHANGED <<logs, lapsed>>
            \/ \E doc \in UploadDoc :
                 /\ Write(w, doc) /\ lapsed' = lapsed \cup {worker[w].doc}
                 /\ \/ ~doc.forwarded /\ doc.dead
                    \/ /\ worker[w].pc = "record" /\ doc.forwarded
                       /\ doc.cape_sha256 = worker[w].sha
                       /\ doc.dead = logs[worker[w].doc].dead
<1>1. PICK doc, pc :
        /\ WriteRaises(w, doc, pc) /\ worker[w].pc # "idle"
        /\ \/ worker[w].pc = "bury" /\ doc = Buried(w) /\ pc = "fail"
           \/ worker[w].pc = "duplicate" /\ doc = BuriedDuplicate(w) /\ pc = "submit"
           \/ worker[w].pc = "record" /\ doc = Recorded(w) /\ pc = "fail"
  BY DEF WriteFails
<1>2. /\ worker[w].doc \in 1..Len(logs) /\ doc \in UploadDoc
      /\ \/ ~doc.forwarded /\ doc.dead
         \/ /\ worker[w].pc = "record" /\ doc.forwarded
            /\ doc.cape_sha256 = worker[w].sha
            /\ doc.dead = logs[worker[w].doc].dead
  BY <1>1, OutcomeDocs
<1>3. Len(logs') = Len(logs)
  BY <1>1, <1>2, WriteEffect DEF WriteRaises
<1>4. /\ pc \in {"submit", "fail"} /\ Goto(w, pc)
      /\ pc = "fail" \/ worker[w].pc = "duplicate"
  BY <1>1 DEF WriteRaises
<1> QED  BY <1>1, <1>2, <1>3, <1>4 DEF WriteRaises

LEMMA RaisesType ==
  ASSUME TypeOK, NEW w \in Workers, WriteFails(w)
  PROVE  TypeOK'
<1>1. /\ worker[w].doc \in 1..Len(logs) /\ Len(logs') = Len(logs)
      /\ worker[w].pc # "idle" /\ faults' = faults + 1
      /\ UNCHANGED <<stored, tasks, results, now, crashes, misread>>
  BY RaisesEffect
<1>2. logs' \in Seq(UploadDoc) /\ lapsed' \subseteq 1..Len(logs)
  <2>1. CASE UNCHANGED <<logs, lapsed>>
    BY <2>1 DEF TypeOK, LogsOK, CapeOK
  <2>2. CASE \E doc \in UploadDoc :
               Write(w, doc) /\ lapsed' = lapsed \cup {worker[w].doc}
    BY <1>1, <2>2, WriteEffect DEF TypeOK, CapeOK
  <2> QED  BY <2>1, <2>2, RaisesEffect
<1>3. LogsOK'
  BY <1>1, <1>2 DEF TypeOK, LogsOK
<1>4. WorkersOK'
  <2>1. PICK pc \in {"submit", "fail"} :
          Goto(w, pc) /\ (pc = "fail" \/ worker[w].pc = "duplicate")
    BY RaisesEffect
  <2> QED  BY <1>1, <2>1, Moved DEF Pcs, TypeOK
<1>5. CapeOK'
  BY <1>1, <1>2 DEF TypeOK, CapeOK
<1> QED  BY <1>3, <1>4, <1>5 DEF TypeOK

(* The four outcomes, and the loss of the worker.                          *)
LEMMA OutcomeType ==
  ASSUME TypeOK, NEW w \in Workers,
         \/ BuryMissing(w) \/ BuryDuplicate(w) \/ Record(w) \/ Fail(w)
         \/ Crash(w)
  PROVE  TypeOK'
<1>3. CASE BuryMissing(w)
  BY <1>3, OutcomeDocs, FinishType DEF BuryMissing
<1>4. CASE BuryDuplicate(w)
  BY <1>4, OutcomeDocs, FinishType DEF BuryDuplicate
<1>5. CASE Record(w)
  BY <1>5, OutcomeDocs, FinishType DEF Record
<1>6. CASE Fail(w)
  BY <1>6, OutcomeDocs, FinishType DEF Fail
<1>7. CASE Crash(w)
  <2>1. WorkersOK'
    BY <1>7, Dropped DEF Crash, TypeOK
  <2> QED  BY <1>7, <2>1 DEF Crash, TypeOK, LogsOK, CapeOK
<1> QED  BY <1>3, <1>4, <1>5, <1>6, <1>7

(* Every reachable state is well formed.                                   *)
THEOREM TypeCorrect == Spec => []TypeOK
<1>1. Init => TypeOK
  BY InitType, ForwarderAssumption
<1>2. TypeOK /\ [Next]_vars => TypeOK'
  <2> SUFFICES ASSUME TypeOK, [Next]_vars PROVE TypeOK'
    OBVIOUS
  <2>1. CASE UNCHANGED vars
    BY <2>1 DEF vars, TypeOK, LogsOK, WorkersOK, CapeOK
  <2>2. CASE Upload
    BY <2>2, UploadType, ForwarderAssumption
  <2>3. CASE CapeReport \/ Tick \/ FilesChange
    BY <2>3, EnvironmentType
  <2>4. ASSUME NEW w \in Workers, WorkerStep(w) \/ Crash(w) PROVE TypeOK'
    BY <2>1, <2>4, ClaimType, WorkType, RaisesType, OutcomeType,
       ForwarderAssumption
    DEF WorkerStep, PollNothing
  <2> QED  BY <2>1, <2>2, <2>3, <2>4 DEF Next
<1> QED  BY <1>1, <1>2, PTL DEF Spec

(* What the type invariant says of one worker.                             *)
LEMMA WorkerFacts ==
  ASSUME TypeOK, NEW w \in Workers
  PROVE  /\ worker[w].doc \in {None} \cup 1..Len(logs)
         /\ worker[w].file \in {None} \cup 1..Len(logs)
         /\ (worker[w].pc = "idle") <=> (worker[w].doc = None)
         /\ worker[w].pc \in {"dedup", "duplicate", "submit", "record"}
              => worker[w].sha # None /\ worker[w].file # None
         /\ None = 0 /\ Len(logs) \in Nat
<1>1. WorkerFits(worker[w])
  BY WorkersFit DEF TypeOK
<1>2. Len(logs) \in Nat
  BY LogFacts DEF TypeOK
<1> QED  BY <1>1, <1>2 DEF WorkerFits, WorkerRecord, None

-----------------------------------------------------------------------------
(* Locks                                                                   *)

(* The lock of a document that nobody took over belongs to its holder, and *)
(* the holder works on a document that is still alive.                     *)
HeldIsLocked ==
  \A w \in Workers :
    worker[w].doc # None /\ worker[w].doc \notin lapsed
    => logs[worker[w].doc].processing /\ ~logs[worker[w].doc].dead

LockInv == HeldIsLocked /\ ExclusiveUnlessLapsed /\ OneOutcome

(* Between claim and outcome a worker keeps its document, and the logs and *)
(* the history are left alone; another worker is not touched at all.       *)
LEMMA WorkEffect ==
  ASSUME TypeOK, NEW w \in Workers,
         \/ FileMissing(w) \/ FileFound(w) \/ Dedup(w) \/ Submit(w)
         \/ SubmitNoFile(w)
  PROVE  /\ \A v \in Workers : worker'[v].doc = worker[v].doc
         /\ \A v \in Workers : v # w => worker'[v] = worker[v]
         /\ UNCHANGED <<logs, lapsed>>
<1> USE DEF TypeOK, WorkersOK
<1>1. CASE FileMissing(w)
  BY <1>1 DEF FileMissing, Goto
<1>2. CASE FileFound(w)
  <2>1. PICK j \in FilesFor(worker[w].doc), hashed \in BOOLEAN :
          worker' = [worker EXCEPT
               ![w].pc = "dedup", ![w].file = j,
               ![w].sha = IF hashed THEN stored[j]
                          ELSE logs[worker[w].doc].sha256]
    BY <1>2 DEF FileFound
  <2> DEFINE sha == IF hashed THEN stored[j] ELSE logs[worker[w].doc].sha256
             r == [worker[w] EXCEPT !.pc = "dedup", !.file = j, !.sha = sha]
  <2>2. worker' = [worker EXCEPT ![w] = r]
    BY <2>1
  <2>3. r.doc = worker[w].doc
    OBVIOUS
  <2>4. UNCHANGED <<logs, lapsed>>
    BY <1>2 DEF FileFound
  <2> HIDE DEF r
  <2> QED  BY <2>2, <2>3, <2>4
<1>3. CASE Dedup(w)
  BY <1>3 DEF Dedup, Goto
<1>4. CASE Submit(w)
  BY <1>4 DEF Submit, Goto
<1>5. CASE SubmitNoFile(w)
  BY <1>5 DEF SubmitNoFile, Goto
<1> QED  BY <1>1, <1>2, <1>3, <1>4, <1>5

(* A worker whose update raises keeps its document too.                    *)
LEMMA RaisesKeeps ==
  ASSUME TypeOK, NEW w \in Workers, WriteFails(w)
  PROVE  /\ \A v \in Workers : v # w => worker'[v] = worker[v]
         /\ worker'[w].doc = worker[w].doc
         /\ worker'[w].pc \in {"submit", "fail"}
<1>1. PICK pc \in {"submit", "fail"} : Goto(w, pc)
  BY RaisesEffect
<1>2. worker \in [Workers -> WorkerRecord]
  BY WorkersFit DEF TypeOK
<1> QED  BY <1>1, <1>2 DEF Goto, WorkerRecord

(* A worker that drops its document leaves the others as they are.         *)
LEMMA DropEffect ==
  ASSUME TypeOK, NEW w \in Workers, worker' = [worker EXCEPT ![w] = Idle]
  PROVE  /\ worker'[w].doc = None /\ worker'[w].pc = "idle"
         /\ \A v \in Workers : v # w => worker'[v] = worker[v]
         /\ \A v \in Workers : worker'[v].doc # None =>
              v # w /\ worker'[v].doc = worker[v].doc
  BY DEF TypeOK, WorkersOK, Idle

(* The document a worker writes back, and what the four outcomes make of   *)
(* it: what is forwarded was not dead before, and is not made dead.        *)
LEMMA OutcomeEffect ==
  ASSUME TypeOK, NEW w \in Workers,
         BuryMissing(w) \/ BuryDuplicate(w) \/ Record(w) \/ Fail(w)
  PROVE  /\ worker[w].doc \in 1..Len(logs) /\ Len(logs') = Len(logs)
         /\ worker' = [worker EXCEPT ![w] = Idle]
         /\ lapsed' = lapsed /\ tasks' = tasks
         /\ \A i \in 1..Len(logs) : i # worker[w].doc => logs'[i] = logs[i]
         /\ logs'[worker[w].doc].forwarded =>
              /\ worker[w].pc = "record"
              /\ logs'[worker[w].doc].cape_sha256 = worker[w].sha
              /\ logs'[worker[w].doc].dead = logs[worker[w].doc].dead
<1>1. PICK doc \in UploadDoc :
        /\ Finish(w, doc) /\ worker[w].pc # "idle"
        /\ doc.forwarded => /\ worker[w].pc = "record"
                           /\ doc.cape_sha256 = worker[w].sha
                           /\ doc.dead = logs[worker[w].doc].dead
  <2>1. CASE BuryMissing(w)
    BY <2>1, OutcomeDocs DEF BuryMissing
  <2>2. CASE BuryDuplicate(w)
    BY <2>2, OutcomeDocs DEF BuryDuplicate
  <2>3. CASE Record(w)
    BY <2>3, OutcomeDocs DEF Record
  <2>4. CASE Fail(w)
    BY <2>4, OutcomeDocs DEF Fail
  <2> QED  BY <2>1, <2>2, <2>3, <2>4
<1> QED  BY <1>1, WriteEffect DEF Finish

(* What a claim does: the document was free or its lock was stale, and in  *)
(* the second case it counts as lapsed.                                    *)
LEMMA ClaimEffect ==
  ASSUME TypeOK, NEW w \in Workers, Claim(w)
  PROVE  \E i \in 1..Len(logs) :
           /\ ~logs[i].dead
           /\ logs[i].processing => i \in lapsed'
           /\ lapsed \subseteq lapsed'
           /\ worker'[w].doc = i /\ worker'[w].pc = "locate"
           /\ \A v \in Workers : v # w => worker'[v] = worker[v]
           /\ Len(logs') = Len(logs) /\ logs'[i].processing
           /\ \A j \in 1..Len(logs) :
                /\ logs'[j].forwarded = logs[j].forwarded
                /\ logs'[j].dead = logs[j].dead
                /\ logs'[j].cape_sha256 = logs[j].cape_sha256
                /\ j # i => logs'[j] = logs[j]
<1>1. PICK i \in Claimable :
        /\ logs' = [logs EXCEPT ![i].processing = TRUE, ![i].processing_at = now]
        /\ worker' = [worker EXCEPT ![w] =
             [pc |-> "locate", doc |-> i, file |-> None, sha |-> None,
              claimed |-> now]]
        /\ lapsed' = IF logs[i].processing /\ Stale(i)
                     THEN lapsed \cup {i} ELSE lapsed
  BY DEF Claim
<1> DEFINE d == [logs[i] EXCEPT !.processing = TRUE, !.processing_at = now]
<1>2. i \in 1..Len(logs) /\ logs[i] \in UploadDoc /\ now \in Nat
  BY LogFacts DEF Claimable, TypeOK, CapeOK
<1>3. /\ d \in UploadDoc /\ d.processing /\ d.forwarded = logs[i].forwarded
      /\ d.dead = logs[i].dead /\ d.cape_sha256 = logs[i].cape_sha256
  BY <1>2 DEF UploadDoc
<1>4. logs' = [logs EXCEPT ![i] = d]
  BY <1>1, <1>2 DEF TypeOK, LogsOK
<1> HIDE DEF d
<1>5. /\ Len(logs') = Len(logs) /\ logs'[i] = d
      /\ \A j \in 1..Len(logs) : j # i => logs'[j] = logs[j]
  BY <1>2, <1>3, <1>4, ExceptSeq DEF TypeOK, LogsOK
<1>6. ~logs[i].dead /\ (logs[i].processing => Stale(i))
  BY DEF Claimable
<1>7. /\ worker'[w].doc = i /\ worker'[w].pc = "locate"
      /\ \A v \in Workers : v # w => worker'[v] = worker[v]
  BY <1>1 DEF TypeOK, WorkersOK
<1>8. lapsed \subseteq lapsed' /\ (logs[i].processing => i \in lapsed')
  BY <1>1, <1>6
<1>9. \A j \in 1..Len(logs) :
        /\ logs'[j].forwarded = logs[j].forwarded
        /\ logs'[j].dead = logs[j].dead
        /\ logs'[j].cape_sha256 = logs[j].cape_sha256
        /\ j # i => logs'[j] = logs[j]
  BY <1>3, <1>5
<1> QED  BY <1>2, <1>3, <1>5, <1>6, <1>7, <1>8, <1>9

(* A step that leaves documents, history and claims alone keeps LockInv.   *)
LEMMA LockSame ==
  ASSUME LockInv, UNCHANGED <<logs, lapsed>>,
         \A v \in Workers : worker'[v].doc \in {worker[v].doc, None}
  PROVE  LockInv'
<1>1. HeldIsLocked'
  BY DEF LockInv, HeldIsLocked
<1>2. ExclusiveUnlessLapsed'
  BY DEF LockInv, ExclusiveUnlessLapsed
<1>3. OneOutcome'
  BY DEF LockInv, OneOutcome
<1> QED  BY <1>1, <1>2, <1>3 DEF LockInv

(* The documents there were are the documents there are, and the one that  *)
(* an upload adds is neither held nor forwarded.                           *)
LEMMA UploadEffect ==
  ASSUME TypeOK, Upload
  PROVE  /\ Len(logs) \in Nat /\ Len(logs') = Len(logs) + 1
         /\ \A i \in 1..Len(logs) : logs'[i] = logs[i]
         /\ ~logs'[Len(logs) + 1].forwarded /\ ~logs'[Len(logs) + 1].dead
         /\ UNCHANGED <<worker, tasks, lapsed>>
<1>1. PICK sha \in Contents, name \in Names :
        logs' = Append(logs,
            [sha256 |-> sha, filename |-> name, timestamp |-> now,
             forwarded |-> FALSE, dead |-> FALSE, processing |-> FALSE,
             processing_at |-> 0, updated_at |-> None, cape_sha256 |-> None,
             duplicate_of |-> None])
  BY DEF Upload
<1> DEFINE d == [sha256 |-> sha, filename |-> name, timestamp |-> now,
             forwarded |-> FALSE, dead |-> FALSE, processing |-> FALSE,
             processing_at |-> 0, updated_at |-> None, cape_sha256 |-> None,
             duplicate_of |-> None]
<1>2. d \in UploadDoc /\ d.forwarded = FALSE /\ d.dead = FALSE
  BY DEF UploadDoc, None, TypeOK, CapeOK
<1>3. logs \in Seq(UploadDoc) /\ logs' = Append(logs, d)
  BY <1>1 DEF TypeOK, LogsOK
<1> HIDE DEF d
<1>4. /\ Len(logs') = Len(logs) + 1
      /\ \A i \in 1..Len(logs) : logs'[i] = logs[i]
      /\ logs'[Len(logs) + 1] = d
  BY <1>2, <1>3, AppendProperties
<1> QED  BY <1>2, <1>4, LogFacts DEF Upload, TypeOK

LEMMA LockUpload ==
  ASSUME TypeOK, LockInv, Upload
  PROVE  LockInv'
<1>1. \A w \in Workers : worker[w].doc \in {None} \cup 1..Len(logs)
  BY DEF TypeOK, WorkersOK
<1>2. HeldIsLocked'
  BY <1>1, UploadEffect DEF LockInv, HeldIsLocked
<1>3. ExclusiveUnlessLapsed'
  BY UploadEffect DEF LockInv, ExclusiveUnlessLapsed
<1>4. OneOutcome'
  <2> SUFFICES ASSUME NEW i \in 1..Len(logs'),
                      logs'[i].forwarded, logs'[i].dead
               PROVE  i \in lapsed'
    BY DEF OneOutcome
  <2>1. i \in 1..Len(logs)
    <3>1. Len(logs) \in Nat /\ i \in 1..(Len(logs) + 1)
      BY UploadEffect
    <3>2. i # Len(logs) + 1
      BY UploadEffect
    <3> QED  BY <3>1, <3>2
  <2> QED  BY <2>1, UploadEffect DEF LockInv, OneOutcome
<1> QED  BY <1>2, <1>3, <1>4 DEF LockInv

(* A claim of a document that somebody holds under its own lock takes a    *)
(* stale lock over.                                                        *)
LEMMA LockClaim ==
  ASSUME TypeOK, LockInv, NEW w \in Workers, Claim(w)
  PROVE  LockInv'
<1>1. PICK i \in 1..Len(logs) :
           /\ ~logs[i].dead
           /\ logs[i].processing => i \in lapsed'
           /\ lapsed \subseteq lapsed'
           /\ worker'[w].doc = i /\ worker'[w].pc = "locate"
           /\ \A v \in Workers : v # w => worker'[v] = worker[v]
           /\ Len(logs') = Len(logs) /\ logs'[i].processing
           /\ \A j \in 1..Len(logs) :
                /\ logs'[j].forwarded = logs[j].forwarded
                /\ logs'[j].dead = logs[j].dead
                /\ logs'[j].cape_sha256 = logs[j].cape_sha256
                /\ j # i => logs'[j] = logs[j]
  BY ClaimEffect
<1>2. \A v \in Workers : worker[v].doc \in {None} \cup 1..Len(logs)
  BY DEF TypeOK, WorkersOK
<1>3. HeldIsLocked'
  <2> SUFFICES ASSUME NEW v \in Workers, worker'[v].doc # None,
                      worker'[v].doc \notin lapsed'
               PROVE  logs'[worker'[v].doc].processing /\ ~logs'[worker'[v].doc].dead
    BY DEF HeldIsLocked
  <2>1. CASE v = w
    BY <1>1, <2>1
  <2>2. CASE v # w
    <3>1. worker'[v].doc = worker[v].doc
      BY <1>1, <2>2
    <3>2. logs[worker[v].doc].processing /\ ~logs[worker[v].doc].dead
      BY <1>1, <3>1 DEF LockInv, HeldIsLocked
    <3> QED  BY <1>1, <1>2, <3>1, <3>2
  <2> QED  BY <2>1, <2>2
<1>4. ExclusiveUnlessLapsed'
  <2>1. \A v \in Workers : v # w /\ worker[v].doc = i => i \in lapsed'
    BY <1>1, <1>2, LogFacts DEF LockInv, HeldIsLocked, TypeOK, None
  <2> QED  BY <1>1, <2>1 DEF LockInv, ExclusiveUnlessLapsed
<1>5. OneOutcome'
  BY <1>1 DEF LockInv, OneOutcome
<1> QED  BY <1>3, <1>4, <1>5 DEF LockInv

(* An outcome frees a document that, unless its lock was taken over, no    *)
(* other worker holds.                                                     *)
LEMMA LockOutcome ==
  ASSUME TypeOK, LockInv, NEW w \in Workers,
         BuryMissing(w) \/ BuryDuplicate(w) \/ Record(w) \/ Fail(w)
  PROVE  LockInv'
<1> DEFINE i == worker[w].doc
<1>1. /\ i \in 1..Len(logs) /\ Len(logs') = Len(logs)
      /\ lapsed' = lapsed
      /\ \A j \in 1..Len(logs) : j # i => logs'[j] = logs[j]
      /\ logs'[i].forwarded => logs'[i].dead = logs[i].dead
  BY OutcomeEffect
<1>2. \A v \in Workers : worker'[v].doc # None =>
        v # w /\ worker'[v].doc = worker[v].doc
  BY OutcomeEffect, DropEffect
<1>3. \A v \in Workers : worker[v].doc \in {None} \cup 1..Len(logs)
  BY DEF TypeOK, WorkersOK
<1>4. i # None
  BY <1>1, LogFacts DEF TypeOK, None
<1> HIDE DEF i
<1>5. HeldIsLocked'
  <2> SUFFICES ASSUME NEW v \in Workers, worker'[v].doc # None,
                      worker'[v].doc \notin lapsed'
               PROVE  logs'[worker'[v].doc].processing /\ ~logs'[worker'[v].doc].dead
    BY DEF HeldIsLocked
  <2>1. v # w /\ worker'[v].doc = worker[v].doc
    BY <1>2
  <2>2. worker[v].doc # i
    BY <1>1, <2>1 DEF i, LockInv, ExclusiveUnlessLapsed
  <2>3. logs[worker[v].doc].processing /\ ~logs[worker[v].doc].dead
    BY <1>1, <2>1 DEF LockInv, HeldIsLocked
  <2> QED  BY <1>1, <1>3, <2>1, <2>2, <2>3
<1>6. ExclusiveUnlessLapsed'
  BY <1>1, <1>2 DEF LockInv, ExclusiveUnlessLapsed
<1>7. OneOutcome'
  <2>1. i \notin lapsed => ~logs[i].dead
    BY <1>4 DEF i, LockInv, HeldIsLocked
  <2> QED  BY <1>1, <2>1 DEF LockInv, OneOutcome
<1> QED  BY <1>5, <1>6, <1>7 DEF LockInv

(* An update that was applied and raised takes a lock away under the       *)
(* worker that goes on; the history remembers it.                          *)
LEMMA LockRaises ==
  ASSUME TypeOK, LockInv, NEW w \in Workers, WriteFails(w)
  PROVE  LockInv'
<1> DEFINE i == worker[w].doc
<1>1. \A v \in Workers : worker'[v].doc = worker[v].doc
  BY RaisesKeeps
<1>2. CASE UNCHANGED <<logs, lapsed>>
  BY <1>1, <1>2, LockSame
<1>3. CASE \E doc \in UploadDoc : Write(w, doc) /\ lapsed' = lapsed \cup {i}
  <2>1. /\ i \in lapsed' /\ lapsed \subseteq lapsed' /\ Len(logs') = Len(logs)
        /\ \A j \in 1..Len(logs) : j # i => logs'[j] = logs[j]
    BY <1>3, RaisesEffect, WriteEffect
  <2>2. \A v \in Workers : worker[v].doc \in {None} \cup 1..Len(logs)
    BY DEF TypeOK, WorkersOK
  <2> HIDE DEF i
  <2>3. HeldIsLocked'
    BY <1>1, <2>1, <2>2 DEF LockInv, HeldIsLocked
  <2>4. ExclusiveUnlessLapsed'
    BY <1>1, <2>1 DEF LockInv, ExclusiveUnlessLapsed
  <2>5. OneOutcome'
    BY <2>1 DEF LockInv, OneOutcome
  <2> QED  BY <2>3, <2>4, <2>5 DEF LockInv
<1> QED  BY <1>2, <1>3, RaisesEffect

LEMMA LockInvariant == Spec => []LockInv
<1>1. Init => LockInv
  <2> SUFFICES ASSUME Init PROVE LockInv
    OBVIOUS
  <2>1. \A w \in Workers : worker[w].doc = None
    BY DEF Init, Idle
  <2>2. Len(logs) = 0
    BY EmptySeq DEF Init
  <2> QED  BY <2>1, <2>2
    DEF LockInv, HeldIsLocked, ExclusiveUnlessLapsed, OneOutcome
<1>2. TypeOK /\ LockInv /\ [Next]_vars => LockInv'
  <2> SUFFICES ASSUME TypeOK, LockInv, [Next]_vars PROVE LockInv'
    OBVIOUS
  <2>1. CASE UNCHANGED vars
    BY <2>1, LockSame DEF vars
  <2>2. CASE Upload
    BY <2>2, LockUpload
  <2>3. CASE CapeReport \/ Tick \/ FilesChange
    BY <2>3, LockSame DEF CapeReport, Tick, FilesChange
  <2>4. ASSUME NEW w \in Workers, WorkerStep(w) \/ Crash(w) PROVE LockInv'
    <3>1. CASE Crash(w)
      BY <3>1, DropEffect, LockSame DEF Crash
    <3>2. CASE PollNothing(w)
      BY <3>2, <2>1 DEF PollNothing
    <3>3. CASE \/ FileMissing(w) \/ FileFound(w) \/ Dedup(w) \/ Submit(w)
               \/ SubmitNoFile(w)
      BY <3>3, WorkEffect, LockSame
    <3> QED  BY <2>4, <3>1, <3>2, <3>3, LockClaim, LockOutcome, LockRaises
             DEF WorkerStep
  <2> QED  BY <2>1, <2>2, <2>3, <2>4 DEF Next
<1> QED  BY <1>1, <1>2, TypeCorrect, PTL DEF Spec

(* Two workers hold one document only after its lock was taken over as     *)
(* stale or released by an update that raised, however many workers there  *)
(* are, whenever they die and whatever updates fail, applied or not.       *)
THEOREM LocksExclude == Spec => []ExclusiveUnlessLapsed
<1>1. LockInv => ExclusiveUnlessLapsed
  BY DEF LockInv
<1> QED  BY <1>1, LockInvariant, PTL

(* A document is forwarded or dead, not both, unless its lock was taken    *)
(* over as stale or released by an update that raised.                     *)
THEOREM OutcomesExclude == Spec => []OneOutcome
<1>1. LockInv => OneOutcome
  BY DEF LockInv
<1> QED  BY <1>1, LockInvariant, PTL

-----------------------------------------------------------------------------
(* Submissions                                                             *)

(* CAPE took the document under that sum, or answered as if it had.        *)
Backed(i, sha) ==
  \/ \E k \in 1..Len(tasks) : tasks[k].doc = i /\ tasks[k].sha = sha
  \/ <<i, sha>> \in misread

(* A worker about to record a submission has made it.                      *)
RecordBacked ==
  \A w \in Workers :
    worker[w].pc = "record" => Backed(worker[w].doc, worker[w].sha)

AcceptInv == RecordBacked /\ ForwardedWasAccepted

LEMMA ForwardedBacked ==
  ForwardedWasAccepted <=>
    \A i \in 1..Len(logs) :
      logs[i].forwarded => Backed(i, logs[i].cape_sha256)
  BY DEF ForwardedWasAccepted, Backed

LEMMA ForwardedBackedNext ==
  ForwardedWasAccepted' <=>
    (\A i \in 1..Len(logs) :
       logs[i].forwarded => Backed(i, logs[i].cape_sha256))'
  BY DEF ForwardedWasAccepted, Backed

(* A step that leaves the documents and the submissions alone, and starts  *)
(* no recording, keeps AcceptInv.                                          *)
LEMMA AcceptSame ==
  ASSUME AcceptInv, UNCHANGED <<logs, tasks, misread>>,
         \A v \in Workers : worker'[v] = worker[v] \/ worker'[v].pc # "record"
  PROVE  AcceptInv'
<1>1. RecordBacked'
  BY DEF AcceptInv, RecordBacked, Backed
<1>2. ForwardedWasAccepted'
  BY DEF AcceptInv, ForwardedWasAccepted
<1> QED  BY <1>1, <1>2 DEF AcceptInv

LEMMA AcceptUpload ==
  ASSUME TypeOK, AcceptInv, Upload
  PROVE  AcceptInv'
<1>1. UNCHANGED <<worker, tasks, misread>>
  BY UploadEffect DEF Upload
<1>2. RecordBacked'
  BY <1>1 DEF AcceptInv, RecordBacked, Backed
<1>3. ForwardedWasAccepted'
  <2> SUFFICES ASSUME NEW i \in 1..Len(logs'), logs'[i].forwarded
               PROVE  Backed(i, logs'[i].cape_sha256)
    BY <1>1, ForwardedBackedNext DEF Backed
  <2>1. Len(logs) \in Nat /\ i \in 1..(Len(logs) + 1)
    BY UploadEffect
  <2>2. i # Len(logs) + 1
    BY UploadEffect
  <2>3. i \in 1..Len(logs)
    BY <2>1, <2>2
  <2> QED  BY <2>3, UploadEffect, ForwardedBacked DEF AcceptInv
<1> QED  BY <1>2, <1>3 DEF AcceptInv

LEMMA AcceptClaim ==
  ASSUME TypeOK, AcceptInv, NEW w \in Workers, Claim(w)
  PROVE  AcceptInv'
<1>1. UNCHANGED <<tasks, misread>>
  BY DEF Claim
<1>2. PICK i \in 1..Len(logs) :
           /\ worker'[w].pc = "locate"
           /\ \A v \in Workers : v # w => worker'[v] = worker[v]
           /\ Len(logs') = Len(logs)
           /\ \A j \in 1..Len(logs) :
                /\ logs'[j].forwarded = logs[j].forwarded
                /\ logs'[j].cape_sha256 = logs[j].cape_sha256
  BY ClaimEffect
<1>3. RecordBacked'
  BY <1>1, <1>2 DEF AcceptInv, RecordBacked, Backed
<1>4. ForwardedWasAccepted'
  BY <1>1, <1>2 DEF AcceptInv, ForwardedWasAccepted
<1> QED  BY <1>3, <1>4 DEF AcceptInv

(* The POST that is answered puts the file among the accepted ones, or     *)
(* among those that were said to be; earlier ones keep their places.       *)
LEMMA AcceptSubmit ==
  ASSUME TypeOK, AcceptInv, NEW w \in Workers, Submit(w)
  PROVE  AcceptInv'
<1>1. PICK taken \in BOOLEAN, answered \in BOOLEAN :
        /\ Post(w, taken, answered)
        /\ Goto(w, IF answered THEN "record" ELSE "fail")
  BY DEF Submit
<1> DEFINE t == [doc |-> worker[w].doc, sha |-> worker[w].sha,
                 content |-> stored[worker[w].file], at |-> now]
           T == [doc : 1..Len(logs), sha : Contents, content : Contents, at : Nat]
<1>2. tasks \in Seq(T) /\ tasks' \in Seq(T)
  <2>1. TypeOK' /\ UNCHANGED logs
    BY WorkType, ForwarderAssumption DEF Submit
  <2> QED  BY <2>1 DEF TypeOK, CapeOK
<1>3. WorkerFits(worker[w]) /\ worker[w] \in WorkerRecord
  BY WorkersFit DEF TypeOK
<1>4. t \in T
  <2>1. /\ worker[w].doc \in 1..Len(logs) /\ worker[w].sha \in Contents
        /\ worker[w].file \in 1..Len(logs)
    BY <1>3 DEF Submit, WorkerFits, WorkerRecord
  <2>2. stored[worker[w].file] \in Contents
    BY <2>1, LogFacts DEF Submit, TypeOK
  <2> QED  BY <2>1, <2>2 DEF TypeOK, CapeOK
<1>5. t.doc = worker[w].doc /\ t.sha = worker[w].sha
  OBVIOUS
<1>6. tasks' = IF taken THEN Append(tasks, t) ELSE tasks
  BY <1>1 DEF Post
<1> HIDE DEF t, T
<1>7. Len(tasks) \in Nat
  BY <1>2, LenProperties
<1>8. /\ \A k \in 1..Len(tasks) : tasks'[k] = tasks[k] /\ k \in 1..Len(tasks')
      /\ taken => /\ Len(tasks) + 1 \in 1..Len(tasks')
                  /\ tasks'[Len(tasks) + 1] = t
  BY <1>2, <1>4, <1>6, <1>7, AppendProperties
<1>9. /\ \A v \in Workers : v # w => worker'[v] = worker[v]
      /\ worker'[w].doc = worker[w].doc /\ worker'[w].sha = worker[w].sha
      /\ worker'[w].pc = "record" => answered
  BY <1>1, <1>3 DEF Goto, TypeOK, WorkersOK, WorkerRecord
<1>10. misread \subseteq misread'
  BY <1>1 DEF Post
<1>11. \A i, sha : Backed(i, sha) => Backed(i, sha)'
  BY <1>8, <1>10 DEF Backed
<1>12. answered => Backed(worker[w].doc, worker[w].sha)'
  <2>1. CASE taken
    BY <1>5, <1>8, <1>9, <2>1 DEF Backed
  <2>2. CASE answered /\ ~taken
    <3>1. <<worker[w].doc, worker[w].sha>> \in misread'
      BY <1>1, <2>2 DEF Post
    <3> QED  BY <1>9, <3>1 DEF Backed
  <2> QED  BY <2>1, <2>2
<1>13. RecordBacked'
  <2> SUFFICES ASSUME NEW v \in Workers, worker'[v].pc = "record"
               PROVE  Backed(worker[v].doc, worker[v].sha)'
    BY DEF RecordBacked
  <2>1. CASE v = w
    BY <1>9, <1>12, <2>1
  <2>2. CASE v # w
    <3>1. Backed(worker[v].doc, worker[v].sha)
      BY <1>9, <2>2 DEF AcceptInv, RecordBacked
    <3> QED  BY <1>9, <1>11, <2>2, <3>1 DEF Backed
  <2> QED  BY <2>1, <2>2
<1>14. ForwardedWasAccepted'
  <2> logs' = logs
    BY DEF Submit
  <2> QED  BY <1>11, ForwardedBacked, ForwardedBackedNext DEF AcceptInv
<1> QED  BY <1>13, <1>14 DEF AcceptInv

(* Only a worker about to record marks a document as forwarded, under the  *)
(* sum it submitted.                                                       *)
LEMMA AcceptWrite ==
  ASSUME AcceptInv, UNCHANGED <<tasks, misread>>, NEW w \in Workers,
         Len(logs') = Len(logs),
         \A v \in Workers : worker'[v] = worker[v] \/ worker'[v].pc # "record",
         \A i \in 1..Len(logs) : i # worker[w].doc => logs'[i] = logs[i],
         logs'[worker[w].doc].forwarded =>
           /\ worker[w].pc = "record"
           /\ logs'[worker[w].doc].cape_sha256 = worker[w].sha
  PROVE  AcceptInv'
<1>1. RecordBacked'
  BY DEF AcceptInv, RecordBacked, Backed
<1>2. ForwardedWasAccepted'
  <2> SUFFICES ASSUME NEW i \in 1..Len(logs), logs'[i].forwarded
               PROVE  Backed(i, logs'[i].cape_sha256)
    BY ForwardedBackedNext DEF Backed
  <2>1. CASE i = worker[w].doc
    BY <2>1 DEF AcceptInv, RecordBacked
  <2>2. CASE i # worker[w].doc
    BY <2>2, ForwardedBacked DEF AcceptInv
  <2> QED  BY <2>1, <2>2
<1> QED  BY <1>1, <1>2 DEF AcceptInv

LEMMA AcceptOutcome ==
  ASSUME TypeOK, AcceptInv, NEW w \in Workers,
         BuryMissing(w) \/ BuryDuplicate(w) \/ Record(w) \/ Fail(w)
  PROVE  AcceptInv'
<1>1. /\ Len(logs') = Len(logs)
      /\ tasks' = tasks /\ worker' = [worker EXCEPT ![w] = Idle]
      /\ \A i \in 1..Len(logs) : i # worker[w].doc => logs'[i] = logs[i]
      /\ logs'[worker[w].doc].forwarded =>
           /\ worker[w].pc = "record"
           /\ logs'[worker[w].doc].cape_sha256 = worker[w].sha
  BY OutcomeEffect
<1>2. misread' = misread
  BY DEF BuryMissing, BuryDuplicate, Record, Fail, Finish
<1>3. \A v \in Workers : worker'[v] = worker[v] \/ worker'[v].pc # "record"
  BY <1>1, DropEffect
<1> QED  BY <1>1, <1>2, <1>3, AcceptWrite

LEMMA AcceptRaises ==
  ASSUME TypeOK, AcceptInv, NEW w \in Workers, WriteFails(w)
  PROVE  AcceptInv'
<1>1. /\ UNCHANGED <<tasks, misread>> /\ Len(logs') = Len(logs)
      /\ worker[w].doc \in 1..Len(logs) /\ worker[w].pc # "idle"
  BY RaisesEffect
<1>2. \A v \in Workers : worker'[v] = worker[v] \/ worker'[v].pc # "record"
  BY RaisesKeeps
<1>3. CASE UNCHANGED <<logs, lapsed>>
  BY <1>1, <1>2, <1>3, AcceptSame
<1>4. CASE \E doc \in UploadDoc :
             /\ Write(w, doc)
             /\ doc.forwarded => /\ worker[w].pc = "record"
                                 /\ doc.cape_sha256 = worker[w].sha
  <2>1. /\ \A i \in 1..Len(logs) : i # worker[w].doc => logs'[i] = logs[i]
        /\ logs'[worker[w].doc].forwarded =>
             /\ worker[w].pc = "record"
             /\ logs'[worker[w].doc].cape_sha256 = worker[w].sha
    BY <1>1, <1>4, WriteEffect
  <2> QED  BY <1>1, <1>2, <2>1, AcceptWrite
<1> QED  BY <1>3, <1>4, RaisesEffect

(* The other steps before the outcome start no recording.                  *)
LEMMA AcceptWork ==
  ASSUME TypeOK, AcceptInv, NEW w \in Workers,
         \/ FileMissing(w) \/ FileFound(w) \/ Dedup(w)
         \/ SubmitNoFile(w)
  PROVE  AcceptInv'
<1>1. /\ \A v \in Workers : v # w => worker'[v] = worker[v]
      /\ UNCHANGED logs
  BY WorkEffect
<1>2. UNCHANGED <<tasks, misread>>
  BY DEF FileMissing, FileFound, Dedup, SubmitNoFile
<1>3. worker'[w].pc # "record"
  <2> worker \in [Workers -> WorkerRecord]
    BY WorkersFit DEF TypeOK
  <2>1. CASE FileMissing(w)
    BY <2>1 DEF FileMissing, Goto, WorkerRecord
  <2>2. CASE FileFound(w)
    <3>1. PICK j, sha :
            worker' = [worker EXCEPT ![w].pc = "dedup", ![w].file = j,
                                     ![w].sha = sha]
      BY <2>2 DEF FileFound
    <3> QED  BY <3>1 DEF WorkerRecord
  <2>3. CASE Dedup(w)
    BY <2>3 DEF Dedup, Goto, WorkerRecord
  <2>4. CASE SubmitNoFile(w)
    BY <2>4 DEF SubmitNoFile, Goto, WorkerRecord
  <2> QED  BY <2>1, <2>2, <2>3, <2>4
<1> QED  BY <1>1, <1>2, <1>3, AcceptSame

(* Recordings and marks are backed by submissions in every state.          *)
LEMMA AcceptInvariant == Spec => []AcceptInv
<1>1. Init => AcceptInv
  <2> SUFFICES ASSUME Init PROVE AcceptInv
    OBVIOUS
  <2>1. \A w \in Workers : worker[w].pc = "idle"
    BY DEF Init, Idle
  <2>2. Len(logs) = 0
    BY EmptySeq DEF Init
  <2> QED  BY <2>1, <2>2, ForwardedBacked DEF AcceptInv, RecordBacked
<1>2. TypeOK /\ AcceptInv /\ [Next]_vars => AcceptInv'
  <2> SUFFICES ASSUME TypeOK, AcceptInv, [Next]_vars PROVE AcceptInv'
    OBVIOUS
  <2>1. CASE UNCHANGED vars
    BY <2>1, AcceptSame DEF vars
  <2>2. CASE Upload
    BY <2>2, AcceptUpload
  <2>3. CASE CapeReport \/ Tick \/ FilesChange
    BY <2>3, AcceptSame DEF CapeReport, Tick, FilesChange
  <2>4. ASSUME NEW w \in Workers, WorkerStep(w) \/ Crash(w) PROVE AcceptInv'
    <3>1. CASE Crash(w)
      BY <3>1, DropEffect, AcceptSame DEF Crash
    <3>2. CASE PollNothing(w)
      BY <3>2, <2>1 DEF PollNothing
    <3> QED  BY <2>4, <3>1, <3>2, AcceptClaim, AcceptWork, AcceptSubmit,
               AcceptOutcome, AcceptRaises DEF WorkerStep
  <2> QED  BY <2>1, <2>2, <2>3, <2>4 DEF Next
<1> QED  BY <1>1, <1>2, TypeCorrect, PTL DEF Spec

(* A document that says forwarded was accepted by CAPE, under the sum it   *)
(* says, or CAPE answered that submission as if it had: through lost       *)
(* answers, updates that raise, applied or not, crashes and stale locks.   *)
THEOREM ForwardedMeansAccepted == Spec => []ForwardedWasAccepted
<1>1. AcceptInv => ForwardedWasAccepted
  BY DEF AcceptInv
<1> QED  BY <1>1, AcceptInvariant, PTL

-----------------------------------------------------------------------------
(* Every behaviour of the forwarder is one of a queue with leases: the     *)
(* initial states correspond, and every step is one of the queue or leaves *)
(* the queue as it is.                                                     *)


(* What the forwarder is, seen as a queue.                                 *)
Holds == [w \in Workers |-> worker[w].doc]
AcceptedIds ==
  {i \in 1..Len(logs) :
     \/ \E k \in 1..Len(tasks) : tasks[k].doc = i
     \/ \E m \in misread : m[1] = i}
ForwardedIds == {i \in 1..Len(logs) : logs[i].forwarded}
DeadIds == {i \in 1..Len(logs) : logs[i].dead}

QueueView == <<Len(logs), Holds, lapsed, AcceptedIds, ForwardedIds, DeadIds>>

LEMMA QueueInit == Init => Queue!Init
<1> SUFFICES ASSUME Init PROVE Queue!Init
  OBVIOUS
<1>1. Len(logs) = 0
  BY EmptySeq DEF Init
<1>2. AcceptedIds = {} /\ ForwardedIds = {} /\ DeadIds = {}
  BY <1>1 DEF AcceptedIds, ForwardedIds, DeadIds
<1>3. Holds = [w \in Workers |-> None] /\ lapsed = {}
  BY DEF Init, Idle, Holds
<1> QED  BY <1>1, <1>2, <1>3
         DEF Queue!Init, Holds, AcceptedIds, ForwardedIds, DeadIds

(* Nothing a queue can see has changed.                                    *)
LEMMA Unseen ==
  ASSUME UNCHANGED <<logs, lapsed>>, AcceptedIds' = AcceptedIds,
         \A v \in Workers : worker'[v].doc = worker[v].doc
  PROVE  UNCHANGED Queue!vars
<1>1. Holds' = Holds
  BY DEF Holds
<1>2. ForwardedIds' = ForwardedIds /\ DeadIds' = DeadIds
  BY DEF ForwardedIds, DeadIds
<1> QED  BY <1>1, <1>2
         DEF Queue!vars, Holds, AcceptedIds, ForwardedIds, DeadIds

(* An upload is offered: the new document is not accepted by anyone yet.   *)
LEMMA UploadOffers ==
  ASSUME TypeOK, Upload
  PROVE  Queue!Offer
<1> DEFINE n == Len(logs)
<1>1. /\ n \in Nat /\ Len(logs') = n + 1
      /\ \A i \in 1..n : logs'[i] = logs[i]
      /\ ~logs'[n + 1].forwarded /\ ~logs'[n + 1].dead
      /\ UNCHANGED <<worker, tasks, lapsed>>
  BY UploadEffect
<1>2. \A k \in 1..Len(tasks) : tasks[k].doc \in 1..n
  <2> DEFINE T == [doc : 1..n, sha : Contents, content : Contents, at : Nat]
  <2>1. tasks \in Seq(T)
    BY DEF TypeOK, CapeOK
  <2> HIDE DEF T
  <2>2. \A k \in 1..Len(tasks) : tasks[k] \in T
    BY <2>1, ElementOfSeq
  <2> QED  BY <2>2 DEF T
<1>a. misread' = misread /\ \A m \in misread : m[1] \in 1..n
  BY DEF Upload, TypeOK, CapeOK
<1> HIDE DEF n
<1>3. \A i \in 1..(n + 1) : i \in 1..n \/ i = n + 1
  BY <1>1
<1>4. 1..n \subseteq 1..(n + 1)
  BY <1>1
<1>5. AcceptedIds' = AcceptedIds
  BY <1>1, <1>2, <1>a, <1>3, <1>4 DEF AcceptedIds, n
<1>6. ForwardedIds' = ForwardedIds
  BY <1>1, <1>3, <1>4 DEF ForwardedIds, n
<1>7. DeadIds' = DeadIds
  BY <1>1, <1>3, <1>4 DEF DeadIds, n
<1>8. Holds' = Holds
  BY <1>1 DEF Holds
<1> QED  BY <1>1, <1>5, <1>6, <1>7, <1>8
         DEF Queue!Offer, Holds, AcceptedIds, ForwardedIds, DeadIds, n

(* A claim is a lease: a document another worker holds, whose lock nobody  *)
(* took over, is locked, so taking it counts as taking over.               *)
LEMMA ClaimLeases ==
  ASSUME TypeOK, HeldIsLocked, NEW w \in Workers, Claim(w)
  PROVE  Queue!Lease(w)
<1>1. PICK i \in 1..Len(logs) :
        /\ ~logs[i].dead
        /\ logs[i].processing => i \in lapsed'
        /\ lapsed \subseteq lapsed'
        /\ worker'[w].doc = i
        /\ \A v \in Workers : v # w => worker'[v] = worker[v]
        /\ Len(logs') = Len(logs)
        /\ \A j \in 1..Len(logs) : /\ logs'[j].forwarded = logs[j].forwarded
                                   /\ logs'[j].dead = logs[j].dead
  BY ClaimEffect
<1>2. lapsed' \in {lapsed, lapsed \cup {i}}
  <2>1. PICK j \in Claimable :
          /\ worker' = [worker EXCEPT ![w] =
               [pc |-> "locate", doc |-> j, file |-> None, sha |-> None,
                claimed |-> now]]
          /\ lapsed' = lapsed \/ lapsed' = lapsed \cup {j}
    BY DEF Claim
  <2>2. worker'[w].doc = j
    BY <2>1 DEF TypeOK, WorkersOK
  <2> QED  BY <1>1, <2>1, <2>2
<1>3. worker[w].doc = None
  BY DEF Claim, TypeOK, WorkersOK
<1>4. Holds' = [Holds EXCEPT ![w] = i]
  BY <1>1 DEF Holds
<1>5. \A v \in Workers : Holds[v] = i => i \in lapsed'
  <2> SUFFICES ASSUME NEW v \in Workers, worker[v].doc = i PROVE i \in lapsed'
    BY DEF Holds
  <2>1. i # None
    BY <1>1, LogFacts DEF TypeOK, None
  <2> QED  BY <1>1, <2>1 DEF HeldIsLocked
<1>6. AcceptedIds' = AcceptedIds
  BY <1>1 DEF Claim, AcceptedIds
<1>7. ForwardedIds' = ForwardedIds /\ DeadIds' = DeadIds
  BY <1>1 DEF ForwardedIds, DeadIds
<1>8. Holds[w] = None /\ i \in (1..Len(logs)) \ DeadIds
  BY <1>1, <1>3 DEF Holds, DeadIds
<1> QED  BY <1>1, <1>2, <1>4, <1>5, <1>6, <1>7, <1>8
         DEF Queue!Lease, Holds, AcceptedIds, ForwardedIds, DeadIds

(* A POST that CAPE took, or that was answered, is an acceptance; one that *)
(* is neither is nothing.                                                  *)
LEMMA SubmitAccepts ==
  ASSUME TypeOK, NEW w \in Workers, Submit(w)
  PROVE  Queue!Accept(w) \/ UNCHANGED Queue!vars
<1>1. PICK taken \in BOOLEAN, answered \in BOOLEAN : Post(w, taken, answered)
  BY DEF Submit
<1>2. /\ \A v \in Workers : worker'[v].doc = worker[v].doc
      /\ UNCHANGED <<logs, lapsed>>
  BY WorkEffect
<1> DEFINE t == [doc |-> worker[w].doc, sha |-> worker[w].sha,
                 content |-> stored[worker[w].file], at |-> now]
           T == [doc : 1..Len(logs), sha : Contents, content : Contents, at : Nat]
<1>3. WorkerFits(worker[w]) /\ worker[w] \in WorkerRecord
  BY WorkersFit DEF TypeOK
<1>4. /\ worker[w].doc \in 1..Len(logs) /\ worker[w].sha \in Contents
      /\ worker[w].file \in 1..Len(logs) /\ worker[w].doc # None
  BY <1>3 DEF Submit, WorkerFits, WorkerRecord
<1>5. t \in T /\ t.doc = worker[w].doc
  BY <1>4, LogFacts DEF Submit, TypeOK, CapeOK
<1>6. tasks \in Seq(T)
  BY DEF TypeOK, CapeOK
<1>7. /\ tasks' = IF taken THEN Append(tasks, t) ELSE tasks
      /\ misread' = IF answered /\ ~taken
                    THEN misread \cup {<<worker[w].doc, worker[w].sha>>}
                    ELSE misread
  BY <1>1 DEF Post
<1> HIDE DEF t, T
<1>8. CASE ~taken /\ ~answered
  <2>1. AcceptedIds' = AcceptedIds
    BY <1>2, <1>7, <1>8 DEF AcceptedIds
  <2> QED  BY <1>2, <2>1, Unseen
<1>9. CASE taken \/ answered
  <2> DEFINE Submitted(i) == \E k \in 1..Len(tasks) : tasks[k].doc = i
             Misread(i) == \E m \in misread : m[1] = i
  <2>1. \A i : (\E k \in 1..Len(tasks') : tasks'[k].doc = i)
           <=> Submitted(i) \/ (taken /\ i = worker[w].doc)
    <3>1. CASE taken
      <4>1. /\ Len(tasks) \in Nat /\ Len(tasks') = Len(tasks) + 1
            /\ \A k \in 1..Len(tasks) : tasks'[k] = tasks[k]
            /\ tasks'[Len(tasks) + 1] = t
        BY <1>5, <1>6, <1>7, <3>1, AppendProperties, LenProperties
      <4>2. /\ 1..Len(tasks) \subseteq 1..Len(tasks')
            /\ Len(tasks) + 1 \in 1..Len(tasks')
            /\ \A k \in 1..Len(tasks') : k \in 1..Len(tasks) \/ k = Len(tasks) + 1
        BY <4>1
      <4> QED  BY <1>5, <3>1, <4>1, <4>2
    <3>2. CASE ~taken
      BY <1>7, <3>2
    <3> QED  BY <3>1, <3>2
  <2>2. \A i : (\E m \in misread' : m[1] = i)
           <=> Misread(i) \/ (answered /\ ~taken /\ i = worker[w].doc)
    <3>1. CASE answered /\ ~taken
      <4> DEFINE a == <<worker[w].doc, worker[w].sha>>
      <4>1. misread' = misread \cup {a} /\ a[1] = worker[w].doc
        BY <1>7, <3>1
      <4> HIDE DEF a
      <4> QED  BY <3>1, <4>1
    <3>2. CASE ~(answered /\ ~taken)
      <4>1. misread' = misread
        BY <1>7, <3>2
      <4> QED  BY <3>2, <4>1
    <3> QED  BY <3>1, <3>2
  <2>3. AcceptedIds' = AcceptedIds \cup {worker[w].doc}
    <3>1. AcceptedIds = {i \in 1..Len(logs) : Submitted(i) \/ Misread(i)}
      BY DEF AcceptedIds
    <3>2. AcceptedIds' = {i \in 1..Len(logs) :
                            Submitted(i) \/ Misread(i) \/ i = worker[w].doc}
      BY <1>2, <1>9, <2>1, <2>2 DEF AcceptedIds
    <3> HIDE DEF Submitted, Misread
    <3> QED  BY <1>4, <3>1, <3>2
  <2>4. Holds' = Holds /\ Holds[w] = worker[w].doc
    BY <1>2 DEF Holds
  <2>5. ForwardedIds' = ForwardedIds /\ DeadIds' = DeadIds
    BY <1>2 DEF ForwardedIds, DeadIds
  <2>6. /\ Len(logs)' = Len(logs) /\ lapsed' = lapsed
        /\ Holds[w] # None /\ AcceptedIds' = AcceptedIds \cup {Holds[w]}
        /\ Holds' = Holds /\ ForwardedIds' = ForwardedIds /\ DeadIds' = DeadIds
    BY <1>2, <1>4, <2>3, <2>4, <2>5
  <2> QED  BY <2>6, Zenon
           DEF Queue!Accept, Holds, AcceptedIds, ForwardedIds, DeadIds
<1> QED  BY <1>8, <1>9

(* The other steps before the outcome are the worker's own.                *)
LEMMA WorkUnseen ==
  ASSUME TypeOK, NEW w \in Workers,
         FileMissing(w) \/ FileFound(w) \/ Dedup(w) \/ SubmitNoFile(w)
  PROVE  UNCHANGED Queue!vars
<1>1. UNCHANGED <<logs, tasks, lapsed, misread>>
  BY DEF FileMissing, FileFound, Dedup, SubmitNoFile
<1>2. \A v \in Workers : worker'[v].doc = worker[v].doc
  BY WorkEffect
<1>3. AcceptedIds' = AcceptedIds
  BY <1>1 DEF AcceptedIds
<1> QED  BY <1>1, <1>2, <1>3, Unseen

(* Whatever a worker writes back, the two marks of its document change.    *)
LEMMA WriteMarks ==
  ASSUME TypeOK, NEW w \in Workers, worker[w].pc # "idle",
         NEW doc \in UploadDoc, Write(w, doc), UNCHANGED <<tasks, misread>>
  PROVE  /\ Holds[w] = worker[w].doc /\ Holds[w] # None
         /\ Len(logs') = Len(logs) /\ AcceptedIds' = AcceptedIds
         /\ ForwardedIds' = IF doc.forwarded
                            THEN ForwardedIds \cup {worker[w].doc}
                            ELSE ForwardedIds \ {worker[w].doc}
         /\ DeadIds' = IF doc.dead THEN DeadIds \cup {worker[w].doc}
                       ELSE DeadIds \ {worker[w].doc}
<1> DEFINE i == worker[w].doc
<1>1. /\ i \in 1..Len(logs) /\ Len(logs') = Len(logs)
      /\ logs'[i].forwarded = doc.forwarded /\ logs'[i].dead = doc.dead
      /\ \A j \in 1..Len(logs) : j # i => logs'[j] = logs[j]
  BY WriteEffect
<1>2. doc.forwarded \in BOOLEAN /\ doc.dead \in BOOLEAN
  BY DEF UploadDoc
<1>3. Holds[w] = i /\ i # None
  BY <1>1, WorkerFacts DEF Holds
<1> HIDE DEF i
<1>4. AcceptedIds' = AcceptedIds
  BY <1>1 DEF AcceptedIds
<1>5. ForwardedIds' = IF doc.forwarded THEN ForwardedIds \cup {i}
                      ELSE ForwardedIds \ {i}
  BY <1>1, <1>2 DEF ForwardedIds
<1>6. DeadIds' = IF doc.dead THEN DeadIds \cup {i} ELSE DeadIds \ {i}
  BY <1>1, <1>2 DEF DeadIds
<1> QED  BY <1>1, <1>3, <1>4, <1>5, <1>6 DEF i

(* A worker that finishes lets go of its document.                         *)
LEMMA FinishReleases ==
  ASSUME TypeOK, NEW w \in Workers, worker[w].pc # "idle",
         NEW doc \in UploadDoc, Finish(w, doc)
  PROVE  Queue!Release(w) /\ Write(w, doc) /\ UNCHANGED <<tasks, misread>>
<1>1. Write(w, doc) /\ UNCHANGED <<tasks, misread, lapsed>>
  BY DEF Finish
<1>2. Holds' = [Holds EXCEPT ![w] = None]
  <2>1. Idle.doc = None
    BY DEF Idle
  <2>2. worker' = [worker EXCEPT ![w] = Idle] /\ worker \in [Workers -> WorkerRecord]
    BY WorkersFit DEF Finish, TypeOK
  <2> QED  BY <2>1, <2>2 DEF Holds
<1>3. /\ Holds[w] # None /\ Len(logs') = Len(logs)
      /\ AcceptedIds' = AcceptedIds
  BY <1>1, WriteMarks
<1> QED  BY <1>1, <1>2, <1>3 DEF Queue!Release, Holds, AcceptedIds

(* One whose update was applied and raised holds it still, unaware.        *)
LEMMA RaisesUnaware ==
  ASSUME TypeOK, NEW w \in Workers, WriteFails(w),
         NEW doc \in UploadDoc, Write(w, doc),
         lapsed' = lapsed \cup {worker[w].doc}
  PROVE  Queue!Unaware(w)
<1>1. worker[w].pc # "idle" /\ UNCHANGED <<tasks, misread>>
  BY RaisesEffect
<1>2. /\ Holds[w] = worker[w].doc /\ Holds[w] # None
      /\ Len(logs') = Len(logs) /\ AcceptedIds' = AcceptedIds
  BY <1>1, WriteMarks
<1>3. Holds' = Holds
  BY RaisesKeeps DEF Holds
<1>4. lapsed' = lapsed \cup {Holds[w]}
  BY <1>2
<1> QED  BY <1>2, <1>3, <1>4 DEF Queue!Unaware, Holds, AcceptedIds

(* Writing a mark as it is keeps the set of those that bear it.            *)
LEMMA SameMark ==
  ASSUME NEW S, NEW e, NEW b \in BOOLEAN, b <=> e \in S
  PROVE  (IF b THEN S \cup {e} ELSE S \ {e}) = S
  OBVIOUS

(* An applied burial discards the job, an applied recording completes it.  *)
LEMMA WriteSettles ==
  ASSUME TypeOK, RecordBacked, NEW w \in Workers, worker[w].pc # "idle",
         NEW doc \in UploadDoc, Write(w, doc), UNCHANGED <<tasks, misread>>,
         Queue!Release(w) \/ Queue!Unaware(w),
         \/ ~doc.forwarded /\ doc.dead
         \/ /\ worker[w].pc = "record" /\ doc.forwarded
            /\ doc.dead = logs[worker[w].doc].dead
  PROVE  Queue!Complete(w) \/ Queue!Discard(w)
<1>1. /\ Holds[w] = worker[w].doc
      /\ ForwardedIds' = IF doc.forwarded
                         THEN ForwardedIds \cup {worker[w].doc}
                         ELSE ForwardedIds \ {worker[w].doc}
      /\ DeadIds' = IF doc.dead THEN DeadIds \cup {worker[w].doc}
                    ELSE DeadIds \ {worker[w].doc}
  BY WriteMarks
<1>2. CASE ~doc.forwarded /\ doc.dead
  <2>1. Queue!Discard(w)
    BY <1>1, <1>2 DEF Queue!Discard, Holds, ForwardedIds, DeadIds
  <2> QED  BY <2>1
<1>3. CASE /\ worker[w].pc = "record" /\ doc.forwarded
           /\ doc.dead = logs[worker[w].doc].dead
  <2>1. worker[w].doc \in 1..Len(logs)
    BY WorkerFacts
  <2>2. doc.dead \in BOOLEAN /\ (doc.dead <=> worker[w].doc \in DeadIds)
    BY <1>3, <2>1 DEF UploadDoc, DeadIds
  <2>3. DeadIds' = DeadIds
    BY <1>1, <2>2, SameMark
  <2>4. Holds[w] \in AcceptedIds
    <3>1. Backed(worker[w].doc, worker[w].sha)
      BY <1>3 DEF RecordBacked
    <3> QED  BY <1>1, <2>1, <3>1 DEF Backed, AcceptedIds
  <2>5. Queue!Complete(w)
    BY <1>1, <1>3, <2>3, <2>4
    DEF Queue!Complete, Holds, AcceptedIds, ForwardedIds, DeadIds
  <2> QED  BY <2>5
<1> QED  BY <1>2, <1>3

(* An update that raises settles the job behind the worker's back, or does *)
(* nothing.                                                                *)
LEMMA RaisesSettles ==
  ASSUME TypeOK, RecordBacked, NEW w \in Workers, WriteFails(w)
  PROVE  Queue!Complete(w) \/ Queue!Discard(w) \/ UNCHANGED Queue!vars
<1>1. worker[w].pc # "idle" /\ UNCHANGED <<tasks, misread>>
  BY RaisesEffect
<1>2. CASE UNCHANGED <<logs, lapsed>>
  <2>1. AcceptedIds' = AcceptedIds
    BY <1>1, <1>2 DEF AcceptedIds
  <2> QED  BY <1>2, <2>1, RaisesKeeps, Unseen
<1>3. ASSUME NEW doc \in UploadDoc, Write(w, doc),
             lapsed' = lapsed \cup {worker[w].doc},
             \/ ~doc.forwarded /\ doc.dead
             \/ /\ worker[w].pc = "record" /\ doc.forwarded
                /\ doc.dead = logs[worker[w].doc].dead
      PROVE  Queue!Complete(w) \/ Queue!Discard(w)
  BY <1>1, <1>3, RaisesUnaware, WriteSettles
<1> QED  BY <1>2, <1>3, RaisesEffect

(* A recorded submission completes the job, a burial discards it, and a    *)
(* failure returns it.                                                     *)
LEMMA OutcomeReleases ==
  ASSUME TypeOK, RecordBacked, NEW w \in Workers,
         BuryMissing(w) \/ BuryDuplicate(w) \/ Record(w) \/ Fail(w)
  PROVE  Queue!Complete(w) \/ Queue!Discard(w) \/ Queue!Return(w)
<1>1. ASSUME NEW doc \in UploadDoc, Finish(w, doc), worker[w].pc # "idle",
             \/ ~doc.forwarded /\ doc.dead
             \/ /\ worker[w].pc = "record" /\ doc.forwarded
                /\ doc.dead = logs[worker[w].doc].dead
      PROVE  Queue!Complete(w) \/ Queue!Discard(w)
  BY <1>1, FinishReleases, WriteSettles
<1>2. CASE BuryMissing(w)
  <2>1. Finish(w, Buried(w)) /\ worker[w].pc # "idle"
    BY <1>2 DEF BuryMissing
  <2> QED  BY <1>1, <2>1, OutcomeDocs
<1>3. CASE BuryDuplicate(w)
  <2>1. Finish(w, BuriedDuplicate(w)) /\ worker[w].pc # "idle"
    BY <1>3 DEF BuryDuplicate
  <2> QED  BY <1>1, <2>1, OutcomeDocs
<1>4. CASE Record(w)
  <2>1. Finish(w, Recorded(w)) /\ worker[w].pc = "record"
    BY <1>4 DEF Record
  <2> QED  BY <1>1, <2>1, OutcomeDocs
<1>5. CASE Fail(w)
  <2> DEFINE d == [Held(w) EXCEPT !.forwarded = FALSE]
  <2>1. worker[w].pc # "idle" /\ Finish(w, d)
    BY <1>5 DEF Fail
  <2>2. /\ worker[w].doc \in 1..Len(logs) /\ d \in UploadDoc
        /\ ~d.forwarded /\ d.dead = logs[worker[w].doc].dead
    BY <2>1, OutcomeDocs
  <2> HIDE DEF d
  <2>3. /\ Queue!Release(w) /\ Holds[w] = worker[w].doc
        /\ ForwardedIds' = ForwardedIds \ {worker[w].doc}
        /\ DeadIds' = IF d.dead THEN DeadIds \cup {worker[w].doc}
                      ELSE DeadIds \ {worker[w].doc}
    BY <2>1, <2>2, FinishReleases, WriteMarks
  <2>4. d.dead \in BOOLEAN /\ (d.dead <=> worker[w].doc \in DeadIds)
    BY <2>2 DEF UploadDoc, DeadIds
  <2>5. DeadIds' = DeadIds
    BY <2>3, <2>4, SameMark
  <2>6. Queue!Return(w)
    BY <2>3, <2>5 DEF Queue!Return, Holds, ForwardedIds, DeadIds
  <2> QED  BY <2>6
<1> QED  BY <1>2, <1>3, <1>4, <1>5

(* A worker that dies lets go, and its mark stays with the document.       *)
LEMMA CrashDies ==
  ASSUME TypeOK, NEW w \in Workers, Crash(w)
  PROVE  Queue!Die(w)
<1>1. worker \in [Workers -> WorkerRecord] /\ worker[w].doc # None
  BY WorkersFit DEF Crash, TypeOK, WorkerFits
<1>2. Holds[w] # None /\ Holds' = [Holds EXCEPT ![w] = None]
  <2>1. Idle.doc = None
    BY DEF Idle
  <2> QED  BY <1>1, <2>1 DEF Crash, Holds
<1>3. UNCHANGED <<logs, tasks, lapsed, misread>>
  BY DEF Crash
<1>4. UNCHANGED <<AcceptedIds, ForwardedIds, DeadIds>>
  BY <1>3 DEF AcceptedIds, ForwardedIds, DeadIds
<1> QED  BY <1>2, <1>3, <1>4
         DEF Queue!Die, Queue!Release, Holds, AcceptedIds, ForwardedIds, DeadIds

(* The forwarder implements a queue with leases, for any number of workers *)
(* and through every fault: exclusive unless a lease lapsed, complete only *)
(* after an acceptance, never handed out again once discarded, a holder's  *)
(* ignorance of what it settled included.                                  *)
THEOREM ForwarderIsLeasedQueue == Spec => IsLeasedQueue
<1>1. Init => Queue!Init
  BY QueueInit
<1>2. TypeOK /\ LockInv /\ AcceptInv /\ [Next]_vars => [Queue!Next]_(Queue!vars)
  <2> SUFFICES ASSUME TypeOK, LockInv, AcceptInv, [Next]_vars
               PROVE  Queue!Next \/ UNCHANGED Queue!vars
    OBVIOUS
  <2>1. CASE UNCHANGED <<logs, tasks, worker, lapsed, misread>>
    <3>1. AcceptedIds' = AcceptedIds
      BY <2>1 DEF AcceptedIds
    <3> QED  BY <2>1, <3>1, Unseen
  <2>2. CASE Upload
    BY <2>2, UploadOffers DEF Queue!Next
  <2>3. CASE CapeReport \/ Tick \/ FilesChange \/ UNCHANGED vars
    BY <2>1, <2>3 DEF CapeReport, Tick, FilesChange, vars
  <2>4. ASSUME NEW w \in Workers, WorkerStep(w) \/ Crash(w)
        PROVE  Queue!Next \/ UNCHANGED Queue!vars
    <3>1. CASE Claim(w)
      BY <3>1, ClaimLeases DEF LockInv, Queue!Next
    <3>2. CASE Submit(w)
      BY <3>2, SubmitAccepts DEF Queue!Next
    <3>3. CASE BuryMissing(w) \/ BuryDuplicate(w) \/ Record(w) \/ Fail(w)
      BY <3>3, OutcomeReleases DEF AcceptInv, Queue!Next
    <3>4. CASE Crash(w)
      BY <3>4, CrashDies DEF Queue!Next
    <3>5. CASE PollNothing(w)
      BY <2>1, <3>5 DEF PollNothing, vars
    <3>6. CASE WriteFails(w)
      BY <3>6, RaisesSettles DEF AcceptInv, Queue!Next
    <3> QED  BY <2>4, <3>1, <3>2, <3>3, <3>4, <3>5, <3>6, WorkUnseen
             DEF WorkerStep
  <2> QED  BY <2>2, <2>3, <2>4 DEF Next
<1> QED  BY <1>1, <1>2, TypeCorrect, LockInvariant, AcceptInvariant, PTL
         DEF Spec, IsLeasedQueue, Queue!Spec

-----------------------------------------------------------------------------
(* Why a document that is claimed over and over is not submitted over and  *)
(* over: while nothing fails, a document whose lock was never taken over   *)
(* as stale carries the time of its last submission in updated_at, and the *)
(* duplicate check of its next claim reads it.                             *)


(* Every stored file is there, with the content that was logged.           *)
Intact == \A i \in 1..Len(logs) : stored[i] = logs[i].sha256

(* The sum a worker looks for and submits is the logged one.               *)
SumIsLogged ==
  \A w \in Workers :
    worker[w].pc \in {"dedup", "duplicate", "submit", "record"}
    => worker[w].sha = logs[worker[w].doc].sha256

(* Submissions are in the past, and later than the value None.             *)
Past ==
  /\ now >= 1
  /\ \A k \in 1..Len(tasks) : 1 <= tasks[k].at /\ tasks[k].at <= now

(* The outcome of the last submission is still to be written, or will      *)
(* never be because the worker died: the lock is still there.              *)
Attended(i) ==
  \/ \E w \in Workers : worker[w].doc = i /\ worker[w].pc = "record"
  \/ logs[i].processing /\ \A w \in Workers : worker[w].doc # i

(* Otherwise the document carries its time.                                *)
Noted ==
  \A k \in 1..Len(tasks) :
    \/ tasks[k].doc \in lapsed
    \/ tasks[k].at <= logs[tasks[k].doc].updated_at
    \/ Attended(tasks[k].doc)

Apart(at, t) == DedupWindow # 0 /\ at + DedupWindow < t

(* A worker that may submit has seen that no submission is recent.         *)
Clear ==
  \A w \in Workers, k \in 1..Len(tasks) :
    worker[w].pc = "submit" /\ worker[w].doc = tasks[k].doc
    => tasks[k].doc \in lapsed \/ Apart(tasks[k].at, now)

PairsApart ==
  \A j, k \in 1..Len(tasks) :
    j < k /\ tasks[j].doc = tasks[k].doc
    => tasks[k].doc \in lapsed \/ Apart(tasks[j].at, tasks[k].at)

Spaced == Intact /\ SumIsLogged /\ Past /\ Noted /\ Clear /\ PairsApart

SpaceInv == faults = 0 => Spaced

-----------------------------------------------------------------------------
(* What the type invariant says of the submissions.                        *)
LEMMA TaskFacts ==
  ASSUME TypeOK
  PROVE  /\ Len(tasks) \in Nat
         /\ \A k \in 1..Len(tasks) :
              tasks[k].doc \in 1..Len(logs) /\ tasks[k].at \in Nat
<1> DEFINE T == [doc : 1..Len(logs), sha : Contents, content : Contents, at : Nat]
<1>1. tasks \in Seq(T)
  BY DEF TypeOK, CapeOK
<1>2. \A t \in T : t.doc \in 1..Len(logs) /\ t.at \in Nat
  OBVIOUS
<1> HIDE DEF T
<1>3. Len(tasks) \in Nat /\ \A k \in 1..Len(tasks) : tasks[k] \in T
  BY <1>1, ElementOfSeq, LenProperties
<1> QED  BY <1>2, <1>3

(* Time passes, CAPE reports, nothing happens.                             *)
LEMMA SpaceSame ==
  ASSUME ForwarderAssumption, TypeOK, Spaced,
         UNCHANGED <<logs, stored, worker, tasks, lapsed>>,
         now' = now \/ now' = now + 1
  PROVE  Spaced'
<1> USE DEF Spaced
<1>1. now \in Nat /\ DedupWindow \in Nat
  BY DEF TypeOK, CapeOK, ForwarderAssumption
<1>2. Intact' /\ SumIsLogged'
  BY DEF Intact, SumIsLogged
<1>3. Past'
  BY <1>1, TaskFacts DEF Past
<1>4. Noted'
  BY DEF Noted, Attended
<1>5. Clear'
  BY <1>1, TaskFacts DEF Clear, Apart
<1>6. PairsApart'
  BY DEF PairsApart, Apart
<1> QED  BY <1>2, <1>3, <1>4, <1>5, <1>6

(* An upload that nothing interferes with is stored as it is logged.       *)
LEMMA SpaceUpload ==
  ASSUME TypeOK, Spaced, Upload, faults = 0, faults' = 0
  PROVE  Spaced'
<1> USE DEF Spaced
<1>1. PICK sha \in Contents, name \in Names, onDisk \in Contents \cup {None} :
        /\ onDisk = sha \/ faults' = faults + 1
        /\ logs' = Append(logs,
            [sha256 |-> sha, filename |-> name, timestamp |-> now,
             forwarded |-> FALSE, dead |-> FALSE, processing |-> FALSE,
             processing_at |-> 0, updated_at |-> None, cape_sha256 |-> None,
             duplicate_of |-> None])
        /\ stored' = Append(stored, onDisk)
  BY DEF Upload
<1>2. onDisk = sha
  BY <1>1
<1> DEFINE d == [sha256 |-> sha, filename |-> name, timestamp |-> now,
             forwarded |-> FALSE, dead |-> FALSE, processing |-> FALSE,
             processing_at |-> 0, updated_at |-> None, cape_sha256 |-> None,
             duplicate_of |-> None]
<1>3. d \in UploadDoc /\ d.sha256 = sha
  BY DEF UploadDoc, None, TypeOK, CapeOK
<1>4. logs' = Append(logs, d)
  BY <1>1
<1> HIDE DEF d
<1>5. /\ Len(logs) \in Nat /\ Len(logs') = Len(logs) + 1
      /\ logs'[Len(logs) + 1] = d
      /\ \A i \in 1..Len(logs) : logs'[i] = logs[i]
  BY <1>3, <1>4, LenProperties, AppendProperties DEF TypeOK, LogsOK
<1>6. /\ stored'[Len(logs) + 1] = onDisk
      /\ \A i \in 1..Len(logs) : stored'[i] = stored[i]
  BY <1>1, LenProperties, AppendProperties DEF TypeOK, LogsOK
<1>7. UNCHANGED <<worker, tasks, now, lapsed>>
  BY DEF Upload
<1>8. Intact'
  BY <1>2, <1>3, <1>5, <1>6 DEF Intact
<1>9. SumIsLogged'
  <2>1. \A w \in Workers : worker[w].pc # "idle" => worker[w].doc \in 1..Len(logs)
    BY WorkerFacts
  <2> QED  BY <2>1, <1>5, <1>7 DEF SumIsLogged
<1>10. Past' /\ Clear' /\ PairsApart'
  BY <1>7 DEF Past, Clear, PairsApart, Apart
<1>11. Noted'
  BY <1>5, <1>7, TaskFacts DEF Noted, Attended
<1> QED  BY <1>8, <1>9, <1>10, <1>11

(* A claim leaves the sums and the times of updates alone.                 *)
LEMMA ClaimKeeps ==
  ASSUME TypeOK, NEW w \in Workers, Claim(w)
  PROVE  /\ \A j \in 1..Len(logs) :
              /\ logs'[j].sha256 = logs[j].sha256
              /\ logs'[j].updated_at = logs[j].updated_at
         /\ UNCHANGED <<stored, tasks, now>>
<1>1. PICK i \in Claimable :
        logs' = [logs EXCEPT ![i].processing = TRUE, ![i].processing_at = now]
  BY DEF Claim
<1> DEFINE d == [logs[i] EXCEPT !.processing = TRUE, !.processing_at = now]
<1>2. i \in 1..Len(logs) /\ logs[i] \in UploadDoc /\ now \in Nat
  BY LogFacts DEF Claimable, TypeOK, CapeOK
<1>3. /\ d \in UploadDoc /\ d.sha256 = logs[i].sha256
      /\ d.updated_at = logs[i].updated_at
  BY <1>2 DEF UploadDoc
<1>4. logs' = [logs EXCEPT ![i] = d]
  BY <1>1, <1>2 DEF TypeOK, LogsOK
<1> HIDE DEF d
<1>5. /\ logs'[i] = d
      /\ \A j \in 1..Len(logs) : j # i => logs'[j] = logs[j]
  BY <1>2, <1>3, <1>4, ExceptSeq DEF TypeOK, LogsOK
<1> QED  BY <1>3, <1>5 DEF Claim

(* A claim of a document whose worker died is a take-over.                 *)
LEMMA SpaceClaim ==
  ASSUME TypeOK, Spaced, NEW w \in Workers, Claim(w)
  PROVE  Spaced'
<1> USE DEF Spaced
<1>1. PICK i \in 1..Len(logs) :
        /\ logs[i].processing => i \in lapsed'
        /\ lapsed \subseteq lapsed'
        /\ worker'[w].doc = i /\ worker'[w].pc = "locate"
        /\ \A v \in Workers : v # w => worker'[v] = worker[v]
        /\ Len(logs') = Len(logs) /\ logs'[i].processing
        /\ \A j \in 1..Len(logs) : j # i => logs'[j] = logs[j]
  BY ClaimEffect
<1>2. /\ \A j \in 1..Len(logs) :
           /\ logs'[j].sha256 = logs[j].sha256
           /\ logs'[j].updated_at = logs[j].updated_at
      /\ UNCHANGED <<stored, tasks, now>>
  BY ClaimKeeps
<1>3. \A v \in Workers : worker[v].pc # "idle" => worker[v].doc \in 1..Len(logs)
  BY WorkerFacts
<1>4. worker[w].pc = "idle"
  BY DEF Claim
<1>5. Intact'
  BY <1>1, <1>2 DEF Intact
<1>6. SumIsLogged'
  BY <1>1, <1>2, <1>3 DEF SumIsLogged
<1>7. Past'
  BY <1>2 DEF Past
<1>8. Noted'
  <2> SUFFICES ASSUME NEW k \in 1..Len(tasks)
               PROVE  \/ tasks[k].doc \in lapsed'
                      \/ tasks[k].at <= logs'[tasks[k].doc].updated_at
                      \/ Attended(tasks[k].doc)'
    BY <1>2 DEF Noted, Attended
  <2> DEFINE c == tasks[k].doc
  <2>1. c \in 1..Len(logs)
    BY TaskFacts
  <2>2. CASE c \in lapsed
    BY <1>1, <2>2
  <2>3. CASE tasks[k].at <= logs[c].updated_at
    BY <1>2, <2>1, <2>3
  <2>4. CASE \E v \in Workers : worker[v].doc = c /\ worker[v].pc = "record"
    BY <1>1, <1>2, <1>4, <2>4 DEF Attended
  <2>5. CASE logs[c].processing /\ \A v \in Workers : worker[v].doc # c
    <3>1. CASE c = i
      BY <1>1, <2>5, <3>1
    <3>2. CASE c # i
      BY <1>1, <1>2, <2>1, <2>5, <3>2 DEF Attended
    <3> QED  BY <3>1, <3>2
  <2> QED  BY <2>2, <2>3, <2>4, <2>5 DEF Noted, Attended
<1>9. Clear'
  BY <1>1, <1>2 DEF Clear
<1>10. PairsApart'
  BY <1>1, <1>2 DEF PairsApart
<1> QED  BY <1>5, <1>6, <1>7, <1>8, <1>9, <1>10

(* The file found is the one the document's upload stored.                 *)
LEMMA FoundItsOwn ==
  ASSUME TypeOK, Intact, NEW i \in 1..Len(logs)
  PROVE  FilesFor(i) = {i}
<1>1. logs[i] \in UploadDoc /\ Len(stored) = Len(logs)
  BY LogFacts DEF TypeOK
<1>2. stored[i] \in Contents
  BY <1>1 DEF Intact, UploadDoc
<1>3. stored[i] # None
  BY <1>2, ForwarderAssumption DEF ForwarderAssumption
<1> QED  BY <1>1, <1>3 DEF FilesFor

(* A check that finds nothing has looked at the document itself, which is  *)
(* alive and locked: what it carries is not recent.                        *)
LEMMA NothingRecent ==
  ASSUME TypeOK, LockInv, Spaced, NEW w \in Workers,
         worker[w].pc = "dedup", ~AlreadyForwarded(worker[w].sha),
         NEW k \in 1..Len(tasks), tasks[k].doc = worker[w].doc,
         tasks[k].doc \notin lapsed
  PROVE  Apart(tasks[k].at, now)
<1> DEFINE i == worker[w].doc
<1>1. i \in 1..Len(logs) /\ i # None
  BY WorkerFacts
<1>2. logs[i].processing /\ ~logs[i].dead
  BY <1>1 DEF LockInv, HeldIsLocked
<1>3. worker[w].sha = logs[i].sha256
  BY DEF Spaced, SumIsLogged
<1>4. ~(logs[i].updated_at # None /\ Recent(logs[i].updated_at))
  BY <1>1, <1>2, <1>3 DEF AlreadyForwarded
<1>5. logs[i].updated_at \in Nat /\ now \in Nat /\ DedupWindow \in Nat
      /\ tasks[k].at \in Nat /\ tasks[k].at >= 1
  <2>1. logs[i] \in UploadDoc
    BY <1>1, LogFacts DEF TypeOK
  <2> QED  BY <2>1, TaskFacts, ForwarderAssumption
           DEF UploadDoc, TypeOK, CapeOK, ForwarderAssumption, Spaced, Past
<1>6. ~Attended(i)
  <2>1. \A v \in Workers : worker[v].doc = i => v = w
    BY <1>1 DEF LockInv, ExclusiveUnlessLapsed
  <2> QED  BY <2>1 DEF Attended
<1>7. tasks[k].at <= logs[i].updated_at
  BY <1>6 DEF Spaced, Noted
<1> DEFINE a == tasks[k].at
           u == logs[i].updated_at
<1>8. /\ u \in Nat /\ a \in Nat /\ a >= 1 /\ a <= u
      /\ now \in Nat /\ DedupWindow \in Nat
      /\ ~(u # 0 /\ (DedupWindow = 0 \/ u + DedupWindow >= now))
  BY <1>4, <1>5, <1>7 DEF Recent, None
<1> HIDE DEF a, u
<1>9. DedupWindow # 0 /\ a + DedupWindow < now
  BY <1>8
<1> QED  BY <1>9 DEF Apart, a

(* What a worker does between its claim and its submission.                *)
LEMMA SpaceWork ==
  ASSUME TypeOK, LockInv, Spaced, NEW w \in Workers,
         faults = 0, faults' = 0,
         FileMissing(w) \/ FileFound(w) \/ Dedup(w) \/ SubmitNoFile(w)
  PROVE  Spaced'
<1> USE DEF Spaced
<1>1. /\ \A v \in Workers : worker'[v].doc = worker[v].doc
      /\ \A v \in Workers : v # w => worker'[v] = worker[v]
      /\ UNCHANGED <<logs, lapsed>>
  BY WorkEffect
<1>2. UNCHANGED <<stored, tasks, now>>
  <2>1. stored' = stored
    BY DEF FileMissing, FileFound, Dedup, SubmitNoFile
  <2>2. tasks' = tasks
    BY DEF FileMissing, FileFound, Dedup, SubmitNoFile
  <2>3. now' = now
    BY DEF FileMissing, FileFound, Dedup, SubmitNoFile
  <2> QED  BY <2>1, <2>2, <2>3
<1>3. worker[w].pc # "record"
  <2>1. worker[w].pc \in {"locate", "dedup", "submit"}
    BY DEF FileMissing, FileFound, Dedup, SubmitNoFile
  <2> QED  BY <2>1
<1>4. worker \in [Workers -> WorkerRecord]
  BY WorkersFit DEF TypeOK
<1>5. Intact' /\ Past' /\ PairsApart'
  BY <1>1, <1>2 DEF Intact, Past, PairsApart
<1>6. Noted'
  BY <1>1, <1>2, <1>3 DEF Noted, Attended
<1>7. /\ worker'[w].pc \in {"dedup", "duplicate", "submit", "record"}
          => worker'[w].sha = logs[worker[w].doc].sha256
      /\ worker'[w].pc = "submit" => 
           worker[w].pc = "dedup" /\ ~AlreadyForwarded(worker[w].sha)
  <2>1. CASE FileMissing(w)
    BY <1>4, <2>1 DEF FileMissing, Goto, WorkerRecord
  <2>2. CASE FileFound(w)
    <3>1. PICK j \in FilesFor(worker[w].doc) :
            worker' = [worker EXCEPT ![w].pc = "dedup", ![w].file = j,
                                     ![w].sha = stored[j]]
      <4>1. PICK j \in FilesFor(worker[w].doc), hashed \in BOOLEAN :
              /\ IF hashed THEN faults' = faults
                 ELSE faults < MaxFaults /\ faults' = faults + 1
              /\ worker' = [worker EXCEPT
                   ![w].pc = "dedup", ![w].file = j,
                   ![w].sha = IF hashed THEN stored[j]
                              ELSE logs[worker[w].doc].sha256]
        BY <2>2 DEF FileFound
      <4> DEFINE sha == IF hashed THEN stored[j]
                        ELSE logs[worker[w].doc].sha256
      <4>2. worker' = [worker EXCEPT ![w].pc = "dedup", ![w].file = j,
                                     ![w].sha = sha]
        BY <4>1
      <4>3. IF hashed THEN faults' = faults ELSE faults' = faults + 1
        BY <4>1
      <4>4. hashed
        BY <4>3
      <4>5. sha = stored[j]
        BY <4>4
      <4> HIDE DEF sha
      <4> QED  BY <4>2, <4>5
    <3>2. worker[w].doc \in 1..Len(logs)
      <4>1. worker[w].pc = "locate"
        BY <2>2 DEF FileFound
      <4> QED  BY <4>1, WorkerFacts
    <3>3. j = worker[w].doc
      BY <3>1, <3>2, FoundItsOwn
    <3>4. stored[j] = logs[worker[w].doc].sha256
      BY <3>2, <3>3 DEF Intact
    <3>5. worker'[w].sha = stored[j] /\ worker'[w].pc = "dedup"
      BY <1>4, <3>1 DEF WorkerRecord
    <3> QED  BY <3>4, <3>5
  <2>3. CASE Dedup(w)
    <3>1. worker' = [worker EXCEPT ![w].pc =
             IF AlreadyForwarded(worker[w].sha) THEN "duplicate" ELSE "submit"]
      BY <2>3 DEF Dedup
    <3>2. /\ worker'[w].sha = worker[w].sha
          /\ worker'[w].pc = IF AlreadyForwarded(worker[w].sha)
                             THEN "duplicate" ELSE "submit"
      BY <1>4, <3>1 DEF WorkerRecord
    <3>3. worker[w].pc = "dedup"
      BY <2>3 DEF Dedup
    <3>4. worker[w].sha = logs[worker[w].doc].sha256
      BY <3>3 DEF SumIsLogged
    <3> QED  BY <3>2, <3>3, <3>4
  <2>4. CASE SubmitNoFile(w)
    BY <1>4, <2>4 DEF SubmitNoFile, Goto, WorkerRecord
  <2> QED  BY <2>1, <2>2, <2>3, <2>4
<1>8. SumIsLogged'
  BY <1>1, <1>7 DEF SumIsLogged
<1>9. Clear'
  <2> SUFFICES ASSUME NEW v \in Workers, NEW k \in 1..Len(tasks),
                      worker'[v].pc = "submit", worker[v].doc = tasks[k].doc,
                      tasks[k].doc \notin lapsed
               PROVE  Apart(tasks[k].at, now)
    BY <1>1, <1>2 DEF Clear, Apart
  <2>1. CASE v = w
    BY <1>7, <2>1, NothingRecent
  <2>2. CASE v # w
    BY <1>1, <2>2 DEF Clear
  <2> QED  BY <2>1, <2>2
<1> QED  BY <1>5, <1>6, <1>8, <1>9

(* A submission that is answered leaves a worker that will record it; one  *)
(* that follows another of its document follows it at a distance.          *)
LEMMA SpaceSubmit ==
  ASSUME TypeOK, LockInv, Spaced, NEW w \in Workers, Submit(w),
         faults = 0, faults' = 0
  PROVE  Spaced'
<1> USE DEF Spaced
<1>1. PICK taken \in BOOLEAN, answered \in BOOLEAN :
        /\ Post(w, taken, answered)
        /\ Goto(w, IF answered THEN "record" ELSE "fail")
  BY DEF Submit
<1>2. answered /\ taken
  BY <1>1 DEF Post
<1> DEFINE t == [doc |-> worker[w].doc, sha |-> worker[w].sha,
                 content |-> stored[worker[w].file], at |-> now]
           T == [doc : 1..Len(logs), sha : Contents, content : Contents, at : Nat]
           n == Len(tasks) + 1
<1>3. WorkerFits(worker[w]) /\ worker[w] \in WorkerRecord
  BY WorkersFit DEF TypeOK
<1>4. t \in T /\ tasks \in Seq(T)
  <2>1. /\ worker[w].doc \in 1..Len(logs) /\ worker[w].sha \in Contents
        /\ worker[w].file \in 1..Len(logs)
    BY <1>3 DEF Submit, WorkerFits, WorkerRecord
  <2>2. stored[worker[w].file] \in Contents
    BY <2>1, LogFacts DEF Submit, TypeOK
  <2> QED  BY <2>1, <2>2 DEF TypeOK, CapeOK
<1>5. t.doc = worker[w].doc /\ t.at = now
  OBVIOUS
<1>6. tasks' = Append(tasks, t)
  BY <1>1, <1>2 DEF Post
<1> HIDE DEF t, T
<1>7. /\ Len(tasks) \in Nat /\ Len(tasks') = n
      /\ tasks'[n] = t /\ \A k \in 1..Len(tasks) : tasks'[k] = tasks[k]
  BY <1>4, <1>6, LenProperties, AppendProperties
<1>8. /\ \A v \in Workers : v # w => worker'[v] = worker[v]
      /\ worker'[w].doc = worker[w].doc /\ worker'[w].sha = worker[w].sha
      /\ worker'[w].pc = "record" /\ worker[w].pc = "submit"
  BY <1>1, <1>2, <1>3 DEF Goto, Submit, TypeOK, WorkersOK, WorkerRecord
<1>9. UNCHANGED <<logs, stored, now, lapsed>>
  BY DEF Submit
<1>10. Intact' /\ SumIsLogged'
  BY <1>8, <1>9 DEF Intact, SumIsLogged
<1>11. now \in Nat
  BY DEF TypeOK, CapeOK
<1>12. Past'
  BY <1>5, <1>7, <1>9, <1>11 DEF Past
<1>13. Noted'
  <2> SUFFICES ASSUME NEW k \in 1..n
               PROVE  \/ tasks'[k].doc \in lapsed
                      \/ tasks'[k].at <= logs[tasks'[k].doc].updated_at
                      \/ Attended(tasks[k].doc)'
    BY <1>7, <1>9 DEF Noted, Attended
  <2>1. CASE k = n
    BY <1>5, <1>7, <1>8, <2>1 DEF Attended
  <2>2. CASE k # n
    <3>1. k \in 1..Len(tasks) /\ tasks'[k] = tasks[k]
      BY <1>7, <2>2
    <3>2. Attended(tasks[k].doc) => Attended(tasks[k].doc)'
      BY <1>8, <1>9, <3>1 DEF Attended
    <3> QED  BY <3>1, <3>2 DEF Noted
  <2> QED  BY <2>1, <2>2
<1>14. Clear'
  <2> SUFFICES ASSUME NEW v \in Workers, NEW k \in 1..n,
                      worker'[v].pc = "submit",
                      worker'[v].doc = tasks'[k].doc,
                      tasks'[k].doc \notin lapsed
               PROVE  Apart(tasks'[k].at, now)
    BY <1>7, <1>9 DEF Clear, Apart
  <2>1. v # w /\ worker'[v] = worker[v]
    BY <1>8
  <2>2. CASE k = n
    <3>1. worker[v].doc = worker[w].doc /\ worker[w].doc # None
      BY <1>5, <1>7, <1>8, <2>1, <2>2, WorkerFacts
    <3> QED  BY <1>5, <1>7, <2>1, <2>2, <3>1
             DEF LockInv, ExclusiveUnlessLapsed
  <2>3. CASE k # n
    <3>1. k \in 1..Len(tasks) /\ tasks'[k] = tasks[k]
      BY <1>7, <2>3
    <3> QED  BY <2>1, <3>1 DEF Clear
  <2> QED  BY <2>2, <2>3
<1>15. PairsApart'
  <2> SUFFICES ASSUME NEW j \in 1..n, NEW k \in 1..n, j < k,
                      tasks'[j].doc = tasks'[k].doc,
                      tasks'[k].doc \notin lapsed
               PROVE  Apart(tasks'[j].at, tasks'[k].at)
    BY <1>7, <1>9 DEF PairsApart, Apart
  <2>1. j \in 1..Len(tasks) /\ tasks'[j] = tasks[j]
    BY <1>7
  <2>2. CASE k = n
    BY <1>5, <1>7, <1>8, <2>1, <2>2 DEF Clear
  <2>3. CASE k # n
    <3>1. k \in 1..Len(tasks) /\ tasks'[k] = tasks[k]
      BY <1>7, <2>3
    <3> QED  BY <2>1, <3>1 DEF PairsApart
  <2> QED  BY <2>2, <2>3
<1> QED  BY <1>10, <1>12, <1>13, <1>14, <1>15

(* Every outcome dates its document.                                       *)
LEMMA OutcomeDates ==
  ASSUME TypeOK, NEW w \in Workers,
         BuryMissing(w) \/ BuryDuplicate(w) \/ Record(w) \/ Fail(w)
  PROVE  /\ worker[w].doc \in 1..Len(logs)
         /\ logs'[worker[w].doc].updated_at = now
         /\ logs'[worker[w].doc].sha256 = logs[worker[w].doc].sha256
         /\ UNCHANGED <<stored, tasks, now, lapsed>>
<1>1. PICK doc \in UploadDoc :
        /\ Finish(w, doc) /\ worker[w].pc # "idle"
        /\ doc.sha256 = logs[worker[w].doc].sha256
  <2>1. CASE BuryMissing(w)
    BY <2>1, OutcomeDocs DEF BuryMissing
  <2>2. CASE BuryDuplicate(w)
    BY <2>2, OutcomeDocs DEF BuryDuplicate
  <2>3. CASE Record(w)
    BY <2>3, OutcomeDocs DEF Record
  <2>4. CASE Fail(w)
    BY <2>4, OutcomeDocs DEF Fail
  <2> QED  BY <2>1, <2>2, <2>3, <2>4
<1> QED  BY <1>1, WriteEffect DEF Finish

LEMMA SpaceOutcome ==
  ASSUME TypeOK, Spaced, NEW w \in Workers,
         BuryMissing(w) \/ BuryDuplicate(w) \/ Record(w) \/ Fail(w)
  PROVE  Spaced'
<1> USE DEF Spaced
<1> DEFINE i == worker[w].doc
<1>1. /\ i \in 1..Len(logs) /\ Len(logs') = Len(logs)
      /\ logs'[i].updated_at = now /\ logs'[i].sha256 = logs[i].sha256
      /\ \A j \in 1..Len(logs) : j # i => logs'[j] = logs[j]
      /\ UNCHANGED <<stored, tasks, now, lapsed>>
  BY OutcomeEffect, OutcomeDates
<1>2. /\ worker'[w].doc = None /\ worker'[w].pc = "idle"
      /\ \A v \in Workers : v # w => worker'[v] = worker[v]
      /\ \A v \in Workers : worker'[v].doc # None =>
           v # w /\ worker'[v].doc = worker[v].doc
  BY OutcomeEffect, DropEffect
<1>3. \A v \in Workers : worker[v].pc # "idle" => worker[v].doc \in 1..Len(logs)
  BY WorkerFacts
<1>4. Intact'
  BY <1>1 DEF Intact
<1>5. SumIsLogged'
  BY <1>1, <1>2, <1>3 DEF SumIsLogged
<1>6. Past' /\ PairsApart'
  BY <1>1 DEF Past, PairsApart
<1>7. Clear'
  BY <1>1, <1>2 DEF Clear
<1>8. Noted'
  <2> SUFFICES ASSUME NEW k \in 1..Len(tasks)
               PROVE  \/ tasks[k].doc \in lapsed
                      \/ tasks[k].at <= logs'[tasks[k].doc].updated_at
                      \/ Attended(tasks[k].doc)'
    BY <1>1 DEF Noted, Attended
  <2> DEFINE c == tasks[k].doc
  <2>1. c \in 1..Len(logs) /\ 0 \notin 1..Len(logs)
    BY TaskFacts
  <2>2. CASE c = i
    BY <1>1, <2>2 DEF Past
  <2>3. CASE c # i
    <3>1. logs'[c] = logs[c]
      BY <1>1, <2>1, <2>3
    <3>2. Attended(c) => Attended(tasks[k].doc)'
      BY <1>1, <1>2, <2>1, <2>3, <3>1 DEF Attended, None
    <3> QED  BY <3>1, <3>2 DEF Noted
  <2> QED  BY <2>2, <2>3
<1> QED  BY <1>4, <1>5, <1>6, <1>7, <1>8

(* A worker that dies leaves the lock of its document behind.              *)
LEMMA SpaceCrash ==
  ASSUME TypeOK, LockInv, Spaced, NEW w \in Workers, Crash(w)
  PROVE  Spaced'
<1> USE DEF Spaced
<1>1. /\ worker'[w].doc = None /\ worker'[w].pc = "idle"
      /\ \A v \in Workers : v # w => worker'[v] = worker[v]
  BY DropEffect DEF Crash
<1>2. UNCHANGED <<logs, stored, tasks, now, lapsed>>
  BY DEF Crash
<1>3. Intact' /\ Past' /\ PairsApart'
  BY <1>2 DEF Intact, Past, PairsApart
<1>4. SumIsLogged' /\ Clear'
  BY <1>1, <1>2 DEF SumIsLogged, Clear, Apart
<1>5. Noted'
  <2> SUFFICES ASSUME NEW k \in 1..Len(tasks), tasks[k].doc \notin lapsed,
                      Attended(tasks[k].doc)
               PROVE  Attended(tasks[k].doc)'
    BY <1>2 DEF Noted
  <2> DEFINE c == tasks[k].doc
  <2>1. c \in 1..Len(logs) /\ c # None
    BY TaskFacts DEF None
  <2>2. CASE worker[w].doc = c
    <3>1. logs[c].processing
      BY <2>1, <2>2 DEF LockInv, HeldIsLocked
    <3>2. \A v \in Workers : worker[v].doc = c => v = w
      BY <2>1, <2>2 DEF LockInv, ExclusiveUnlessLapsed
    <3>3. \A v \in Workers : worker'[v].doc # c
      BY <1>1, <2>1, <3>2
    <3> QED  BY <1>2, <3>1, <3>3 DEF Attended
  <2>3. CASE worker[w].doc # c
    BY <1>1, <1>2, <2>1, <2>3 DEF Attended
  <2> QED  BY <2>2, <2>3
<1> QED  BY <1>3, <1>4, <1>5

-----------------------------------------------------------------------------
(* No step takes a fault back.                                             *)
LEMMA FaultsStay ==
  ASSUME TypeOK, [Next]_vars
  PROVE  faults' = faults \/ faults' = faults + 1
<1>1. CASE Upload
  BY <1>1 DEF Upload
<1>2. CASE CapeReport \/ Tick \/ FilesChange \/ UNCHANGED vars
  BY <1>2 DEF CapeReport, Tick, FilesChange, vars
<1>3. ASSUME NEW w \in Workers, WorkerStep(w) \/ Crash(w)
      PROVE  faults' = faults \/ faults' = faults + 1
  <2>1. CASE PollNothing(w) \/ Claim(w) \/ Crash(w)
    BY <2>1 DEF PollNothing, Claim, Crash, vars
  <2>2. CASE FileMissing(w) \/ FileFound(w) \/ Dedup(w) \/ WriteFails(w)
    <3>1. CASE FileFound(w)
      <4>1. PICK hashed \in BOOLEAN :
              IF hashed THEN faults' = faults
              ELSE faults < MaxFaults /\ faults' = faults + 1
        BY <3>1 DEF FileFound
      <4> QED  BY <4>1
    <3>2. CASE FileMissing(w) \/ Dedup(w)
      BY <3>2 DEF FileMissing, Dedup
    <3>3. CASE WriteFails(w)
      BY <3>3, RaisesEffect
    <3> QED  BY <2>2, <3>1, <3>2, <3>3
  <2>3. CASE Submit(w) \/ SubmitNoFile(w)
    BY <2>3 DEF Submit, SubmitNoFile, Post
  <2>4. CASE BuryMissing(w) \/ BuryDuplicate(w) \/ Record(w) \/ Fail(w)
    BY <2>4 DEF BuryMissing, BuryDuplicate, Record, Fail, Finish
  <2> QED  BY <1>3, <2>1, <2>2, <2>3, <2>4 DEF WorkerStep
<1> QED  BY <1>1, <1>2, <1>3 DEF Next

LEMMA SpaceInvariant == Spec => []SpaceInv
<1>1. Init => SpaceInv
  <2> SUFFICES ASSUME Init PROVE Spaced
    BY DEF SpaceInv
  <2>1. \A w \in Workers : worker[w].pc = "idle"
    <3>1. worker = [w \in Workers |-> Idle]
      BY DEF Init
    <3>2. \A w \in Workers : worker[w] = Idle
      BY <3>1
    <3>3. Idle.pc = "idle"
      BY DEF Idle
    <3> QED  BY <3>2, <3>3
  <2>2. Len(logs) = 0 /\ Len(tasks) = 0 /\ now = 1
    BY EmptySeq DEF Init
  <2> QED  BY <2>1, <2>2
    DEF Spaced, Intact, SumIsLogged, Past, Noted, Clear, PairsApart
<1>2. TypeOK /\ LockInv /\ SpaceInv /\ [Next]_vars => SpaceInv'
  <2> SUFFICES ASSUME TypeOK, LockInv, SpaceInv, [Next]_vars, faults' = 0
               PROVE  Spaced'
    BY DEF SpaceInv
  <2>1. faults = 0 /\ Spaced
    BY FaultsStay DEF SpaceInv, TypeOK, CapeOK
  <2>2. CASE CapeReport \/ Tick \/ UNCHANGED vars
    BY <2>1, <2>2, SpaceSame, ForwarderAssumption DEF CapeReport, Tick, vars
  <2>3. CASE Upload
    BY <2>1, <2>3, SpaceUpload
  <2>4. CASE FilesChange
    BY <2>1, <2>4 DEF FilesChange
  <2>5. ASSUME NEW w \in Workers, WorkerStep(w) \/ Crash(w) PROVE Spaced'
    <3>1. CASE PollNothing(w)
      BY <2>2, <3>1 DEF PollNothing
    <3>2. CASE WriteFails(w)
      BY <2>1, <3>2, RaisesEffect
    <3> QED  BY <2>1, <2>5, <3>1, <3>2, SpaceClaim, SpaceWork, SpaceSubmit,
               SpaceOutcome, SpaceCrash DEF WorkerStep
  <2> QED  BY <2>2, <2>3, <2>4, <2>5 DEF Next
<1> QED  BY <1>1, <1>2, TypeCorrect, LockInvariant, PTL DEF Spec

(* While nothing fails, a document goes to CAPE again only after the       *)
(* window, or after its lock was taken over as stale, though the filter of *)
(* claim_next does not ask whether it was forwarded.                       *)
THEOREM SubmissionsAreSpaced == Spec => []SpacedResubmission
<1>1. SpaceInv => SpacedResubmission
  BY DEF SpaceInv, Spaced, PairsApart, Apart, SpacedResubmission
<1> QED  BY <1>1, SpaceInvariant, PTL
=============================================================================
