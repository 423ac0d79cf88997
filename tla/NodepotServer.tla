---------------------------- MODULE NodepotServer ----------------------------
(***************************************************************************)
(* server.js, the Nodepot-lite honeypot: requests that log in or upload a  *)
(* file, each handled in steps between which Node runs the others.  multer *)
(* writes a file under Date.now() and the client's name for it; then the   *)
(* handler reads the file again, hashes it and logs the upload.  Requests  *)
(* are numbered as they come, and so are the stored names they are given.  *)
(***************************************************************************)
EXTENDS Naturals, Sequences

CONSTANTS
  Contents,   \* what clients send
  Partial,    \* a file that is incomplete, or has the bytes of two writers
  Names,      \* the clients' names for their files
  MaxRequests, MaxMishaps   \* bounds

ASSUME ServerAssumption ==
  /\ Partial \notin Contents /\ 0 \notin Contents \cup {Partial}
  /\ MaxRequests \in Nat /\ MaxMishaps \in Nat

VARIABLES
  database,   \* what became of MongoClient.connect
  requests,   \* [pc, content, filename, name, sum] of each
  disk,       \* content under each stored name, or None
  uploads,    \* the file_upload documents of nodepot_logs
  others,     \* its other documents, <<request, event_type>>
  mishaps

serverVars == <<database, requests, disk, uploads, others, mishaps>>

None == 0

Mishap == mishaps < MaxMishaps /\ mishaps' = mishaps + 1

ServerInit ==
  /\ database = "connecting"
  /\ requests = << >> /\ disk = << >> /\ uploads = << >> /\ others = {}
  /\ mishaps = 0

(* MongoClient.connect, once: a refusal is printed and not tried again.    *)
Connect ==
  /\ database = "connecting"
  /\ database' \in {"connected", "refused"}
  /\ UNCHANGED <<requests, disk, uploads, others, mishaps>>

(* logEvent does nothing without a collection, and prints what insertOne   *)
(* raises.                                                                 *)
Logged == database = "connected" /\ UNCHANGED mishaps
Dropped == IF database = "connected" THEN Mishap ELSE UNCHANGED mishaps

LogOther(i, type) ==
  \/ Logged /\ others' = others \cup {<<i, type>>}
  \/ Dropped /\ UNCHANGED others

-----------------------------------------------------------------------------
(* multer                                                                  *)

Arrives(request, file) ==
  /\ Len(requests) < MaxRequests
  /\ requests' = Append(requests, request)
  /\ disk' = Append(disk, file)

Upload(content, filename, name) ==
  [pc |-> "writing", content |-> content, filename |-> filename,
   name |-> name, sum |-> None]

(* A file begins to arrive, under a stored name of its own.                *)
UploadBegins ==
  /\ \E content \in Contents, filename \in Names :
       Arrives(Upload(content, filename, Len(requests) + 1), Partial)
  /\ UNCHANGED <<database, uploads, others, mishaps>>

(* Or under that of an upload of the same name in the same millisecond,    *)
(* whose file is truncated.                                                *)
NamesCollide ==
  /\ Len(requests) < MaxRequests
  /\ \E content \in Contents, i \in 1..Len(requests) :
       /\ requests[i].name = i /\ disk[i] # None
       /\ requests' = Append(requests, Upload(content, requests[i].filename, i))
       /\ disk' = Append([disk EXCEPT ![i] = Partial], None)
  /\ Mishap
  /\ UNCHANGED <<database, uploads, others>>

Shared(i) ==
  \E j \in 1..Len(requests) : j # i /\ requests[j].name = requests[i].name

FileOf(i) == disk[requests[i].name]

(* The file is closed, or was removed in the meantime.  Two writers' bytes *)
(* may be all of one of them, or mixed.                                    *)
UploadEnds(i) ==
  /\ requests[i].pc = "writing"
  /\ \E c \in IF FileOf(i) = None THEN {None}
              ELSE IF Shared(i) THEN {requests[i].content, FileOf(i), Partial}
              ELSE {requests[i].content} :
       disk' = [disk EXCEPT ![requests[i].name] = c]
  /\ requests' = [requests EXCEPT ![i].pc = "written"]
  /\ UNCHANGED <<database, uploads, others, mishaps>>

(* Over MAX_UPLOAD multer removes the file, and when the client goes away  *)
(* what has come of it may stay.  No handler is called.                    *)
UploadBreaks(i) ==
  /\ requests[i].pc = "writing"
  /\ \E c \in IF FileOf(i) = None THEN {None} ELSE {None, FileOf(i), Partial} :
       disk' = [disk EXCEPT ![requests[i].name] = c]
  /\ requests' = [requests EXCEPT ![i].pc = "done"]
  /\ Mishap
  /\ UNCHANGED <<database, uploads, others>>

-----------------------------------------------------------------------------
(* The handlers                                                            *)

(* POST /login, and POST /upload without a file.                           *)
OtherRequest ==
  /\ Arrives([pc |-> "done", content |-> None, filename |-> None,
              name |-> None, sum |-> None], None)
  /\ \E type \in {"login_attempt", "upload_error"} :
       LogOther(Len(requests) + 1, type)
  /\ UNCHANGED <<database, uploads>>

Hashed(i) ==
  requests' = [requests EXCEPT ![i].pc = "hashed", ![i].sum = FileOf(i)]

(* Mutant: the handler does not wait for the file to be closed.            *)
HashEarly(i) ==
  /\ requests[i].pc \in {"writing", "written"} /\ FileOf(i) # None
  /\ Hashed(i)
  /\ UNCHANGED <<database, disk, uploads, others, mishaps>>

(* stat and readFile find the file, and it is hashed.                      *)
Hash(i) ==
  /\ requests[i].pc = "written" /\ FileOf(i) # None
  /\ Hashed(i)
  /\ UNCHANGED <<database, disk, uploads, others, mishaps>>

(* They do not, which the catch block logs.                                *)
HashRaises(i) ==
  /\ requests[i].pc = "written" /\ FileOf(i) = None
  /\ requests' = [requests EXCEPT ![i].pc = "done"]
  /\ LogOther(i, "upload_exception")
  /\ UNCHANGED <<database, disk, uploads>>

Document(i) ==
  [request |-> i, name |-> requests[i].name, sum |-> requests[i].sum]

(* Mutant: an insert that seems to have failed is made again.              *)
LogUploadTwice(i) ==
  /\ requests[i].pc = "hashed"
  /\ Logged /\ uploads' = uploads \o <<Document(i), Document(i)>>
  /\ requests' = [requests EXCEPT ![i].pc = "done"]
  /\ UNCHANGED <<database, disk, others>>

LogUpload(i) ==
  /\ requests[i].pc = "hashed"
  /\ \/ Logged /\ uploads' = Append(uploads, Document(i))
     \/ Dropped /\ UNCHANGED uploads
  /\ requests' = [requests EXCEPT ![i].pc = "done"]
  /\ UNCHANGED <<database, disk, others>>

(* start_nodepot.sh removes the container, which has no volume: requests   *)
(* under way and all files are lost.                                       *)
Restart ==
  /\ Mishap
  /\ database' = "connecting"
  /\ disk' = [n \in 1..Len(disk) |-> None]
  /\ requests' = [i \in 1..Len(requests) |-> [requests[i] EXCEPT !.pc = "done"]]
  /\ UNCHANGED <<uploads, others>>

ServerNext ==
  \/ Connect \/ UploadBegins \/ NamesCollide \/ OtherRequest \/ Restart
  \/ \E i \in 1..Len(requests) :
       \/ UploadEnds(i) \/ UploadBreaks(i)
       \/ Hash(i) \/ HashRaises(i) \/ LogUpload(i)

ServerSpec == ServerInit /\ [][ServerNext]_serverVars

-----------------------------------------------------------------------------
(* An upload that shares its stored name with no other is logged with the  *)
(* sum of what its client sent, and its file is that or gone, whatever     *)
(* arrives, breaks off or is hashed at the same time (storage, upload.any, *)
(* readFile of POST /upload).                                              *)
TruthfulUnlessShared ==
  \A k \in 1..Len(uploads) :
    ~Shared(uploads[k].request) =>
      /\ uploads[k].sum = requests[uploads[k].request].content
      /\ disk[uploads[k].name] \in {uploads[k].sum, None}
=============================================================================
