------------------------ MODULE UploadPipelineProofs ------------------------
(***************************************************************************)
(* The server and the forwarder composed are, for the forwarder, what      *)
(* CapeForwarder takes its environment for: a refinement, for any          *)
(* contents, names, workers and bounds.                                    *)
(***************************************************************************)
EXTENDS UploadPipeline, NodepotServerProofs, FiniteSetTheorems

-----------------------------------------------------------------------------
(* The server                                                              *)

(* An upload has a client's name; what is hashed was there; a request is   *)
(* logged once, when it is done.                                           *)
ServerInv ==
  /\ Len(requests) <= MaxRequests
  /\ \A i \in Requests :
       /\ requests[i].name # 0 => requests[i].filename \in Names
       /\ requests[i].pc = "hashed" => requests[i].sum # None
  /\ \A k \in 1..Len(uploads) : requests[uploads[k].request].pc = "done"
  /\ \A k, l \in 1..Len(uploads) :
       uploads[k].request = uploads[l].request => k = l

(* Requests whose file is gone, is closed, and that are done.              *)
Gone == {i \in Requests : disk[i] = None}
Closed == {i \in Requests : requests[i].pc # "writing"}
Done == {i \in Requests : requests[i].pc = "done"}

(* No step takes a request out of these sets.                              *)
Onwards == Gone \subseteq Gone' /\ Closed \subseteq Closed' /\ Done \subseteq Done'

Further == Gone # Gone' \/ Closed # Closed' \/ Done # Done'

(* The files in N become c.                                                *)
FilesBecome(N, c) ==
  \A m \in 1..Len(disk) : disk'[m] = IF m \in N THEN c ELSE disk[m]

(* What a step of the server means for the forwarder: files change, or an  *)
(* upload is logged.                                                       *)
Rewrites ==
  /\ UNCHANGED uploads /\ Len(disk) <= Len(disk')
  /\ \E c \in Files, N \in SUBSET Nat : FilesBecome(N, c)

LogsOne ==
  \E i \in Requests :
    /\ requests[i].pc = "hashed" /\ requests[i].name # 0
    /\ disk' = disk /\ uploads' = Append(uploads, Document(i))

(* An own request of an upload's stored name: the file was there.          *)
LEMMA NamesType ==
  ASSUME TypeOK
  PROVE  /\ Len(requests) \in Nat /\ Len(disk) = Len(requests) /\ Len(uploads) \in Nat
         /\ DOMAIN disk = 1..Len(disk)
         /\ \A n \in 1..Len(disk) : disk[n] \in Files
         /\ \A i \in Requests : requests[i] \in Request
         /\ \A i \in Requests : requests[i].name # 0 => requests[i].name \in Requests
         /\ \A k \in 1..Len(uploads) :
              /\ uploads[k].request \in Requests /\ uploads[k].name \in Requests
              /\ uploads[k].name = requests[uploads[k].request].name
<1>1. Len(requests) \in Nat /\ Len(disk) = Len(requests) /\ Len(uploads) \in Nat
      /\ \A n \in 1..Len(disk) : disk[n] \in Files
      /\ \A i \in Requests : requests[i] \in Request
  BY Facts
<1>0. DOMAIN disk = 1..Len(disk)
  BY LenProperties DEF TypeOK, RequestsOK
<1>2. \A i \in Requests : requests[i].name # 0 => requests[i].name \in Requests
  BY <1>1 DEF TypeOK, RequestsOK, Requests
<1>3. \A k \in 1..Len(uploads) :
        /\ uploads[k].request \in Requests /\ uploads[k].name \in Requests
        /\ uploads[k].name = requests[uploads[k].request].name
  BY <1>2 DEF TypeOK, DocumentsOK
<1>4. Len(requests) \in Nat /\ Len(disk) = Len(requests) /\ Len(uploads) \in Nat
  BY <1>1
<1>5. DOMAIN disk = 1..Len(disk)
  BY <1>0
<1>6. \A n \in 1..Len(disk) : disk[n] \in Files
  BY <1>1
<1>7. \A i \in Requests : requests[i] \in Request
  BY Facts
<1> QED  BY <1>2, <1>3, <1>4, <1>5, <1>6, <1>7

(* Setting the file of one request.                                        *)
LEMMA FileSet ==
  ASSUME TypeOK, NEW n \in 1..Len(disk), NEW c, disk' = [disk EXCEPT ![n] = c]
  PROVE  FilesBecome({n}, c) /\ {n} \in SUBSET Nat
BY NamesType DEF FilesBecome

LEMMA StoredType ==
  ASSUME TypeOK
  PROVE  /\ Stored \in Seq(Files) /\ Len(Stored) = Len(uploads)
         /\ \A k \in 1..Len(uploads) : Stored[k] = disk[uploads[k].name]
<1>1. \A k \in 1..Len(uploads) : disk[uploads[k].name] \in Files
  BY NamesType DEF Requests
<1>2. Stored \in [1..Len(uploads) -> Files] /\ Len(uploads) \in Nat
  BY <1>1, NamesType DEF Stored
<1>3. Stored \in Seq(Files)
  BY <1>2, SeqDef
<1> QED  BY <1>2, <1>3, LenProperties DEF Stored

(* A file of an upload that no step touches does no damage.                *)
LEMMA Undamaged ==
  ASSUME TypeOK, UNCHANGED uploads, Len(disk) <= Len(disk'),
         \A m \in 1..Len(disk) : disk'[m] = disk[m]
  PROVE  /\ ~Damages /\ Rewrites
         /\ (requests' = requests => Gone \subseteq Gone')
<1>1. \A k \in 1..Len(uploads) : Stored'[k] = Stored[k]
  BY NamesType DEF Stored, Requests
<1>2. ~Grows
  BY DEF Grows
<1>3. ~Damages
  BY <1>1, <1>2, NamesType DEF Damages
<1>4. FilesBecome({}, None) /\ None \in Files /\ {} \in SUBSET Nat
  BY DEF FilesBecome, Files
<1>5. Rewrites
  BY <1>4 DEF Rewrites
<1>6. requests' = requests => Gone \subseteq Gone'
  BY NamesType DEF Gone, Requests
<1> QED  BY <1>3, <1>5, <1>6

-----------------------------------------------------------------------------
(* The steps of the server                                                 *)

LEMMA ComesOnwards ==
  ASSUME TypeOK, ServerInv, UploadBegins \/ OtherRequest
  PROVE  /\ Onwards /\ ~Damages /\ Rewrites /\ ServerInv'
<1> PICK n \in Nat : n = Len(requests) + 1
  BY NamesType
<1>1. Comes
  BY RequestComes
<1>2. Len(requests) \in Nat /\ Len(disk) = Len(requests) /\ disk \in Seq(Files)
      /\ Partial \in Files /\ None \in Files /\ Len(requests) < MaxRequests
  BY NamesType DEF TypeOK, RequestsOK, Files, UploadBegins, OtherRequest, Arrives
<1>3. PICK c \in Files : disk' = Append(disk, c)
  BY <1>2 DEF UploadBegins, OtherRequest, Arrives
<1>4. /\ Len(disk') = Len(disk) + 1
      /\ \A m \in 1..Len(disk) : disk'[m] = disk[m]
  BY <1>2, <1>3, AppendProperties
<1>5. /\ Len(requests') = n /\ \A j \in Requests : requests'[j] = requests[j]
      /\ UNCHANGED uploads
  BY <1>1 DEF Comes
<1>6. Requests \subseteq Requests' /\ \A j \in Requests' : j \in Requests \/ j = n
  BY <1>2, <1>5 DEF Requests
<1>7. ~Damages /\ Rewrites
  BY <1>2, <1>4, <1>5, Undamaged
<1>8. Onwards
  BY <1>2, <1>4, <1>5, <1>6 DEF Onwards, Gone, Closed, Done, Requests
<1>9. /\ requests'[n].pc # "hashed"
      /\ requests'[n].name # 0 => requests'[n].filename \in Names
  <2>1. requests \in Seq(Request)
    BY DEF TypeOK, RequestsOK
  <2>2. CASE UploadBegins
    <3>1. PICK content \in Contents, filename \in Names :
            requests' = Append(requests, Upload(content, filename, n))
      BY <2>2 DEF UploadBegins, Arrives
    <3>2. requests'[n] = Upload(content, filename, n)
      BY <2>1, <3>1
    <3> QED  BY <3>2 DEF Upload
  <2>3. CASE OtherRequest
    <3> DEFINE r == [pc |-> "done", content |-> None, filename |-> None,
                     name |-> None, sum |-> None]
    <3>1. requests' = Append(requests, r) /\ r.pc = "done" /\ r.name = 0
      BY <2>3 DEF OtherRequest, Arrives, None
    <3> HIDE DEF r
    <3>2. requests'[n] = r
      BY <2>1, <3>1
    <3> QED  BY <3>1, <3>2
  <2> QED  BY <2>2, <2>3
<1>10. ServerInv'
  <2>1. Len(requests') <= MaxRequests
    BY <1>2, <1>5, ServerAssumption DEF ServerAssumption
  <2>2. \A i \in Requests' :
          /\ requests'[i].name # 0 => requests'[i].filename \in Names
          /\ requests'[i].pc = "hashed" => requests'[i].sum # None
    BY <1>5, <1>6, <1>9 DEF ServerInv
  <2>3. \A k \in 1..Len(uploads') : requests'[uploads'[k].request].pc = "done"
    BY <1>5, NamesType DEF ServerInv
  <2> QED  BY <1>5, <2>1, <2>2, <2>3 DEF ServerInv
<1> QED  BY <1>7, <1>8, <1>10

LEMMA CollisionOnwards ==
  ASSUME TypeOK, ServerInv, NamesCollide
  PROVE  /\ Onwards /\ Further /\ Rewrites /\ ServerInv'
<1> PICK n \in Nat : n = Len(requests) + 1
  BY NamesType
<1>1. Comes
  BY RequestComes
<1>2. Len(requests) \in Nat /\ Len(disk) = Len(requests) /\ disk \in Seq(Files)
      /\ Partial \in Files /\ None \in Files /\ Len(requests) < MaxRequests
  BY NamesType DEF TypeOK, RequestsOK, Files, NamesCollide
<1>3. PICK i \in Requests, content \in Contents :
        /\ requests[i].name = i /\ disk[i] # None
        /\ requests' = Append(requests, Upload(content, requests[i].filename, i))
        /\ disk' = Append([disk EXCEPT ![i] = Partial], None)
  BY DEF NamesCollide, Requests
<1>4. i \in 1..Len(disk) /\ i \in Nat /\ i # 0
  BY <1>2, <1>3 DEF Requests
<1>5. /\ Len(disk') = Len(disk) + 1 /\ disk'[n] = None
      /\ \A m \in 1..Len(disk) : disk'[m] = IF m \in {i} THEN Partial ELSE disk[m]
  <2> DEFINE files == [disk EXCEPT ![i] = Partial]
  <2>1. /\ files \in Seq(Files) /\ Len(files) = Len(disk)
        /\ \A m \in 1..Len(disk) : files[m] = IF m = i THEN Partial ELSE disk[m]
    BY <1>2, <1>4, ExceptSeq
  <2> HIDE DEF files
  <2>2. disk' = Append(files, None)
    BY <1>3 DEF files
  <2> QED  BY <1>2, <2>1, <2>2, AppendProperties
<1>6. /\ Len(requests') = n /\ \A j \in Requests : requests'[j] = requests[j]
      /\ UNCHANGED uploads
  BY <1>1 DEF Comes
<1>7. /\ Requests \subseteq Requests' /\ \A j \in Requests' : j \in Requests \/ j = n
      /\ n \in Requests' /\ n \notin Requests
  BY <1>2, <1>6 DEF Requests
<1>8. Rewrites
  <2>1. FilesBecome({i}, Partial) /\ {i} \in SUBSET Nat
    BY <1>4, <1>5 DEF FilesBecome
  <2>2. Len(disk) <= Len(disk')
    BY <1>2, <1>5
  <2> QED  BY <1>2, <1>6, <2>1, <2>2 DEF Rewrites
<1>9. Onwards /\ Further
  <2>1. Gone \subseteq Gone'
    BY <1>2, <1>3, <1>5, <1>7 DEF Gone, Requests
  <2>2. n \in Gone' /\ n \notin Gone
    BY <1>5, <1>7 DEF Gone
  <2>3. Closed \subseteq Closed' /\ Done \subseteq Done'
    BY <1>6, <1>7 DEF Closed, Done
  <2> QED  BY <2>1, <2>2, <2>3 DEF Onwards, Further
<1>10. /\ requests'[n].pc # "hashed"
       /\ requests'[n].name # 0 => requests'[n].filename \in Names
  <2>1. requests \in Seq(Request)
    BY DEF TypeOK, RequestsOK
  <2>2. requests'[n] = Upload(content, requests[i].filename, i)
    BY <2>1, <1>3
  <2>3. requests[i].filename \in Names
    BY <1>3, <1>4 DEF ServerInv
  <2> QED  BY <2>2, <2>3 DEF Upload
<1>11. ServerInv'
  <2>1. Len(requests') <= MaxRequests
    BY <1>2, <1>6, ServerAssumption DEF ServerAssumption
  <2>2. \A j \in Requests' :
          /\ requests'[j].name # 0 => requests'[j].filename \in Names
          /\ requests'[j].pc = "hashed" => requests'[j].sum # None
    BY <1>6, <1>7, <1>10 DEF ServerInv
  <2>3. \A k \in 1..Len(uploads') : requests'[uploads'[k].request].pc = "done"
    BY <1>6, NamesType DEF ServerInv
  <2> QED  BY <1>6, <2>1, <2>2, <2>3 DEF ServerInv
<1> QED  BY <1>8, <1>9, <1>11

(* A request that moves on keeps its name, and is further than before.     *)
LEMMA MoveOnwards ==
  ASSUME TypeOK, ServerInv, NEW i \in Requests,
         UploadEnds(i) \/ UploadBreaks(i) \/ Hash(i) \/ HashRaises(i)
           \/ LogUpload(i)
  PROVE  /\ Onwards
         /\ UploadEnds(i) \/ UploadBreaks(i) \/ LogUpload(i) => Further
         /\ Rewrites \/ LogsOne
         /\ Hash(i) \/ HashRaises(i) => ~Damages
<1>1. Moves(i)
  BY StepMoves
<1>2. /\ Len(requests') = Len(requests) /\ Len(disk') = Len(disk)
      /\ requests[i].name \in 1..Len(disk) /\ Requests' = Requests
      /\ Len(disk) = Len(requests) /\ Len(requests) \in Nat
      /\ \A j \in Requests : j # i => requests'[j] = requests[j]
  BY <1>1, NamesType DEF Moves, Requests
<1>3. /\ requests[i].pc # "done"
      /\ requests[i].pc # "writing" => requests'[i].pc # "writing"
  BY <1>1, StepMoves DEF Moves, UploadEnds, UploadBreaks
<1>4. Closed \subseteq Closed' /\ Done \subseteq Done'
  BY <1>2, <1>3 DEF Closed, Done
<1>5. CASE UploadEnds(i) \/ UploadBreaks(i)
  <2>1. requests[i].pc = "writing" /\ UNCHANGED uploads
    BY <1>5 DEF UploadEnds, UploadBreaks
  <2>2. requests'[i].pc # "writing"
    BY <1>5, StepMoves, <2>1 DEF Hash, HashRaises, LogUpload
  <2>3. PICK c \in Files :
          /\ disk' = [disk EXCEPT ![requests[i].name] = c]
          /\ disk[requests[i].name] = None => c = None
    <3>1. FileOf(i) \in Files /\ requests[i].content \in Files
          /\ None \in Files /\ Partial \in Files
      BY <1>2, NamesType DEF FileOf, Request, Files
    <3>2. CASE UploadEnds(i)
      BY <3>1, <3>2 DEF UploadEnds, FileOf
    <3>3. CASE UploadBreaks(i)
      BY <3>1, <3>3 DEF UploadBreaks, FileOf
    <3> QED  BY <1>5, <3>2, <3>3
  <2>4. FilesBecome({requests[i].name}, c) /\ {requests[i].name} \in SUBSET Nat
    BY <1>2, <2>3, FileSet
  <2>5. Rewrites
    BY <1>2, <2>1, <2>4 DEF Rewrites
  <2>6. Gone \subseteq Gone'
    BY <1>2, <2>3, <2>4 DEF Gone, FilesBecome, Requests
  <2>7. Further
    BY <1>2, <2>1, <2>2 DEF Further, Closed
  <2>8. ~(Hash(i) \/ HashRaises(i))
    BY <2>1 DEF Hash, HashRaises
  <2> QED  BY <1>4, <2>5, <2>6, <2>7, <2>8 DEF Onwards
<1>6. CASE Hash(i) \/ HashRaises(i)
  <2>1. disk' = disk /\ UNCHANGED uploads
    BY <1>6 DEF Hash, HashRaises
  <2>2. ~Damages /\ Rewrites
    BY <1>2, <2>1, Undamaged
  <2>3. Gone \subseteq Gone'
    BY <1>2, <2>1 DEF Gone
  <2>4. ~(UploadEnds(i) \/ UploadBreaks(i) \/ LogUpload(i))
    BY <1>6 DEF Hash, HashRaises, UploadEnds, UploadBreaks, LogUpload
  <2> QED  BY <1>4, <2>2, <2>3, <2>4 DEF Onwards
<1>7. CASE LogUpload(i)
  <2>1. disk' = disk /\ requests[i].pc = "hashed"
        /\ (uploads' = uploads \/ uploads' = Append(uploads, Document(i)))
    BY <1>7 DEF LogUpload
  <2>2. Gone \subseteq Gone'
    BY <1>2, <2>1 DEF Gone
  <2>3. requests'[i].pc = "done"
    BY <1>7, <2>1, StepMoves DEF UploadEnds, Hash
  <2>4. Further
    BY <1>2, <2>1, <2>3 DEF Further, Done
  <2>5. Rewrites \/ LogsOne
    <3>1. CASE uploads' = uploads
      BY <1>2, <2>1, <3>1, Undamaged
    <3>2. CASE uploads' = Append(uploads, Document(i))
      BY <1>2, <2>1, <3>2 DEF LogsOne
    <3> QED  BY <2>1, <3>1, <3>2
  <2>6. ~(Hash(i) \/ HashRaises(i))
    BY <2>1 DEF Hash, HashRaises
  <2> QED  BY <1>4, <2>2, <2>4, <2>5, <2>6 DEF Onwards
<1> QED  BY <1>5, <1>6, <1>7

LEMMA MoveServerInv ==
  ASSUME TypeOK, ServerInv, NEW i \in Requests,
         UploadEnds(i) \/ UploadBreaks(i) \/ Hash(i) \/ HashRaises(i)
           \/ LogUpload(i)
  PROVE  ServerInv'
<1>1. Moves(i)
  BY StepMoves
<1>2. /\ Len(requests') = Len(requests) /\ Requests' = Requests
      /\ \A j \in Requests : /\ requests'[j].name = requests[j].name
                             /\ requests'[j].filename = requests[j].filename
                             /\ j # i => requests'[j] = requests[j]
      /\ requests[i].pc # "done"
  BY <1>1 DEF Moves, Requests
<1>3. requests'[i].pc = "hashed" => requests'[i].sum # None
  <2>1. CASE Hash(i)
    BY <2>1, StepMoves DEF Hash, UploadEnds, UploadBreaks, HashRaises, LogUpload
  <2>2. CASE ~Hash(i)
    BY <2>2, StepMoves
  <2> QED  BY <2>1, <2>2
<1>4. \A j \in Requests' :
        /\ requests'[j].name # 0 => requests'[j].filename \in Names
        /\ requests'[j].pc = "hashed" => requests'[j].sum # None
  BY <1>2, <1>3 DEF ServerInv
<1>5. CASE UNCHANGED uploads
  <2>1. ASSUME NEW k \in 1..Len(uploads) PROVE requests'[uploads[k].request].pc = "done"
    <3>1. uploads[k].request \in Requests /\ requests[uploads[k].request].pc = "done"
      BY NamesType DEF ServerInv
    <3> QED  BY <1>2, <3>1
  <2> QED  BY <1>2, <1>4, <1>5, <2>1 DEF ServerInv
<1>6. CASE uploads' # uploads
  <2>1. LogUpload(i)
    BY <1>6 DEF UploadEnds, UploadBreaks, Hash, HashRaises
  <2>2. /\ Len(uploads') = Len(uploads) + 1 /\ Len(uploads) \in Nat
        /\ \A k \in 1..Len(uploads) : uploads'[k] = uploads[k]
        /\ uploads'[Len(uploads) + 1] = Document(i)
    BY <1>6, <2>1, UploadLogged, NamesType
  <2>3. requests'[i].pc = "done"
    BY <2>1, StepMoves DEF LogUpload, UploadEnds, Hash
  <2>4. \A k \in 1..Len(uploads) : uploads[k].request \in Requests
                                   /\ requests[uploads[k].request].pc = "done"
    BY NamesType DEF ServerInv
  <2>5. uploads'[Len(uploads) + 1].request = i
    BY <2>2 DEF Document
  <2>6. \A k \in 1..Len(uploads') : k \in 1..Len(uploads) \/ k = Len(uploads) + 1
    BY <2>2
  <2>7. \A k \in 1..Len(uploads') : requests'[uploads'[k].request].pc = "done"
    BY <1>2, <2>2, <2>3, <2>4, <2>5, <2>6
  <2>8. \A k \in 1..Len(uploads) : uploads'[k].request # i
    BY <1>2, <2>2, <2>4
  <2>9. \A k, l \in 1..Len(uploads) :
          uploads'[k].request = uploads'[l].request => k = l
    BY <2>2 DEF ServerInv
  <2>10. ASSUME NEW k \in 1..Len(uploads'), NEW l \in 1..Len(uploads'),
                uploads'[k].request = uploads'[l].request
         PROVE  k = l
    BY <2>5, <2>6, <2>8, <2>9, <2>10
  <2> QED  BY <1>2, <1>4, <2>7, <2>10 DEF ServerInv
<1> QED  BY <1>5, <1>6

(* A restart that does damage removes the file of an upload.               *)
LEMMA RestartOnwards ==
  ASSUME TypeOK, ServerInv, Restart
  PROVE  /\ Onwards /\ (Damages => Further) /\ Rewrites /\ ServerInv'
<1>1. /\ Len(requests') = Len(requests) /\ UNCHANGED uploads
      /\ \A j \in Requests : /\ requests'[j].pc = "done"
                             /\ requests'[j].name = requests[j].name
                             /\ requests'[j].filename = requests[j].filename
      /\ \A n \in 1..Len(disk) : disk'[n] = None
  BY RestartEffect
<1>2. Requests' = Requests /\ Len(disk) = Len(requests) /\ Len(requests) \in Nat
      /\ \A k \in 1..Len(uploads) : uploads[k].name \in Requests
                                    /\ uploads[k].request \in Requests
  BY <1>1, NamesType DEF Requests
<1>3. Gone' = Requests /\ Closed' = Requests /\ Done' = Requests
  BY <1>1, <1>2 DEF Gone, Closed, Done, Requests
<1>4. Onwards
  BY <1>3 DEF Onwards, Gone, Closed, Done
<1>5. Len(disk') = Len(disk)
  BY <1>2 DEF Restart
<1>6. Rewrites
  <2>1. FilesBecome(1..Len(disk), None) /\ 1..Len(disk) \in SUBSET Nat
    BY <1>1, <1>2 DEF FilesBecome
  <2>2. None \in Files
    BY DEF Files
  <2> QED  BY <1>1, <1>2, <1>5, <2>1, <2>2 DEF Rewrites
<1>7. ASSUME Damages PROVE Further
  <2>1. ~Grows
    BY <1>1, NamesType DEF Grows
  <2>2. PICK k \in 1..Len(uploads) : Stored'[k] # Stored[k]
    BY <1>7, <2>1 DEF Damages
  <2>3. disk'[uploads[k].name] # disk[uploads[k].name]
    BY <1>1, <1>2, <2>2 DEF Stored
  <2>4. uploads[k].name \notin Gone
    BY <1>1, <1>2, <2>3 DEF Gone, Requests
  <2> QED  BY <1>2, <1>3, <2>4 DEF Further
<1>8. ServerInv'
  BY <1>1, <1>2 DEF ServerInv
<1> QED  BY <1>4, <1>6, <1>7, <1>8

(* Every step of the server keeps what is known of it, changes files or    *)
(* logs an upload, and when it does damage takes a request further.        *)
LEMMA ServerOnwards ==
  ASSUME TypeOK, ServerInv, ServerNext
  PROVE  Onwards /\ (Damages => Further) /\ (Rewrites \/ LogsOne) /\ ServerInv'
<1>1. CASE Connect
  <2>1. UNCHANGED <<requests, disk, uploads>>
    BY <1>1 DEF Connect
  <2>2. ~Damages /\ Rewrites /\ Gone \subseteq Gone'
    BY <2>1, NamesType, Undamaged
  <2>3. Onwards
    BY <2>1, <2>2 DEF Onwards, Closed, Done, Requests
  <2> QED  BY <2>1, <2>2, <2>3 DEF ServerInv, Requests
<1>2. CASE UploadBegins \/ OtherRequest
  BY <1>2, ComesOnwards
<1>3. CASE NamesCollide
  BY <1>3, CollisionOnwards
<1>4. CASE Restart
  BY <1>4, RestartOnwards
<1>5. ASSUME NEW i \in Requests,
             UploadEnds(i) \/ UploadBreaks(i) \/ Hash(i) \/ HashRaises(i)
               \/ LogUpload(i)
      PROVE  Onwards /\ (Damages => Further) /\ (Rewrites \/ LogsOne) /\ ServerInv'
  BY <1>5, MoveOnwards, MoveServerInv
<1> QED  BY <1>1, <1>2, <1>3, <1>4, <1>5 DEF ServerNext, Requests

-----------------------------------------------------------------------------
(* How much damage can be done                                             *)

(* Every damaging step takes a request into one of the three sets, and     *)
(* there is room for three times the requests.                             *)
DamageInv ==
  /\ damage \in Nat
  /\ damage <= Cardinality(Gone) + Cardinality(Closed) + Cardinality(Done)

(* The forwarder's list of documents is the server's, and its own faults   *)
(* are bounded.                                                            *)
ForwarderInv ==
  /\ DOMAIN logs = 1..Len(uploads)
  /\ logs = [i \in 1..Len(uploads) |-> logs[i]]
  /\ faults \in Nat /\ faults <= MaxFaults

PipelineInv == ServerInv /\ DamageInv /\ ForwarderInv

LEMMA UpTo ==
  ASSUME NEW n \in Nat
  PROVE  IsFiniteSet(1..n) /\ Cardinality(1..n) = n
<1>1. 1 \in Int /\ n \in Int
  OBVIOUS
<1>2. IsFiniteSet(1..n) /\ Cardinality(1..n) = IF 1 > n THEN 0 ELSE n - 1 + 1
  BY <1>1, FS_Interval, Zenon
<1> DEFINE c == Cardinality(1..n)
<1>3. c = IF 1 > n THEN 0 ELSE n - 1 + 1
  BY <1>2
<1> HIDE DEF c
<1>4. c = n
  BY <1>3
<1> QED  BY <1>2, <1>4 DEF c

LEMMA RequestsFinite ==
  ASSUME TypeOK, ServerInv
  PROVE  /\ IsFiniteSet(Requests) /\ Cardinality(Requests) <= MaxRequests
         /\ MaxRequests \in Nat /\ Cardinality(Requests) \in Nat
<1>1. Len(requests) \in Nat /\ Len(requests) <= MaxRequests /\ MaxRequests \in Nat
  BY NamesType, ServerAssumption DEF ServerInv, ServerAssumption
<1>2. IsFiniteSet(Requests) /\ Cardinality(Requests) = Len(requests)
  BY <1>1, UpTo DEF Requests
<1> QED  BY <1>1, <1>2

LEMMA SetsFinite ==
  ASSUME TypeOK, ServerInv, NEW T \in SUBSET Requests, NEW R \in SUBSET T
  PROVE  /\ Cardinality(T) \in 0..MaxRequests /\ Cardinality(R) \in Nat
         /\ Cardinality(R) <= Cardinality(T)
         /\ R # T => Cardinality(R) < Cardinality(T)
<1>1. IsFiniteSet(T) /\ Cardinality(T) <= Cardinality(Requests)
  BY RequestsFinite, FS_Subset
<1>2. IsFiniteSet(R) /\ Cardinality(R) <= Cardinality(T)
      /\ (Cardinality(T) = Cardinality(R) => T = R)
  BY <1>1, FS_Subset
<1>3. Cardinality(T) \in Nat /\ Cardinality(R) \in Nat
  BY <1>1, <1>2, FS_CardinalityType
<1> QED  BY <1>1, <1>2, <1>3, RequestsFinite

LEMMA DamageBounded ==
  ASSUME TypeOK, ServerInv, DamageInv
  PROVE  damage \in 0..(3 * MaxRequests)
<1>1. Gone \in SUBSET Requests /\ Closed \in SUBSET Requests /\ Done \in SUBSET Requests
  BY DEF Gone, Closed, Done
<1>2. Cardinality(Gone) \in 0..MaxRequests /\ Cardinality(Closed) \in 0..MaxRequests
      /\ Cardinality(Done) \in 0..MaxRequests
  BY <1>1, SetsFinite
<1> QED  BY <1>2, RequestsFinite DEF DamageInv

LEMMA DamageStaysBounded ==
  (TypeOK /\ ServerInv /\ DamageInv => damage \in 0..(3 * MaxRequests))'
<1>1. TypeOK /\ ServerInv /\ DamageInv => damage \in 0..(3 * MaxRequests)
  BY DamageBounded
<1> QED  BY <1>1, PTL

LEMMA DamageStep ==
  ASSUME TypeOK, TypeOK', ServerInv, ServerInv', DamageInv, Onwards,
         damage' = IF Damages THEN damage + 1 ELSE damage, Damages => Further
  PROVE  DamageInv'
<1>0. Len(requests') \in Nat
  BY LenProperties DEF TypeOK, RequestsOK
<1>1. /\ Gone' \in SUBSET Requests' /\ Closed' \in SUBSET Requests'
      /\ Done' \in SUBSET Requests'
      /\ Gone \in SUBSET Gone' /\ Closed \in SUBSET Closed' /\ Done \in SUBSET Done'
  BY DEF Gone, Closed, Done, Onwards
<1>2. \A T \in SUBSET Requests' : \A R \in SUBSET T :
        /\ Cardinality(T) \in Nat /\ Cardinality(R) \in Nat
        /\ Cardinality(R) <= Cardinality(T)
        /\ R # T => Cardinality(R) < Cardinality(T)
  <2> SUFFICES ASSUME NEW T \in SUBSET Requests', NEW R \in SUBSET T
               PROVE  /\ Cardinality(T) \in Nat /\ Cardinality(R) \in Nat
                      /\ Cardinality(R) <= Cardinality(T)
                      /\ R # T => Cardinality(R) < Cardinality(T)
    OBVIOUS
  <2>1. IsFiniteSet(Requests')
    BY <1>0, FS_Interval DEF Requests
  <2>2. IsFiniteSet(T) /\ IsFiniteSet(R)
        /\ Cardinality(R) <= Cardinality(T)
        /\ (Cardinality(T) = Cardinality(R) => T = R)
    BY <2>1, FS_Subset
  <2> QED  BY <2>2, FS_CardinalityType
<1> DEFINE a == Cardinality(Gone)
           b == Cardinality(Closed)
           c == Cardinality(Done)
           aa == Cardinality(Gone')
           bb == Cardinality(Closed')
           cc == Cardinality(Done')
<1>3. /\ a \in Nat /\ b \in Nat /\ c \in Nat /\ aa \in Nat /\ bb \in Nat /\ cc \in Nat
      /\ a <= aa /\ b <= bb /\ c <= cc
      /\ Further => a < aa \/ b < bb \/ c < cc
  BY <1>1, <1>2 DEF Further
<1>4. damage \in Nat /\ damage <= a + b + c
  BY DEF DamageInv
<1> HIDE DEF a, b, c, aa, bb, cc
<1>5. damage' \in Nat /\ damage' <= aa + bb + cc
  BY <1>3, <1>4
<1> QED  BY <1>5 DEF DamageInv, aa, bb, cc

(* A document is logged at most once for each request, so there is room    *)
(* for the one of a request that has been hashed.                          *)
LEMMA RoomToLog ==
  ASSUME TypeOK, ServerInv, NEW i \in Requests, requests[i].pc = "hashed"
  PROVE  Len(uploads) < MaxRequests
<1> DEFINE K == 1..Len(uploads)
           f == [k \in K |-> uploads[k].request]
           R == Requests \ {i}
<1>1. f \in Injection(K, R)
  BY NamesType DEF ServerInv, Injection, IsInjective
<1>2. IsFiniteSet(R) /\ Cardinality(R) = Cardinality(Requests) - 1
  BY RequestsFinite, FS_RemoveElement
<1> HIDE DEF f, R
<1>3. Cardinality(K) <= Cardinality(R)
  BY <1>1, <1>2, FS_Injection
<1>4. Cardinality(K) = Len(uploads)
  BY UpTo, NamesType
<1> QED  BY <1>2, <1>3, <1>4, RequestsFinite, NamesType
-----------------------------------------------------------------------------
(* The steps of the forwarder                                              *)

Forwards(w) == Forwarder!WorkerStep(w) \/ Forwarder!Crash(w)

Apart == Forwarder!CapeReport \/ Forwarder!Tick

(* They change a document at most, and count their faults.                 *)
LEMMA ForwarderKeeps ==
  ASSUME TypeOK, ForwarderInv, UNCHANGED serverVars, NEW w,
         Forwards(w) \/ Apart
  PROVE  ForwarderInv'
<1>1. \/ UNCHANGED logs
      \/ \E j, d : logs' = [logs EXCEPT ![j] = d]
  <2> DEFINE Kept == UNCHANGED logs \/ \E j, d : logs' = [logs EXCEPT ![j] = d]
  <2>1. CASE Forwarder!Claim(w)
    <3>1. PICK i \in Forwarder!Claimable :
            logs' = [logs EXCEPT ![i].processing = TRUE, ![i].processing_at = now]
      BY <2>1 DEF Forwarder!Claim
    <3>2. logs' = [logs EXCEPT ![i] = [[logs[i] EXCEPT !.processing = TRUE]
                                         EXCEPT !.processing_at = now]]
      BY <3>1
    <3> QED  BY <3>2
  <2>2. CASE \E d : Forwarder!Write(w, d)
    BY <2>2 DEF Forwarder!Write
  <2>3. CASE ~Forwarder!Claim(w) /\ ~\E d : Forwarder!Write(w, d)
    BY <2>3 DEF Forwards, Apart, Forwarder!WorkerStep, Forwarder!Crash,
                Forwarder!CapeReport, Forwarder!Tick, Forwarder!PollNothing,
                Forwarder!FileMissing, Forwarder!FileFound, Forwarder!Dedup,
                Forwarder!Submit, Forwarder!SubmitNoFile, Forwarder!BuryMissing,
                Forwarder!BuryDuplicate, Forwarder!Record, Forwarder!Fail,
                Forwarder!WriteFails, Forwarder!WriteRaises, Forwarder!Finish,
                Forwarder!vars
  <2> QED  BY <2>1, <2>2, <2>3
<1>2. faults' = faults \/ (faults < MaxFaults /\ faults' = faults + 1)
  BY DEF Forwards, Apart, Forwarder!WorkerStep, Forwarder!Crash,
         Forwarder!CapeReport, Forwarder!Tick, Forwarder!PollNothing,
         Forwarder!Claim, Forwarder!FileMissing, Forwarder!FileFound,
         Forwarder!Dedup, Forwarder!Submit, Forwarder!Post,
         Forwarder!SubmitNoFile, Forwarder!BuryMissing, Forwarder!BuryDuplicate,
         Forwarder!Record, Forwarder!Fail, Forwarder!WriteFails,
         Forwarder!WriteRaises, Forwarder!Finish, Forwarder!vars
<1>3. /\ DOMAIN logs' = 1..Len(uploads')
      /\ logs' = [i \in 1..Len(uploads') |-> logs'[i]]
  BY <1>1 DEF ForwarderInv, serverVars
<1>4. faults' \in Nat /\ faults' <= MaxFaults
  BY <1>2, PipelineAssumption DEF ForwarderInv, PipelineAssumption
<1> QED  BY <1>3, <1>4 DEF ForwarderInv

(* A fault of the forwarder's own leaves room in the bound of both.        *)
LEMMA RoomForFault ==
  ASSUME TypeOK, ServerInv, DamageInv, ForwarderInv, UNCHANGED damage
  PROVE  /\ faults' = faults => faults' + damage' = faults + damage
         /\ faults < MaxFaults /\ faults' = faults + 1
              => /\ faults + damage < MaxFaults + 3 * MaxRequests
                 /\ faults' + damage' = faults + damage + 1
BY DamageBounded, PipelineAssumption, RequestsFinite
   DEF ForwarderInv, PipelineAssumption

LEMMA WorkerImplements ==
  ASSUME TypeOK, ServerInv, DamageInv, ForwarderInv, UNCHANGED damage,
         NEW w, Forwards(w)
  PROVE  Abstract!WorkerStep(w) \/ Abstract!Crash(w)
<1>1. /\ faults' = faults => faults' + damage' = faults + damage
      /\ faults < MaxFaults /\ faults' = faults + 1
           => /\ faults + damage < MaxFaults + 3 * MaxRequests
              /\ faults' + damage' = faults + damage + 1
  BY RoomForFault
<1>2. /\ Abstract!Claimable = Forwarder!Claimable
      /\ \A i : Abstract!Stale(i) = Forwarder!Stale(i)
      /\ \A i : Abstract!FilesFor(i) = Forwarder!FilesFor(i)
      /\ \A x : Abstract!AlreadyForwarded(x) = Forwarder!AlreadyForwarded(x)
      /\ Abstract!Idle = Forwarder!Idle /\ Abstract!Held(w) = Forwarder!Held(w)
      /\ Abstract!Buried(w) = Forwarder!Buried(w)
      /\ Abstract!BuriedDuplicate(w) = Forwarder!BuriedDuplicate(w)
      /\ Abstract!Recorded(w) = Forwarder!Recorded(w)
      /\ \A d : Forwarder!Write(w, d) => Abstract!Write(w, d)
      /\ Abstract!None = 0 /\ Forwarder!None = 0
  BY DEF Abstract!Claimable, Forwarder!Claimable, Abstract!Stale, Forwarder!Stale,
         Abstract!FilesFor, Forwarder!FilesFor, Abstract!AlreadyForwarded,
         Forwarder!AlreadyForwarded, Abstract!Recent, Forwarder!Recent,
         Abstract!Idle, Forwarder!Idle, Abstract!Held, Forwarder!Held,
         Abstract!Buried, Forwarder!Buried, Abstract!BuriedDuplicate,
         Forwarder!BuriedDuplicate, Abstract!Recorded, Forwarder!Recorded,
         Abstract!Write, Forwarder!Write,
         Abstract!None, Forwarder!None
<1>3. ASSUME Forwarder!PollNothing(w) PROVE Abstract!PollNothing(w)
  BY <1>1, <1>2, <1>3 DEF Abstract!PollNothing, Forwarder!PollNothing,
                          Abstract!vars, Forwarder!vars
<1>4. ASSUME Forwarder!Claim(w) PROVE Abstract!Claim(w)
  BY <1>1, <1>2, <1>4 DEF Abstract!Claim, Forwarder!Claim
<1>5. ASSUME Forwarder!FileMissing(w) PROVE Abstract!FileMissing(w)
  BY <1>1, <1>2, <1>5 DEF Abstract!FileMissing, Forwarder!FileMissing,
                          Abstract!Goto, Forwarder!Goto
<1>6. ASSUME Forwarder!FileFound(w) PROVE Abstract!FileFound(w)
  BY <1>1, <1>2, <1>6 DEF Abstract!FileFound, Forwarder!FileFound
<1>7. ASSUME Forwarder!Dedup(w) PROVE Abstract!Dedup(w)
  BY <1>1, <1>2, <1>7 DEF Abstract!Dedup, Forwarder!Dedup,
                          Abstract!Goto, Forwarder!Goto
<1>8. ASSUME Forwarder!Submit(w) PROVE Abstract!Submit(w)
  BY <1>1, <1>2, <1>8 DEF Abstract!Submit, Forwarder!Submit,
                          Abstract!Goto, Forwarder!Goto, Abstract!Post, Forwarder!Post
<1>9. ASSUME Forwarder!SubmitNoFile(w) PROVE Abstract!SubmitNoFile(w)
  BY <1>1, <1>2, <1>9 DEF Abstract!SubmitNoFile, Forwarder!SubmitNoFile,
                          Abstract!Goto, Forwarder!Goto
<1>10. ASSUME NEW d, Forwarder!Finish(w, d) PROVE Abstract!Finish(w, d)
  BY <1>1, <1>2, <1>10 DEF Abstract!Finish, Forwarder!Finish
<1>11. ASSUME \/ Forwarder!BuryMissing(w) \/ Forwarder!BuryDuplicate(w)
              \/ Forwarder!Record(w) \/ Forwarder!Fail(w)
       PROVE  \/ Abstract!BuryMissing(w) \/ Abstract!BuryDuplicate(w)
              \/ Abstract!Record(w) \/ Abstract!Fail(w)
  BY <1>2, <1>10, <1>11
     DEF Abstract!BuryMissing, Forwarder!BuryMissing, Abstract!BuryDuplicate,
         Forwarder!BuryDuplicate, Abstract!Record, Forwarder!Record,
         Abstract!Fail, Forwarder!Fail
<1>12. ASSUME Forwarder!WriteFails(w) PROVE Abstract!WriteFails(w)
  <2>1. ASSUME NEW d, NEW pc, Forwarder!WriteRaises(w, d, pc)
        PROVE  Abstract!WriteRaises(w, d, pc)
    BY <1>1, <1>2, <2>1 DEF Abstract!WriteRaises, Forwarder!WriteRaises,
                            Abstract!Goto, Forwarder!Goto
  <2> QED  BY <1>2, <1>12, <2>1 DEF Abstract!WriteFails, Forwarder!WriteFails
<1>13. ASSUME Forwarder!Crash(w) PROVE Abstract!Crash(w)
  BY <1>1, <1>2, <1>13 DEF Abstract!Crash, Forwarder!Crash
<1> QED  BY <1>3, <1>4, <1>5, <1>6, <1>7, <1>8, <1>9, <1>11, <1>12, <1>13
         DEF Forwards, Forwarder!WorkerStep, Abstract!WorkerStep

LEMMA ApartImplements ==
  ASSUME UNCHANGED damage, Apart
  PROVE  Abstract!CapeReport \/ Abstract!Tick
BY DEF Apart, Forwarder!CapeReport, Forwarder!Tick, Abstract!CapeReport,
       Abstract!Tick

(* The documents are a list.                                               *)
LEMMA LogsSeq ==
  ASSUME TypeOK, ForwarderInv
  PROVE  /\ Len(logs) = Len(uploads)
         /\ \A d : Len(Append(logs, d)) = Len(uploads) + 1
                   /\ DOMAIN Append(logs, d) = 1..(Len(uploads) + 1)
                   /\ Append(logs, d)
                        = [i \in 1..(Len(uploads) + 1) |-> Append(logs, d)[i]]
<1> DEFINE D == {logs[i] : i \in 1..Len(uploads)}
<1>1. logs \in [1..Len(uploads) -> D] /\ Len(uploads) \in Nat
  BY NamesType DEF ForwarderInv
<1>2. logs \in Seq(D)
  BY <1>1, SeqDef
<1>3. Len(logs) = Len(uploads)
  BY <1>1, <1>2, LenProperties
<1>4. ASSUME NEW d
      PROVE  /\ Len(Append(logs, d)) = Len(uploads) + 1
             /\ DOMAIN Append(logs, d) = 1..(Len(uploads) + 1)
             /\ Append(logs, d) = [i \in 1..(Len(uploads) + 1) |-> Append(logs, d)[i]]
  <2>1. logs \in Seq(D \cup {d}) /\ d \in D \cup {d}
    BY <1>1, SeqDef
  <2>2. /\ Append(logs, d) \in Seq(D \cup {d})
        /\ Len(Append(logs, d)) = Len(uploads) + 1
    BY <1>3, <2>1, AppendProperties
  <2> QED  BY <1>1, <2>2, LenProperties
<1> QED  BY <1>3, <1>4

-----------------------------------------------------------------------------
(* The steps of the server                                                 *)

(* A step that logs nothing may change files.                              *)
LEMMA FilesImplement ==
  ASSUME TypeOK, ServerInv, DamageInv, TypeOK', ServerInv', DamageInv',
         ForwarderInv, ServerStep, Rewrites
  PROVE  Abstract!FilesChange \/ UNCHANGED Abstract!vars
<1>1. ~Grows /\ UNCHANGED <<uploads, logs, worker, tasks, results, now, faults,
                            crashes, lapsed, misread>>
  BY NamesType DEF Rewrites, Grows, ServerStep
<1>2. PICK c \in Files, N \in SUBSET Nat : FilesBecome(N, c)
  BY DEF Rewrites
<1>3. /\ Stored = [k \in 1..Len(uploads) |-> disk[uploads[k].name]]
      /\ Stored' = [k \in 1..Len(uploads) |-> disk'[uploads[k].name]]
      /\ Len(Stored) = Len(uploads)
  BY <1>1, StoredType DEF Stored
<1>4. CASE Damages
  <2> DEFINE S == {k \in 1..Len(uploads) : uploads[k].name \in N}
  <2>1. S \in SUBSET (1..Len(Stored)) /\ c \in (Contents \cup {Partial}) \cup {0}
    BY <1>3 DEF Files, None
  <2>2. Stored' = [k \in 1..Len(Stored) |-> IF k \in S THEN c ELSE Stored[k]]
    BY <1>2, <1>3, NamesType DEF FilesBecome, Requests
  <2>3. damage' = damage + 1
    BY <1>4 DEF ServerStep
  <2>4. /\ faults + damage < MaxFaults + 3 * MaxRequests
        /\ faults' + damage' = faults + damage + 1
    <3>1. damage' \in 0..(3 * MaxRequests)
      BY DamageStaysBounded
    <3>2. /\ damage \in Nat /\ faults \in Nat /\ faults <= MaxFaults
          /\ MaxFaults \in Nat /\ MaxRequests \in Nat /\ faults' = faults
      BY <1>1, PipelineAssumption, RequestsFinite
         DEF ForwarderInv, DamageInv, PipelineAssumption
    <3> QED  BY <2>3, <3>1, <3>2
  <2> HIDE DEF S
  <2> QED  BY <1>1, <2>1, <2>2, <2>4 DEF Abstract!FilesChange, Abstract!None
<1>5. CASE ~Damages
  <2>1. \A k \in 1..Len(uploads) : Stored'[k] = Stored[k]
    BY <1>5 DEF Damages
  <2>2. Stored' = Stored
    BY <1>3, <2>1
  <2>3. damage' = damage
    BY <1>5 DEF ServerStep
  <2> QED  BY <1>1, <2>2, <2>3 DEF Abstract!vars
<1> QED  BY <1>4, <1>5

(* A step that logs an upload is the Upload of the forwarder's             *)
(* environment, at fault when the file is not what was hashed any more.    *)
LEMMA LogImplements ==
  ASSUME TypeOK, ServerInv, DamageInv, TypeOK', ServerInv', DamageInv',
         ForwarderInv, ServerStep, LogsOne
  PROVE  Abstract!Upload
<1>1. PICK i \in Requests :
        /\ requests[i].pc = "hashed" /\ requests[i].name # 0
        /\ disk' = disk /\ uploads' = Append(uploads, Document(i))
  BY DEF LogsOne
<1>2. /\ uploads \in Seq([request : Nat, name : Nat, sum : Files])
      /\ requests[i] \in Request /\ i \in Nat
      /\ requests[i].filename \in Names /\ requests[i].sum # None
      /\ requests[i].name \in Requests
  <2>1. i \in Nat /\ uploads \in Seq([request : Nat, name : Nat, sum : Files])
    BY DEF TypeOK, DocumentsOK, Requests
  <2> QED  BY <1>1, <2>1, NamesType DEF ServerInv
<1>3. Document(i) \in [request : Nat, name : Nat, sum : Files]
  BY <1>2 DEF Document, Request
<1> PICK n \in Nat : n = Len(uploads)
  BY NamesType
<1>4. /\ Len(uploads') = n + 1 /\ uploads'[n + 1] = Document(i)
      /\ \A k \in 1..n : uploads'[k] = uploads[k]
  BY <1>1, <1>2, <1>3, AppendProperties
<1>5. Grows
  BY <1>4 DEF Grows
<1> DEFINE sha == requests[i].sum
           onDisk == disk[requests[i].name]
<1>6. sha \in Contents \cup {Partial} /\ onDisk \in (Contents \cup {Partial}) \cup {0}
  BY <1>2, NamesType DEF Request, Files, Requests, None
<1>7. logs' = Append(logs,
        [sha256 |-> sha, filename |-> requests[i].filename, timestamp |-> now,
         forwarded |-> FALSE, dead |-> FALSE, processing |-> FALSE,
         processing_at |-> 0, updated_at |-> 0, cape_sha256 |-> 0,
         duplicate_of |-> 0])
  <2>1. Fresh(n + 1) =
        [sha256 |-> sha, filename |-> requests[i].filename, timestamp |-> now,
         forwarded |-> FALSE, dead |-> FALSE, processing |-> FALSE,
         processing_at |-> 0, updated_at |-> 0, cape_sha256 |-> 0,
         duplicate_of |-> 0]
    BY <1>4 DEF Fresh, Document, None
  <2> QED  BY <1>4, <1>5, <2>1 DEF ServerStep
<1>8. /\ Stored' = Append(Stored, onDisk)
      /\ \A k \in 1..n : Stored'[k] = Stored[k]
      /\ Stored'[n + 1] = onDisk
  <2>1. Stored' = [k \in 1..(n + 1) |-> disk[uploads'[k].name]]
    BY <1>1, <1>4 DEF Stored
  <2>2. /\ Stored \in Seq(Files) /\ Len(Stored) = n
        /\ \A k \in 1..n : Stored[k] = disk[uploads[k].name]
    BY StoredType
  <2>3. uploads'[n + 1].name = requests[i].name
    BY <1>4 DEF Document
  <2>4. /\ \A k \in 1..n : Stored'[k] = Stored[k]
        /\ Stored'[n + 1] = onDisk
    BY <1>4, <2>1, <2>2, <2>3
  <2>5. onDisk \in Files
    BY <1>2, NamesType DEF Requests
  <2>6. Stored' \in Seq(Files) /\ Len(Stored') = n + 1
    <3>1. \A k \in 1..(n + 1) : Stored'[k] \in Files
      BY <2>2, <2>4, <2>5, ElementOfSeq
    <3>2. Stored' \in [1..(n + 1) -> Files]
      BY <2>1, <3>1
    <3>3. Stored' \in Seq(Files)
      BY <3>2, SeqDef
    <3> QED  BY <3>2, <3>3, LenProperties
  <2> HIDE DEF onDisk
  <2>7. /\ Append(Stored, onDisk) \in Seq(Files)
        /\ Len(Append(Stored, onDisk)) = n + 1
        /\ \A k \in 1..n : Append(Stored, onDisk)[k] = Stored[k]
        /\ Append(Stored, onDisk)[n + 1] = onDisk
    BY <2>2, <2>5, AppendProperties
  <2>8. \A k \in 1..(n + 1) : Stored'[k] = Append(Stored, onDisk)[k]
    BY <2>4, <2>7
  <2> QED  BY <2>4, <2>6, <2>7, <2>8, SeqEqual
<1>9. Damages <=> onDisk # sha
  <2>1. uploads'[n + 1].sum = sha
    BY <1>4 DEF Document
  <2>2. ~\E k \in 1..Len(uploads) : Stored'[k] # Stored[k]
    BY <1>8
  <2> HIDE DEF onDisk, sha
  <2>3. Stored'[Len(uploads')] = onDisk /\ uploads'[Len(uploads')].sum = sha
    <3>1. Len(uploads') = n + 1
      BY <1>4
    <3>2. Stored'[n + 1] = onDisk /\ uploads'[n + 1].sum = sha
      BY <1>8, <2>1
    <3> QED  BY <3>1, <3>2, Zenon
  <2> QED  BY <1>5, <2>2, <2>3 DEF Damages
<1>10. IF onDisk = sha THEN faults' + damage' = faults + damage
       ELSE /\ faults + damage < MaxFaults + 3 * MaxRequests
            /\ faults' + damage' = faults + damage + 1
  <2>1. damage' \in 0..(3 * MaxRequests) /\ faults' = faults
    BY DamageStaysBounded DEF ServerStep
  <2>2. damage' = IF onDisk = sha THEN damage ELSE damage + 1
    BY <1>9 DEF ServerStep
  <2>3. /\ damage \in Nat /\ faults \in Nat /\ faults <= MaxFaults
        /\ MaxFaults \in Nat /\ MaxRequests \in Nat
    BY PipelineAssumption, RequestsFinite
       DEF ForwarderInv, DamageInv, PipelineAssumption
  <2> HIDE DEF onDisk, sha
  <2>4. CASE onDisk = sha
    BY <2>1, <2>2, <2>3, <2>4
  <2>5. CASE onDisk # sha
    BY <2>1, <2>2, <2>3, <2>5
  <2> QED  BY <2>4, <2>5
<1>11. Len(logs) < MaxRequests
  <2>1. Len(uploads) < MaxRequests
    BY <1>1, RoomToLog
  <2>2. Len(logs) = Len(uploads)
    BY LogsSeq
  <2> QED  BY <2>1, <2>2
<1>12. UNCHANGED <<worker, tasks, results, now, crashes, lapsed, misread>>
  BY DEF ServerStep
<1> HIDE DEF sha, onDisk
<1> QED  BY <1>2, <1>6, <1>7, <1>8, <1>10, <1>11, <1>12
         DEF Abstract!Upload, Abstract!None

LEMMA ServerKeepsForwarder ==
  ASSUME TypeOK, ForwarderInv, ServerStep, Rewrites \/ LogsOne
  PROVE  ForwarderInv'
<1>1. UNCHANGED faults
  BY DEF ServerStep
<1>2. CASE Rewrites
  <2>1. UNCHANGED <<uploads, logs>>
    BY <1>2, NamesType DEF Rewrites, ServerStep, Grows
  <2> QED  BY <1>1, <2>1 DEF ForwarderInv
<1>3. CASE LogsOne
  <2>1. PICK i \in Requests : uploads' = Append(uploads, Document(i))
    BY <1>3 DEF LogsOne
  <2>2. requests[i] \in Request /\ i \in Nat
        /\ uploads \in Seq([request : Nat, name : Nat, sum : Files])
    BY NamesType DEF TypeOK, DocumentsOK, Requests
  <2>3. Document(i) \in [request : Nat, name : Nat, sum : Files]
    BY <2>2 DEF Document, Request
  <2>4. Len(uploads') = Len(uploads) + 1 /\ Len(uploads) \in Nat
    BY <2>1, <2>2, <2>3, NamesType, AppendProperties
  <2>5. \E d : logs' = Append(logs, d)
    BY <2>4 DEF ServerStep, Grows
  <2> QED  BY <1>1, <2>4, <2>5, LogsSeq DEF ForwarderInv
<1> QED  BY <1>2, <1>3

-----------------------------------------------------------------------------
LEMMA PipelineStep ==
  ASSUME TypeOK, TypeOK', PipelineInv, [Next]_vars
  PROVE  PipelineInv' /\ [Abstract!Next]_(Abstract!vars)
<1>1. CASE ServerStep
  <2>1. Onwards /\ (Damages => Further) /\ (Rewrites \/ LogsOne) /\ ServerInv'
    BY <1>1, ServerOnwards DEF ServerStep, PipelineInv
  <2>2. DamageInv'
    BY <1>1, <2>1, DamageStep DEF PipelineInv, ServerStep
  <2>3. ForwarderInv'
    BY <1>1, <2>1, ServerKeepsForwarder DEF PipelineInv
  <2>4. Abstract!FilesChange \/ Abstract!Upload \/ UNCHANGED Abstract!vars
    BY <1>1, <2>1, <2>2, FilesImplement, LogImplements DEF PipelineInv
  <2> QED  BY <2>1, <2>2, <2>3, <2>4 DEF PipelineInv, Abstract!Next
<1>2. CASE UNCHANGED <<serverVars, damage>>
           /\ (Apart \/ \E w \in Workers : Forwards(w))
  <2>1. ServerInv' /\ DamageInv'
    BY <1>2 DEF PipelineInv, ServerInv, DamageInv, Gone, Closed, Done, Requests,
                serverVars
  <2>2. ForwarderInv'
    BY <1>2, ForwarderKeeps DEF PipelineInv
  <2>3. Abstract!Next
    BY <1>2, WorkerImplements, ApartImplements DEF PipelineInv, Abstract!Next
  <2> QED  BY <2>1, <2>2, <2>3 DEF PipelineInv
<1>3. CASE UNCHANGED vars
  <2>1. PipelineInv'
    BY <1>3 DEF vars, serverVars, forwarderVars, PipelineInv, ServerInv,
                DamageInv, ForwarderInv, Gone, Closed, Done, Requests
  <2>2. UNCHANGED Abstract!vars
    BY <1>3 DEF vars, serverVars, forwarderVars, Abstract!vars, Stored
  <2> QED  BY <2>1, <2>2
<1> QED  BY <1>1, <1>2, <1>3
         DEF Next, Elsewhere, ForwarderStep, WorkerDies, Forwards, Apart

(* Server and forwarder together are, for the forwarder, what CapeForwarder *)
(* describes: uploads appear at once, with the sum of their files, and     *)
(* whatever the requests in server.js do to each other's files and         *)
(* documents is one of at most three faults for each request.              *)
THEOREM ComponentsCompose == Spec => IsForwarder
<1>1. Init => ServerInit /\ PipelineInv /\ Abstract!Init
  <2> SUFFICES ASSUME Init PROVE ServerInit /\ PipelineInv /\ Abstract!Init
    OBVIOUS
  <2>1. /\ ServerInit /\ damage = 0 /\ logs = << >> /\ faults = 0
        /\ requests = << >> /\ uploads = << >> /\ disk = << >>
        /\ Len(requests) = 0 /\ Len(uploads) = 0 /\ 1..0 = {}
    BY EmptySeq DEF Init, Forwarder!Init, ServerInit
  <2>2. ServerInv
    BY <2>1, ServerAssumption DEF ServerInv, Requests, ServerAssumption
  <2>3. DamageInv
    <3>1. Gone = {} /\ Closed = {} /\ Done = {}
      BY <2>1 DEF Gone, Closed, Done, Requests
    <3> QED  BY <2>1, <3>1, FS_EmptySet DEF DamageInv
  <2>4. ForwarderInv
    BY <2>1, PipelineAssumption DEF ForwarderInv, PipelineAssumption
  <2>5. Abstract!Init
    BY <2>1 DEF Init, Forwarder!Init, Abstract!Init, Forwarder!Idle, Abstract!Idle,
                Forwarder!None, Abstract!None
  <2> QED  BY <2>1, <2>2, <2>3, <2>4, <2>5 DEF PipelineInv
<1>2. [Next]_vars => [ServerNext]_serverVars
  BY DEF Next, vars, ServerStep, Elsewhere, ForwarderStep, WorkerDies
<1>3. TypeOK /\ TypeOK' /\ PipelineInv /\ [Next]_vars
        => PipelineInv' /\ [Abstract!Next]_(Abstract!vars)
  BY PipelineStep
<1> QED  BY <1>1, <1>2, <1>3, TypeCorrect, PTL
         DEF Spec, ServerSpec, IsForwarder, Abstract!Spec
=============================================================================
