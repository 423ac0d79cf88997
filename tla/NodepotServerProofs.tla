------------------------- MODULE NodepotServerProofs -------------------------
(***************************************************************************)
(* Proofs about NodepotServer, for any contents, names and numbers of      *)
(* requests: its type invariant, and that an upload whose stored name is   *)
(* its own is logged as what it is.                                        *)
(***************************************************************************)
EXTENDS NodepotServer, SequenceTheorems, TLAPS

Files == Contents \cup {Partial, None}

Pcs == {"writing", "written", "hashed", "done"}

Requests == 1..Len(requests)

Request == [pc : Pcs, content : Contents \cup {None},
            filename : Names \cup {None}, name : Nat, sum : Files]

(* Requests, files and documents are well formed: a request writes under   *)
(* its own number or an earlier one's, and what is hashed was there.       *)
RequestsOK ==
  /\ requests \in Seq(Request)
  /\ Len(disk) = Len(requests) /\ disk \in Seq(Files)
  /\ \A i \in Requests :
       requests[i].name \in 0..i /\ (requests[i].pc # "done" => requests[i].name # 0)

DocumentsOK ==
  /\ uploads \in Seq([request : Nat, name : Nat, sum : Files])
  /\ \A k \in 1..Len(uploads) :
       /\ uploads[k].request \in Requests
       /\ uploads[k].name = requests[uploads[k].request].name
       /\ uploads[k].name # 0

TypeOK == RequestsOK /\ DocumentsOK

(* The state of the file of a request that shares its name with no other,  *)
(* and what the handler has made of it.                                    *)
OwnFile(i) ==
  /\ requests[i].pc \in {"written", "hashed"}
       => FileOf(i) \in {requests[i].content, None}
  /\ requests[i].pc = "hashed" => requests[i].sum = requests[i].content

Own(i) == ~Shared(i) => OwnFile(i)

(* What was logged of it.                                                  *)
OwnDocument(k) ==
  LET i == uploads[k].request IN
  /\ requests[i].pc = "done"
  /\ ~Shared(i) => /\ uploads[k].sum = requests[i].content
                   /\ FileOf(i) \in {requests[i].content, None}

TruthInv ==
  /\ \A i \in Requests : Own(i)
  /\ \A k \in 1..Len(uploads) : OwnDocument(k)
-----------------------------------------------------------------------------
(* Type correctness                                                        *)

LEMMA Facts ==
  ASSUME TypeOK
  PROVE  /\ Len(requests) \in Nat /\ Len(disk) = Len(requests)
         /\ Len(uploads) \in Nat
         /\ \A i \in Requests : requests[i] \in Request
         /\ \A n \in 1..Len(disk) : disk[n] \in Files
         /\ \A k \in 1..Len(uploads) :
              uploads[k] \in [request : Nat, name : Nat, sum : Files]
BY LenProperties, ElementOfSeq DEF TypeOK, RequestsOK, DocumentsOK, Requests

(* One request moves on, and the file it writes may change.                *)
Moves(i) ==
  /\ Len(requests') = Len(requests) /\ Len(disk') = Len(disk)
  /\ requests[i].pc # "done" /\ requests[i].name \in 1..Len(disk)
  /\ \A j \in Requests :
       /\ requests'[j].name = requests[j].name
       /\ requests'[j].content = requests[j].content
       /\ requests'[j].filename = requests[j].filename
       /\ j # i => requests'[j] = requests[j]
  /\ \A n \in 1..Len(disk) : n # requests[i].name => disk'[n] = disk[n]

LEMMA MoveType ==
  ASSUME TypeOK, NEW i \in Requests, requests[i].pc # "done",
         NEW pc \in Pcs, NEW sum \in Files, NEW c \in Files,
         requests' = [requests EXCEPT ![i].pc = pc, ![i].sum = sum],
         \/ disk' = disk
         \/ disk' = [disk EXCEPT ![requests[i].name] = c]
  PROVE  Moves(i) /\ RequestsOK' /\ requests'[i].pc = pc /\ requests'[i].sum = sum
<1> DEFINE r == [requests[i] EXCEPT !.pc = pc, !.sum = sum]
           n == requests[i].name
<1>1. requests[i] \in Request /\ n \in 1..Len(disk) /\ Len(disk) \in Nat
      /\ i \in 1..Len(requests)
  BY Facts DEF TypeOK, RequestsOK, Requests
<1>2. /\ r \in Request /\ r.name = n /\ r.content = requests[i].content
      /\ r.filename = requests[i].filename
      /\ r.pc = pc /\ r.sum = sum
  BY <1>1 DEF Request
<1>3. requests \in Seq(Request) /\ disk \in Seq(Files)
  BY DEF TypeOK, RequestsOK
<1>4. requests' = [requests EXCEPT ![i] = r]
  OBVIOUS
<1> HIDE DEF r
<1>5. /\ requests' \in Seq(Request) /\ Len(requests') = Len(requests)
      /\ \A j \in 1..Len(requests) :
           requests'[j] = IF j = i THEN r ELSE requests[j]
  <2> DEFINE t == [requests EXCEPT ![i] = r]
  <2>1. /\ t \in Seq(Request) /\ Len(t) = Len(requests)
        /\ \A j \in 1..Len(requests) : t[j] = IF j = i THEN r ELSE requests[j]
    BY <1>1, <1>2, <1>3, ExceptSeq
  <2> HIDE DEF t
  <2> QED  BY <2>1, <1>4 DEF t
<1>6. /\ disk' \in Seq(Files) /\ Len(disk') = Len(disk)
      /\ \A m \in 1..Len(disk) : m # n => disk'[m] = disk[m]
  <2>1. CASE disk' = disk
    BY <2>1, <1>3
  <2>2. CASE disk' = [disk EXCEPT ![n] = c]
    BY <2>2, <1>1, <1>3, ExceptSeq
  <2> QED  BY <2>1, <2>2
<1>7. Moves(i)
  BY <1>1, <1>2, <1>5, <1>6 DEF Moves, Requests
<1>8. \A j \in Requests' :
        requests'[j].name \in 0..j /\ (requests'[j].pc # "done" => requests'[j].name # 0)
  BY <1>1, <1>2, <1>5 DEF TypeOK, RequestsOK, Requests
<1>9. RequestsOK'
  BY <1>5, <1>6, <1>8, Facts DEF RequestsOK
<1> QED  BY <1>1, <1>2, <1>5, <1>7, <1>9

(* What each step of a request does to it.                                 *)
LEMMA StepMoves ==
  ASSUME TypeOK, NEW i \in Requests,
         UploadEnds(i) \/ UploadBreaks(i) \/ Hash(i) \/ HashRaises(i)
           \/ LogUpload(i)
  PROVE  /\ Moves(i) /\ RequestsOK'
         /\ \/ UploadEnds(i) /\ requests'[i].pc = "written"
            \/ Hash(i) /\ requests'[i].pc = "hashed" /\ requests'[i].sum = FileOf(i)
            \/ /\ UploadBreaks(i) \/ HashRaises(i) \/ LogUpload(i)
               /\ requests'[i].pc = "done"
<1> DEFINE sum == requests[i].sum
<1>1. /\ requests[i] \in Request /\ sum \in Files
      /\ requests[i].pc # "done" => FileOf(i) \in Files
      /\ requests[i].content \in Files
  BY Facts DEF Request, TypeOK, RequestsOK, Requests, FileOf, Files
<1>2. Partial \in Files /\ None \in Files /\ Pcs = {"writing", "written", "hashed", "done"}
  BY DEF Files, Pcs
<1>3. \A pc : [requests EXCEPT ![i].pc = pc]
                = [requests EXCEPT ![i].pc = pc, ![i].sum = sum]
  <2>1. requests \in [1..Len(requests) -> Request]
    BY LenProperties DEF TypeOK, RequestsOK
  <2> QED  BY <1>1, <2>1 DEF Request, Requests
<1>4. CASE UploadEnds(i)
  <2>1. requests[i].pc = "writing"
        /\ requests' = [requests EXCEPT ![i].pc = "written", ![i].sum = sum]
    BY <1>3, <1>4 DEF UploadEnds
  <2>2. PICK c \in Files : disk' = [disk EXCEPT ![requests[i].name] = c]
    BY <1>1, <1>2, <1>4, <2>1 DEF UploadEnds
  <2>3. Moves(i) /\ RequestsOK' /\ requests'[i].pc = "written"
    BY <1>1, <1>2, <2>1, <2>2, MoveType
  <2> QED  BY <1>4, <2>3
<1>5. CASE UploadBreaks(i)
  <2>1. requests[i].pc = "writing"
        /\ requests' = [requests EXCEPT ![i].pc = "done", ![i].sum = sum]
    BY <1>3, <1>5 DEF UploadBreaks
  <2>2. PICK c \in Files : disk' = [disk EXCEPT ![requests[i].name] = c]
    BY <1>1, <1>2, <1>5, <2>1 DEF UploadBreaks
  <2>3. Moves(i) /\ RequestsOK' /\ requests'[i].pc = "done"
    BY <1>1, <1>2, <2>1, <2>2, MoveType
  <2> QED  BY <1>5, <2>3
<1>6. CASE Hash(i)
  <2>1. requests[i].pc = "written" /\ disk' = disk
        /\ requests' = [requests EXCEPT ![i].pc = "hashed", ![i].sum = FileOf(i)]
    BY <1>6 DEF Hash, Hashed
  <2>2. Moves(i) /\ RequestsOK' /\ requests'[i].pc = "hashed"
        /\ requests'[i].sum = FileOf(i)
    BY <1>1, <1>2, <2>1, MoveType
  <2> QED  BY <1>6, <2>2
<1>7. CASE HashRaises(i) \/ LogUpload(i)
  <2>1. requests[i].pc \in {"written", "hashed"} /\ disk' = disk
        /\ requests' = [requests EXCEPT ![i].pc = "done", ![i].sum = sum]
    BY <1>3, <1>7 DEF HashRaises, LogUpload
  <2>2. Moves(i) /\ RequestsOK' /\ requests'[i].pc = "done"
    BY <1>1, <1>2, <2>1, MoveType
  <2> QED  BY <1>7, <2>2
<1> QED  BY <1>4, <1>5, <1>6, <1>7

(* A request comes; of the files it may only truncate one.                 *)
Comes ==
  /\ Len(requests') = Len(requests) + 1
  /\ \A j \in Requests : requests'[j] = requests[j]
  /\ requests'[Len(requests) + 1].pc \in {"writing", "done"}
  /\ \A n \in 1..Len(disk) :
       disk'[n] = disk[n] \/ requests'[Len(requests) + 1].name = n
  /\ UNCHANGED uploads

LEMMA ComeType ==
  ASSUME TypeOK, NEW r \in Request, NEW files \in Seq(Files), NEW c \in Files,
         Len(files) = Len(disk), r.pc \in {"writing", "done"},
         r.name \in 0..(Len(requests) + 1), r.pc # "done" => r.name # 0,
         \A n \in 1..Len(disk) : files[n] = disk[n] \/ r.name = n,
         requests' = Append(requests, r), disk' = Append(files, c),
         UNCHANGED uploads
  PROVE  Comes /\ RequestsOK'
<1>1. requests \in Seq(Request) /\ Len(requests) \in Nat /\ Len(disk) = Len(requests)
  BY Facts DEF TypeOK, RequestsOK
<1>2. /\ requests' \in Seq(Request) /\ Len(requests') = Len(requests) + 1
      /\ \A j \in 1..Len(requests) : requests'[j] = requests[j]
      /\ requests'[Len(requests) + 1] = r
  BY <1>1, AppendProperties
<1>3. /\ disk' \in Seq(Files) /\ Len(disk') = Len(disk) + 1
      /\ \A n \in 1..Len(disk) : disk'[n] = files[n]
  BY AppendProperties
<1>4. Comes
  BY <1>1, <1>2, <1>3 DEF Comes, Requests
<1>5. \A j \in Requests' :
        requests'[j].name \in 0..j /\ (requests'[j].pc # "done" => requests'[j].name # 0)
  BY <1>1, <1>2 DEF TypeOK, RequestsOK, Requests
<1> QED  BY <1>1, <1>2, <1>3, <1>4, <1>5 DEF RequestsOK

LEMMA RequestComes ==
  ASSUME TypeOK, UploadBegins \/ NamesCollide \/ OtherRequest
  PROVE  Comes /\ RequestsOK'
<1>1. Len(requests) \in Nat /\ Len(disk) = Len(requests) /\ disk \in Seq(Files)
      /\ Partial \in Files /\ None \in Files
  BY Facts DEF TypeOK, RequestsOK, Files
<1>2. CASE UploadBegins
  <2>1. PICK content \in Contents, filename \in Names :
          /\ requests' = Append(requests, Upload(content, filename, Len(requests) + 1))
          /\ disk' = Append(disk, Partial)
    BY <1>2 DEF UploadBegins, Arrives
  <2> DEFINE r == Upload(content, filename, Len(requests) + 1)
  <2>2. r \in Request /\ r.pc = "writing" /\ r.name = Len(requests) + 1
    BY <1>1 DEF Upload, Request, Pcs, Files
  <2> HIDE DEF r
  <2>3. requests' = Append(requests, r) /\ UNCHANGED uploads
    BY <1>2, <2>1 DEF r, UploadBegins
  <2> QED  BY <1>1, <2>1, <2>2, <2>3, ComeType
<1>3. CASE NamesCollide
  <2>1. PICK content \in Contents, i \in Requests :
          /\ requests' = Append(requests, Upload(content, requests[i].filename, i))
          /\ disk' = Append([disk EXCEPT ![i] = Partial], None)
          /\ requests[i].name = i
    BY <1>3 DEF NamesCollide, Requests
  <2> DEFINE r == Upload(content, requests[i].filename, i)
             files == [disk EXCEPT ![i] = Partial]
  <2>2. r \in Request /\ r.pc = "writing" /\ r.name = i /\ i \in 1..Len(requests)
    BY <1>1, Facts DEF Upload, Request, Pcs, Files, Requests
  <2>3. /\ files \in Seq(Files) /\ Len(files) = Len(disk)
        /\ \A n \in 1..Len(disk) : files[n] = disk[n] \/ r.name = n
    BY <1>1, <2>2, ExceptSeq
  <2>4. requests' = Append(requests, r) /\ disk' = Append(files, None)
        /\ UNCHANGED uploads
    BY <1>3, <2>1 DEF NamesCollide
  <2> HIDE DEF r, files
  <2>5. r.name \in 0..(Len(requests) + 1) /\ r.name # 0
    BY <1>1, <2>2
  <2> QED  BY <1>1, <2>2, <2>3, <2>4, <2>5, ComeType
<1>4. CASE OtherRequest
  <2> DEFINE r == [pc |-> "done", content |-> None, filename |-> None,
                   name |-> None, sum |-> None]
  <2>1. r \in Request /\ r.pc = "done" /\ r.name = 0
    BY <1>1 DEF Request, Pcs, Files, None
  <2>2. requests' = Append(requests, r) /\ disk' = Append(disk, None)
        /\ UNCHANGED uploads
    BY <1>4 DEF OtherRequest, Arrives
  <2> HIDE DEF r
  <2> QED  BY <1>1, <2>1, <2>2, ComeType
<1> QED  BY <1>2, <1>3, <1>4

LEMMA RestartEffect ==
  ASSUME TypeOK, Restart
  PROVE  /\ RequestsOK' /\ Len(requests') = Len(requests) /\ UNCHANGED uploads
         /\ \A j \in Requests : /\ requests'[j].pc = "done"
                                /\ requests'[j].name = requests[j].name
                                /\ requests'[j].content = requests[j].content
                                /\ requests'[j].filename = requests[j].filename
         /\ \A n \in 1..Len(disk) : disk'[n] = None
<1>1. Len(requests) \in Nat /\ Len(disk) = Len(requests) /\ None \in Files
      /\ \A j \in 1..Len(requests) : requests[j] \in Request
  BY Facts DEF Files, Requests
<1>2. requests' = [j \in 1..Len(requests) |-> [requests[j] EXCEPT !.pc = "done"]]
      /\ disk' = [n \in 1..Len(disk) |-> None] /\ UNCHANGED uploads
  BY DEF Restart
<1>3. \A j \in 1..Len(requests) :
        LET r == [requests[j] EXCEPT !.pc = "done"] IN
        /\ r \in Request /\ r.pc = "done" /\ r.name = requests[j].name
        /\ r.content = requests[j].content /\ r.filename = requests[j].filename
  BY <1>1 DEF Request, Pcs
<1>4. requests' \in [1..Len(requests) -> Request]
  BY <1>2, <1>3
<1>5. requests' \in Seq(Request) /\ Len(requests') = Len(requests)
  BY <1>1, <1>4, SeqDef, LenProperties
<1>6. disk' \in [1..Len(disk) -> Files]
  BY <1>1, <1>2
<1>7. disk' \in Seq(Files) /\ Len(disk') = Len(disk)
  BY <1>1, <1>6, SeqDef, LenProperties
<1>8. \A j \in 1..Len(requests) :
        /\ requests'[j].pc = "done" /\ requests'[j].name = requests[j].name
        /\ requests'[j].content = requests[j].content
        /\ requests'[j].filename = requests[j].filename
  BY <1>2, <1>3
<1>9. RequestsOK'
  BY <1>1, <1>5, <1>7, <1>8 DEF TypeOK, RequestsOK, Requests
<1> QED  BY <1>1, <1>2, <1>5, <1>8, <1>9 DEF Requests

LEMMA DocumentsKept ==
  ASSUME TypeOK, UNCHANGED uploads,
         Len(requests') \in Nat, Len(requests') >= Len(requests),
         \A j \in Requests : requests'[j].name = requests[j].name
  PROVE  DocumentsOK'
<1>1. Len(requests) \in Nat /\ DocumentsOK
  BY Facts DEF TypeOK
<1>2. Requests \subseteq Requests'
  BY <1>1 DEF Requests
<1>3. uploads' \in Seq([request : Nat, name : Nat, sum : Files])
  BY <1>1 DEF DocumentsOK
<1>4. ASSUME NEW k \in 1..Len(uploads')
      PROVE  /\ uploads'[k].request \in Requests'
             /\ uploads'[k].name = requests'[uploads'[k].request].name
             /\ uploads'[k].name # 0
  BY <1>1, <1>2 DEF DocumentsOK
<1> QED  BY <1>3, <1>4 DEF DocumentsOK

LEMMA UploadLogged ==
  ASSUME TypeOK, NEW i \in Requests, LogUpload(i), uploads' # uploads
  PROVE  /\ uploads' \in Seq([request : Nat, name : Nat, sum : Files])
         /\ Len(uploads') = Len(uploads) + 1
         /\ \A k \in 1..Len(uploads) : uploads'[k] = uploads[k]
         /\ uploads'[Len(uploads) + 1] = Document(i)
<1>1. uploads' = Append(uploads, Document(i))
  BY DEF LogUpload
<1>2. /\ requests[i] \in Request /\ i \in Nat
      /\ uploads \in Seq([request : Nat, name : Nat, sum : Files])
  BY Facts DEF TypeOK, DocumentsOK, Requests
<1>3. Document(i) \in [request : Nat, name : Nat, sum : Files]
  BY <1>2 DEF Document, Request
<1> QED  BY <1>1, <1>2, <1>3, AppendProperties

LEMMA TypeStep ==
  ASSUME TypeOK, [ServerNext]_serverVars
  PROVE  TypeOK'
<1>1. Len(requests) \in Nat /\ Len(uploads) \in Nat
  BY Facts
<1>2. CASE UNCHANGED serverVars
  BY <1>2 DEF serverVars, TypeOK, RequestsOK, DocumentsOK, Requests
<1>3. CASE Connect
  BY <1>3 DEF Connect, TypeOK, RequestsOK, DocumentsOK, Requests
<1>4. CASE UploadBegins \/ NamesCollide \/ OtherRequest
  <2>1. Comes /\ RequestsOK'
    BY <1>4, RequestComes
  <2> QED  BY <1>1, <2>1, DocumentsKept DEF Comes, TypeOK
<1>5. CASE Restart
  BY <1>1, <1>5, RestartEffect, DocumentsKept DEF TypeOK
<1>6. ASSUME NEW i \in Requests,
             UploadEnds(i) \/ UploadBreaks(i) \/ Hash(i) \/ HashRaises(i)
               \/ LogUpload(i)
      PROVE  TypeOK'
  <2>1. Moves(i) /\ RequestsOK'
    BY <1>6, StepMoves
  <2>2. Len(requests') = Len(requests)
        /\ \A j \in Requests : requests'[j].name = requests[j].name
    BY <2>1 DEF Moves
  <2>3. CASE UNCHANGED uploads
    BY <1>1, <2>1, <2>2, <2>3, DocumentsKept DEF TypeOK
  <2>4. CASE uploads' # uploads
    <3>1. LogUpload(i)
      BY <1>6, <2>4 DEF UploadEnds, UploadBreaks, Hash, HashRaises
    <3>2. \A k \in 1..Len(uploads') :
            k \in 1..Len(uploads) \/ k = Len(uploads) + 1
      BY <1>1, <2>4, <3>1, UploadLogged
    <3>3. Document(i).request = i /\ Document(i).name = requests[i].name
      BY DEF Document
    <3>4. requests[i].name # 0
      BY <2>1 DEF Moves
    <3>5. Requests' = Requests /\ DocumentsOK
      BY <2>2 DEF Requests, TypeOK
    <3>6. ASSUME NEW k \in 1..Len(uploads')
          PROVE  /\ uploads'[k].request \in Requests'
                 /\ uploads'[k].name = requests'[uploads'[k].request].name
                 /\ uploads'[k].name # 0
      <4>1. CASE k \in 1..Len(uploads)
        <5>1. uploads'[k] = uploads[k]
          BY <2>4, <3>1, <4>1, UploadLogged
        <5> QED  BY <2>2, <3>5, <4>1, <5>1 DEF DocumentsOK
      <4>2. CASE k = Len(uploads) + 1
        <5>1. uploads'[k] = Document(i)
          BY <2>4, <3>1, <4>2, UploadLogged
        <5> QED  BY <2>2, <3>3, <3>4, <3>5, <5>1
      <4> QED  BY <3>2, <4>1, <4>2
    <3>7. DocumentsOK'
      BY <2>4, <3>1, <3>6, UploadLogged DEF DocumentsOK
    <3> QED  BY <2>1, <3>7 DEF TypeOK
  <2> QED  BY <2>3, <2>4
<1> QED  BY <1>2, <1>3, <1>4, <1>5, <1>6 DEF ServerNext, Requests

(* The requests and documents stay well formed, whatever arrives, breaks   *)
(* off or restarts: a document's stored name is that of its request.       *)
THEOREM TypeCorrect == ServerSpec => []TypeOK
<1>1. ServerInit => TypeOK
  <2> SUFFICES ASSUME ServerInit PROVE TypeOK
    OBVIOUS
  <2>1. requests = << >> /\ disk = << >> /\ uploads = << >>
    BY DEF ServerInit
  <2>2. \A S : << >> \in Seq(S) /\ Len(<< >>) = 0 /\ 1..0 = {}
    BY EmptySeq
  <2> QED  BY <2>1, <2>2 DEF TypeOK, RequestsOK, DocumentsOK, Requests
<1>2. TypeOK /\ [ServerNext]_serverVars => TypeOK'
  BY TypeStep
<1> QED  BY <1>1, <1>2, PTL DEF ServerSpec

-----------------------------------------------------------------------------
(* What is logged is what was sent                                         *)

(* A stored name that is one request's own was so before.                  *)
LEMMA OwnBefore ==
  ASSUME NEW j \in Requests, Len(requests) \in Nat, Len(requests') \in Nat,
         Len(requests') >= Len(requests),
         \A i \in Requests : requests'[i].name = requests[i].name,
         ~Shared(j)'
  PROVE  /\ ~Shared(j)
         /\ \A i \in 1..Len(requests') : i # j => requests'[i].name # requests[j].name
BY DEF Shared, Requests

(* What a request and its documents are said to be does not change with    *)
(* the steps that leave its record and its file alone.                     *)
LEMMA Keeps ==
  ASSUME TypeOK, TruthInv, NEW j \in Requests, requests'[j] = requests[j],
         Shared(j)' \/ (~Shared(j) /\ (requests[j].name # 0
                                        => FileOf(j)' = FileOf(j)))
  PROVE  /\ Own(j)'
         /\ \A k \in 1..Len(uploads) :
              uploads[k].request = j /\ uploads'[k] = uploads[k] => OwnDocument(k)'
<1>1. Own(j) /\ (requests[j].pc # "done" => requests[j].name # 0)
  BY DEF TruthInv, TypeOK, RequestsOK, Requests
<1>2. Own(j)'
  BY <1>1 DEF Own, OwnFile
<1>3. ASSUME NEW k \in 1..Len(uploads), uploads[k].request = j, uploads'[k] = uploads[k]
      PROVE  OwnDocument(k)'
  <2>1. OwnDocument(k) /\ requests[j].name # 0
    BY <1>3 DEF TruthInv, TypeOK, DocumentsOK
  <2> QED  BY <1>3, <2>1 DEF OwnDocument
<1> QED  BY <1>2, <1>3

(* A request that moves on disturbs no other with a name of its own.       *)
LEMMA OthersKeep ==
  ASSUME TypeOK, TruthInv, NEW i \in Requests, Moves(i)
  PROVE  /\ \A j \in Requests : j # i => Own(j)'
         /\ \A k \in 1..Len(uploads) : uploads'[k] = uploads[k] => OwnDocument(k)'
<1>1. /\ Len(requests) \in Nat /\ Len(disk) = Len(requests)
      /\ Len(requests') = Len(requests)
      /\ \A m \in Requests : requests'[m].name = requests[m].name
  BY Facts DEF Moves
<1>2. ASSUME NEW j \in Requests, j # i
      PROVE  /\ Own(j)'
             /\ \A k \in 1..Len(uploads) :
                  uploads[k].request = j /\ uploads'[k] = uploads[k] => OwnDocument(k)'
  <2>1. requests'[j] = requests[j]
    BY <1>2 DEF Moves
  <2>2. ASSUME ~Shared(j)', requests[j].name # 0
        PROVE  FileOf(j)' = FileOf(j)
    <3>1. requests[i].name # requests[j].name
      BY <1>1, <1>2, <2>2, OwnBefore DEF Requests
    <3>2. requests[j].name \in 1..Len(disk)
      BY <1>1, <2>2, Facts DEF TypeOK, RequestsOK, Requests
    <3> QED  BY <2>1, <3>1, <3>2 DEF FileOf, Moves
  <2>3. Shared(j)' \/ (~Shared(j) /\ (requests[j].name # 0 => FileOf(j)' = FileOf(j)))
    BY <1>1, <2>2, OwnBefore
  <2> QED  BY <2>1, <2>3, Keeps
<1>3. ASSUME NEW k \in 1..Len(uploads), uploads'[k] = uploads[k]
      PROVE  OwnDocument(k)'
  <2>1. uploads[k].request \in Requests /\ uploads[k].request # i
    BY DEF TypeOK, DocumentsOK, TruthInv, OwnDocument, Moves
  <2> QED  BY <1>2, <1>3, <2>1
<1> QED  BY <1>2, <1>3

LEMMA TruthStep ==
  ASSUME TypeOK, TypeOK', TruthInv, [ServerNext]_serverVars
  PROVE  TruthInv'
<1>1. /\ Len(requests) \in Nat /\ Len(uploads) \in Nat
      /\ Len(disk) = Len(requests)
  BY Facts
<1>2. CASE UNCHANGED serverVars
  BY <1>2 DEF serverVars, TruthInv, Own, OwnFile, OwnDocument, Shared, FileOf, Requests
<1>3. CASE Connect
  BY <1>3 DEF Connect, TruthInv, Own, OwnFile, OwnDocument, Shared, FileOf, Requests
<1>4. CASE UploadBegins \/ NamesCollide \/ OtherRequest
  <2> PICK n \in Nat : n = Len(requests) + 1
    BY <1>1
  <2>1. Comes
    BY <1>4, RequestComes
  <2>2. Len(requests') = n /\ \A m \in Requests : requests'[m] = requests[m]
    BY <2>1 DEF Comes
  <2>3. ASSUME NEW j \in Requests
        PROVE  /\ Own(j)'
               /\ \A k \in 1..Len(uploads) : uploads[k].request = j => OwnDocument(k)'
    <3>1. ASSUME ~Shared(j)', requests[j].name # 0
          PROVE  FileOf(j)' = FileOf(j)
      <4>1. requests'[n].name # requests[j].name
        BY <1>1, <2>2, <3>1, OwnBefore DEF Requests
      <4>2. requests[j].name \in 1..Len(disk)
        BY <1>1, <3>1, Facts DEF TypeOK, RequestsOK, Requests
      <4> QED  BY <2>1, <2>2, <4>1, <4>2 DEF FileOf, Comes
    <3>2. Shared(j)' \/ (~Shared(j) /\ (requests[j].name # 0 => FileOf(j)' = FileOf(j)))
      BY <1>1, <2>2, <3>1, OwnBefore
    <3>3. UNCHANGED uploads
      BY <2>1 DEF Comes
    <3> QED  BY <2>2, <3>2, <3>3, Keeps
  <2>4. Own(n)'
    BY <2>1 DEF Comes, Own, OwnFile
  <2>5. \A j \in Requests' : j \in Requests \/ j = n
    BY <1>1, <2>2 DEF Requests
  <2>6. \A k \in 1..Len(uploads') : OwnDocument(k)'
    BY <2>1, <2>3 DEF Comes, TypeOK, DocumentsOK
  <2> QED  BY <2>3, <2>4, <2>5, <2>6 DEF TruthInv
<1>5. CASE Restart
  <2>1. /\ Len(requests') = Len(requests) /\ UNCHANGED uploads
        /\ \A j \in Requests : /\ requests'[j].pc = "done"
                               /\ requests'[j].name = requests[j].name
                               /\ requests'[j].content = requests[j].content
        /\ \A m \in 1..Len(disk) : disk'[m] = None
    BY <1>5, RestartEffect
  <2>2. \A j \in Requests' : Own(j)'
    BY <2>1 DEF Requests, Own, OwnFile
  <2>3. ASSUME NEW k \in 1..Len(uploads)
        PROVE  OwnDocument(k)'
    <3> PICK j \in Requests : j = uploads[k].request
      BY DEF TypeOK, DocumentsOK
    <3>1. requests[j].name \in 1..Len(disk) /\ OwnDocument(k)
      <4>1. requests[j].name \in 0..j /\ requests[j].name # 0
        BY DEF TypeOK, RequestsOK, DocumentsOK
      <4> QED  BY <1>1, <4>1 DEF TruthInv, Requests
    <3>2. Shared(j)' \/ ~Shared(j)
      BY <1>1, <2>1, <3>1, OwnBefore
    <3>3. FileOf(j)' = None
      BY <2>1, <3>1 DEF FileOf
    <3> QED  BY <2>1, <3>1, <3>2, <3>3 DEF OwnDocument
  <2> QED  BY <2>1, <2>2, <2>3 DEF TruthInv
<1>6. ASSUME NEW i \in Requests,
             UploadEnds(i) \/ UploadBreaks(i) \/ Hash(i) \/ HashRaises(i)
               \/ LogUpload(i)
      PROVE  TruthInv'
  <2>1. Moves(i)
    BY <1>6, StepMoves
  <2>2. /\ Len(requests') = Len(requests) /\ Requests' = Requests
        /\ requests'[i].name = requests[i].name
        /\ requests'[i].content = requests[i].content
        /\ requests[i].name \in 1..Len(disk)
        /\ Shared(i)' \/ ~Shared(i)
    BY <1>1, <2>1, OwnBefore DEF Moves, Requests
  <2>3. Own(i)'
    <3>1. CASE UploadEnds(i) /\ ~Shared(i)
      <4>1. PICK c \in {requests[i].content, None} :
              disk' = [disk EXCEPT ![requests[i].name] = c]
        BY <3>1 DEF UploadEnds
      <4>2. disk \in Seq(Files) /\ Len(disk) \in Nat
        BY <1>1 DEF TypeOK, RequestsOK
      <4>3. FileOf(i)' = c
        BY <2>2, <4>1, <4>2, LenProperties DEF FileOf
      <4>4. requests'[i].pc # "hashed"
        BY <1>6, <3>1 DEF UploadEnds, TypeOK, RequestsOK
      <4> QED  BY <2>2, <4>3, <4>4 DEF Own, OwnFile
    <3>2. CASE Hash(i) /\ requests'[i].sum = FileOf(i)
      <4>1. Own(i) /\ requests[i].pc = "written" /\ FileOf(i) # None /\ disk' = disk
        BY <3>2 DEF Hash, TruthInv
      <4>2. FileOf(i)' = FileOf(i)
        BY <2>2, <4>1 DEF FileOf
      <4> QED  BY <2>2, <3>2, <4>1, <4>2 DEF Own, OwnFile
    <3>3. CASE requests'[i].pc = "done"
      BY <3>3 DEF Own, OwnFile
    <3>4. CASE Shared(i)'
      BY <3>4 DEF Own
    <3> QED  BY <1>6, <2>2, <3>1, <3>2, <3>3, <3>4, StepMoves
  <2>4. \A j \in Requests' : Own(j)'
    BY <2>1, <2>2, <2>3, OthersKeep
  <2>5. CASE UNCHANGED uploads
    BY <2>1, <2>4, <2>5, OthersKeep DEF TruthInv
  <2>6. CASE uploads' # uploads
    <3> PICK n \in Nat : n = Len(uploads) + 1
      BY <1>1
    <3>1. LogUpload(i)
      BY <1>6, <2>6 DEF UploadEnds, UploadBreaks, Hash, HashRaises
    <3>2. /\ requests[i].pc = "hashed" /\ disk' = disk /\ Own(i)
          /\ requests'[i].pc = "done"
      BY <1>6, <3>1, StepMoves DEF LogUpload, TruthInv, UploadEnds, Hash
    <3>3. uploads'[n].request = i /\ uploads'[n].sum = requests[i].sum
      <4>1. uploads'[n] = Document(i)
        BY <2>6, <3>1, UploadLogged
      <4> QED  BY <4>1 DEF Document
    <3>4. FileOf(i)' = FileOf(i)
      BY <2>2, <3>2 DEF FileOf
    <3>5. OwnDocument(n)'
      BY <2>2, <3>2, <3>3, <3>4 DEF OwnDocument, Own, OwnFile
    <3>6. \A k \in 1..Len(uploads') :
            k = n \/ (k \in 1..Len(uploads) /\ uploads'[k] = uploads[k])
      BY <1>1, <2>6, <3>1, UploadLogged
    <3> QED  BY <2>1, <2>4, <3>5, <3>6, OthersKeep DEF TruthInv
  <2> QED  BY <2>5, <2>6
<1> QED  BY <1>2, <1>3, <1>4, <1>5, <1>6 DEF ServerNext, Requests

LEMMA Truthful ==
  ASSUME TypeOK, TruthInv
  PROVE  TruthfulUnlessShared
<1> SUFFICES ASSUME NEW k \in 1..Len(uploads), ~Shared(uploads[k].request)
             PROVE  /\ uploads[k].sum = requests[uploads[k].request].content
                    /\ disk[uploads[k].name] \in {uploads[k].sum, None}
  BY DEF TruthfulUnlessShared
<1>1. OwnDocument(k) /\ uploads[k].name = requests[uploads[k].request].name
  BY DEF TypeOK, DocumentsOK, TruthInv
<1> QED  BY <1>1 DEF OwnDocument, FileOf

(* Whatever the other requests do at the same time, an upload whose stored *)
(* name is its own is logged with the sum of what its client sent, and its *)
(* file is never anything else.                                            *)
THEOREM LoggedIsWhatWasSent == ServerSpec => []TruthfulUnlessShared
<1>1. ServerInit => TruthInv
  <2> SUFFICES ASSUME ServerInit PROVE TruthInv
    OBVIOUS
  <2>1. requests = << >> /\ uploads = << >>
    BY DEF ServerInit
  <2>2. Len(<< >>) = 0 /\ 1..0 = {}
    BY EmptySeq
  <2> QED  BY <2>1, <2>2 DEF TruthInv, Requests
<1>2. TypeOK /\ TypeOK' /\ TruthInv /\ [ServerNext]_serverVars => TruthInv'
  BY TruthStep
<1>3. TypeOK /\ TruthInv => TruthfulUnlessShared
  BY Truthful
<1> QED  BY <1>1, <1>2, <1>3, TypeCorrect, PTL DEF ServerSpec
=============================================================================
