--------------------------- MODULE TelemetryProofs ---------------------------
(***************************************************************************)
(* Proofs about Telemetry, for every set of forwarders, every look-back    *)
(* time and every bound.                                                   *)
(***************************************************************************)
EXTENDS Telemetry, FiniteSetTheorems, SequenceTheorems, TLAPS

ForwarderRecord == [pos : Nat, rank : Nat, held : SUBSET SourceDoc]

Entry == [id : Ids, timestamp : Nat, dated : BOOLEAN, looked : Nat]

-----------------------------------------------------------------------------
(* Type correctness                                                        *)

(* The ranks are numbers.                                                  *)
LEMMA RanksAreNat == TelemetryAssumption => Ranks \subseteq Nat
<1> SUFFICES ASSUME TelemetryAssumption PROVE Ranks \subseteq Nat
  OBVIOUS
<1>1. IsFiniteSet(Forwarders)
  BY FS_Union DEF TelemetryAssumption, Forwarders
<1>2. Cardinality(Forwarders) \in Nat
  BY <1>1, FS_CardinalityType
<1> QED  BY <1>2 DEF Ranks

LEMMA InitType == TelemetryAssumption /\ Init => TypeOK
<1> SUFFICES ASSUME TelemetryAssumption, Init PROVE TypeOK
  OBVIOUS
<1>1. PICK rank \in [Forwarders -> Ranks] :
        forwarder = [f \in Forwarders |->
                       [pos |-> 0, rank |-> rank[f], held |-> {}]]
  BY DEF Init
<1>2. forwarder \in [Forwarders -> ForwarderRecord]
  BY <1>1, RanksAreNat DEF ForwarderRecord
<1>3. ForwardersOK
  BY <1>1, <1>2, EmptySeq DEF Init, ForwardersOK, ForwarderRecord
<1>4. NormalizerOK
  BY EmptySeq DEF Init, NormalizerOK, Waiting, NoId, Ids
<1>5. PredictorOK
  BY DEF Init, PredictorOK, FirstCheck, TelemetryAssumption
<1> QED  BY <1>3, <1>4, <1>5 DEF TypeOK

(* A forwarder starts somewhere in the log, with nothing in hand.          *)
LEMMA RestartType ==
  ASSUME TelemetryAssumption, ForwardersOK, NEW f \in Forwarders,
         Restarted(f), UNCHANGED lines
  PROVE  /\ forwarder' \in [Forwarders -> ForwarderRecord]
         /\ \A g \in Forwarders : forwarder'[g].pos <= Len(lines')
<1>1. PICK r \in FreshRanks :
        forwarder' = [forwarder EXCEPT ![f] =
                        [pos |-> StartOf(f), rank |-> r, held |-> {}]]
  BY DEF Restarted
<1>2. r \in Nat /\ Len(lines) \in Nat
  BY RanksAreNat, LenProperties DEF FreshRanks, ForwardersOK
<1>3. StartOf(f) \in Nat /\ StartOf(f) <= Len(lines)
  BY <1>2 DEF StartOf
<1> QED  BY <1>1, <1>2, <1>3 DEF ForwardersOK, ForwarderRecord

(* Storing documents keeps the collection and its late part well formed.   *)
LEMMA StoreType ==
  ASSUME ForwardersOK, NEW docs \in SUBSET SourceDoc, Store(docs)
  PROVE  /\ source' \subseteq SourceDoc /\ late' \subseteq source'
         /\ source \subseteq source'
  BY DEF ForwardersOK, Store

LEMMA EmitType ==
  ASSUME TelemetryAssumption, TypeOK, Emit
  PROVE  TypeOK'
<1>1. PICK line \in Line : lines' = Append(lines, line)
  BY DEF Emit, TelemetryAssumption
<1>2. lines' \in Seq(Line) /\ Len(lines') = Len(lines) + 1
  BY <1>1, AppendProperties DEF TypeOK, ForwardersOK
<1>3. Len(lines) \in Nat
  BY LenProperties DEF TypeOK, ForwardersOK
<1>4. ForwardersOK'
  BY <1>2, <1>3 DEF Emit, TypeOK, ForwardersOK
<1> QED
  BY <1>4 DEF Emit, TypeOK, NormalizerOK, PredictorOK, normalizerVars,
     predictorVars

(* What Read(f) makes of the next line is a document.                      *)
LEMMA ReadEffect ==
  ASSUME TelemetryAssumption, TypeOK, NEW f \in Forwarders, Read(f)
  PROVE  /\ NewDoc(f) \in SourceDoc /\ forwarder[f].pos + 1 <= Len(lines)
         /\ now >= 1 => Before(NoId, NewDoc(f).id)
<1>1. forwarder[f] \in ForwarderRecord /\ now \in Nat /\ made \in Nat
  BY DEF TypeOK, ForwardersOK, PredictorOK, ForwarderRecord
<1>2. Len(lines) \in Nat
  BY LenProperties DEF TypeOK, ForwardersOK
<1>3. forwarder[f].pos + 1 \in 1..Len(lines)
  BY <1>1, <1>2 DEF Read, ForwarderRecord
<1> DEFINE line == lines[forwarder[f].pos + 1]
<1>4. /\ line.addressed \in BOOLEAN /\ line.setsLog \in BOOLEAN
      /\ line.setsTime \in BOOLEAN
      /\ line.id = None \/ line.id \in Nat \ {0}
  <2>1. line \in Line
    BY <1>3, ElementOfSeq DEF TypeOK, ForwardersOK
  <2> QED  BY <2>1 DEF Line, TelemetryAssumption, None
<1>5. NewDoc(f) =
        [id |-> IF f \in Followers /\ line.id # None THEN <<0, 0, line.id>>
                ELSE <<now, forwarder[f].rank, made + 1>>,
         timestamp |-> now, dated |-> f \in Followers => ~line.setsTime,
         line |-> forwarder[f].pos + 1, by |-> f,
         addressed |-> line.addressed /\ (f \in Followers => ~line.setsLog)]
  BY DEF NewDoc
<1> HIDE DEF line
<1>6. NewDoc(f).id \in Ids /\ (now >= 1 => Before(NoId, NewDoc(f).id))
  BY <1>1, <1>4, <1>5 DEF Ids, ForwarderRecord, Before, NoId
<1>7. NewDoc(f) \in SourceDoc
  BY <1>1, <1>5, <1>6 DEF SourceDoc, ForwarderRecord
<1> QED  BY <1>3, <1>6, <1>7

LEMMA ReadType ==
  ASSUME TelemetryAssumption, TypeOK, NEW f \in Forwarders, Read(f)
  PROVE  TypeOK'
<1> DEFINE r == [pos |-> forwarder[f].pos + 1, rank |-> forwarder[f].rank,
                 held |-> {NewDoc(f)}]
<1>1. /\ r \in ForwarderRecord
      /\ r.pos <= Len(lines)
  BY ReadEffect DEF TypeOK, ForwardersOK, ForwarderRecord
<1>2. forwarder' = [forwarder EXCEPT ![f] = r]
  BY DEF Read
<1> HIDE DEF r
<1>3. ForwardersOK'
  BY <1>1, <1>2 DEF Read, TypeOK, ForwardersOK, ForwarderRecord
<1> QED
  BY <1>3 DEF Read, TypeOK, NormalizerOK, PredictorOK, normalizerVars,
     predictorVars

(* Dropping what a forwarder holds.                                        *)
LEMMA EmptyHanded ==
  ASSUME ForwardersOK, NEW f \in Forwarders, UNCHANGED lines,
         forwarder' = [forwarder EXCEPT ![f].held = {}]
  PROVE  /\ forwarder' \in [Forwarders -> ForwarderRecord]
         /\ \A g \in Forwarders : forwarder'[g].pos <= Len(lines')
  BY DEF ForwardersOK, ForwarderRecord

LEMMA ForwarderType ==
  ASSUME TelemetryAssumption, TypeOK, NEW f \in Forwarders,
         Insert(f) \/ InsertFails(f) \/ ForwarderCrash(f)
  PROVE  TypeOK'
<1>1. forwarder[f].held \in SUBSET SourceDoc /\ ForwardersOK
  BY DEF TypeOK, ForwardersOK
<1>2. UNCHANGED <<lines, made, normalizerVars, predictorVars, now>>
  BY DEF Insert, InsertFails, ForwarderCrash
<1>3. /\ forwarder' \in [Forwarders -> ForwarderRecord]
      /\ \A g \in Forwarders : forwarder'[g].pos <= Len(lines')
  <2>1. CASE Insert(f)
    BY <1>1, <1>2, <2>1, EmptyHanded DEF Insert
  <2>2. CASE InsertFails(f)
    BY <1>1, <1>2, <2>2, EmptyHanded, RestartType DEF InsertFails
  <2>3. CASE ForwarderCrash(f)
    BY <1>1, <1>2, <2>3, RestartType DEF ForwarderCrash
  <2> QED  BY <2>1, <2>2, <2>3
<1>4. /\ source' \subseteq SourceDoc /\ late' \subseteq source'
      /\ source \subseteq source'
  BY <1>1, StoreType DEF Insert, InsertFails, ForwarderCrash, ForwardersOK
<1>5. failed' \subseteq Forwarders \X Nat
  BY <1>1 DEF Insert, InsertFails, ForwarderCrash, ForwardersOK, SourceDoc
<1>6. ForwardersOK'
  BY <1>1, <1>2, <1>3, <1>4, <1>5 DEF ForwardersOK, ForwarderRecord
<1>7. NormalizerOK'
  BY <1>2, <1>4 DEF TypeOK, NormalizerOK, normalizerVars
<1>8. PredictorOK'
  BY <1>2 DEF TypeOK, PredictorOK, predictorVars, normalizerVars, Insert,
     InsertFails, ForwarderCrash
<1> QED  BY <1>6, <1>7, <1>8 DEF TypeOK

LEMMA NormalizerType ==
  ASSUME TypeOK, NormalizerNext \/ NormalizerCrash
  PROVE  TypeOK'
<1> USE DEF TypeOK
<1>1. CASE Fetch
  BY <1>1 DEF Fetch, Unread, feedVars, predictorVars, ForwardersOK,
     NormalizerOK, PredictorOK
<1>2. CASE Take
  <2>1. PICK d \in normalizer.batch :
          LET rest == normalizer.batch \ {d} IN
            normalizer' =
              IF d.addressed
              THEN [pc |-> "insert", last |-> d.id, batch |-> rest,
                    held |-> {d}]
              ELSE [pc |-> PcAfter(rest), last |-> d.id, batch |-> rest,
                    held |-> {}]
    BY <1>2 DEF Take
  <2>2. d \in SourceDoc /\ d \in source /\ d.id \in Ids
    BY DEF NormalizerOK, SourceDoc
  <2>3. NormalizerOK'
    BY <1>2, <2>1, <2>2 DEF Take, NormalizerOK, PcAfter, feedVars
  <2> QED
    BY <1>2, <2>3 DEF Take, feedVars, predictorVars, ForwardersOK, PredictorOK
<1>3. CASE Normalize
  <2>1. PICK d \in normalizer.held :
          normalized' = Append(normalized, [id |-> d.id,
                           timestamp |-> d.timestamp, dated |-> d.dated,
                           looked |-> looked])
    BY <1>3 DEF Normalize
  <2> DEFINE e == [id |-> d.id, timestamp |-> d.timestamp, dated |-> d.dated,
                  looked |-> looked]
  <2>2. e \in Entry
    BY DEF NormalizerOK, PredictorOK, SourceDoc, Entry
  <2> HIDE DEF e
  <2>3. normalized' \in Seq(Entry) /\ Len(normalized') = Len(normalized) + 1
    BY <2>1, <2>2, AppendProperties DEF NormalizerOK, Entry, e
  <2>4. NormalizerOK'
    BY <1>3, <2>3 DEF Normalize, NormalizerOK, PcAfter, feedVars, Entry
  <2>5. Len(normalized) \in Nat
    <3>1. normalized \in Seq(Entry)
      BY DEF NormalizerOK, Entry
    <3> QED  BY <3>1, LenProperties
  <2> QED
    BY <1>3, <2>3, <2>4, <2>5 DEF Normalize, feedVars, predictorVars,
       ForwardersOK, PredictorOK
<1>4. CASE NormalizerCrash
  <2>1. /\ Waiting \in [pc : {"poll", "take", "insert"}, last : Ids,
                         batch : SUBSET SourceDoc, held : SUBSET SourceDoc]
        /\ Waiting.pc = "poll" /\ Waiting.batch = {} /\ Waiting.held = {}
    BY DEF Waiting, NoId, Ids
  <2>2. NormalizerOK'
    BY <1>4, <2>1 DEF NormalizerCrash, feedVars, NormalizerOK
  <2>3. ForwardersOK' /\ UNCHANGED <<Len(normalized), predictorVars, now, faults>>
    BY <1>4 DEF NormalizerCrash, feedVars, ForwardersOK
  <2> QED
    BY <1>4, <2>2, <2>3 DEF NormalizerCrash, predictorVars, PredictorOK
<1> QED  BY <1>1, <1>2, <1>3, <1>4 DEF NormalizerNext

LEMMA PredictorType ==
  ASSUME TelemetryAssumption, TypeOK,
         CheckStart \/ CheckEnd \/ PredictorCrash \/ Tick
  PROVE  TypeOK'
<1>1. Lookback \in Nat
  BY DEF TelemetryAssumption
<1>2. ForwardersOK' /\ NormalizerOK'
  BY DEF CheckStart, CheckEnd, PredictorCrash, Tick, feedVars, normalizerVars,
     TypeOK, ForwardersOK, NormalizerOK
<1>3. UNCHANGED Len(normalized)
  BY DEF CheckStart, CheckEnd, PredictorCrash, Tick, normalizerVars
<1>4. PredictorOK'
  <2> USE DEF TypeOK, PredictorOK
  <2>1. CASE CheckStart
    BY <1>3, <2>1 DEF CheckStart
  <2>2. CASE CheckEnd
    <3>1. noticed' \subseteq 1..Len(normalized)
      BY <2>2 DEF CheckEnd, InWindow
    <3>2. predictor.started \in Nat /\ now + Lookback \in Nat
      BY <1>1
    <3>3. predictor' \in [pc : {"sleep", "look"}, started : Nat, last : Nat,
                          wake : Nat]
      BY <2>2, <3>2 DEF CheckEnd
    <3> QED  BY <1>3, <2>2, <3>1, <3>2, <3>3 DEF CheckEnd
  <2>3. CASE PredictorCrash
    <3>1. FirstCheck(now) \in [pc : {"sleep", "look"}, started : Nat,
                                last : Nat, wake : Nat]
      BY <1>1 DEF FirstCheck
    <3>2. FirstCheck(now).last \in Nat
      BY <3>1
    <3> QED  BY <1>3, <2>3, <3>1, <3>2 DEF PredictorCrash
  <2>4. CASE Tick
    BY <1>3, <2>4 DEF Tick, predictorVars
  <2> QED  BY <2>1, <2>2, <2>3, <2>4
<1> QED  BY <1>2, <1>4 DEF TypeOK

LEMMA StutterType == TypeOK /\ UNCHANGED vars => TypeOK'
  BY DEF vars, feedVars, normalizerVars, predictorVars, TypeOK, ForwardersOK,
     NormalizerOK, PredictorOK

(* Every step keeps the state well formed.                                 *)
LEMMA StepType ==
  TelemetryAssumption /\ TypeOK /\ [Next]_vars => TypeOK'
  BY EmitType, ReadType, ForwarderType, NormalizerType, PredictorType,
     StutterType DEF Next

(* The forwarders', the normalizer's and the predictor's state stays well  *)
(* formed whatever fails, and what the normalizer works on is in the       *)
(* source collection.                                                      *)
THEOREM TypeCorrect == Spec => []TypeOK
<1>1. TelemetryAssumption /\ Init => TypeOK
  BY InitType
<1>2. TelemetryAssumption /\ TypeOK /\ [Next]_vars => TypeOK'
  BY StepType
<1> QED  BY <1>1, <1>2, TelemetryAssumption, PTL DEF Spec

-----------------------------------------------------------------------------
(* Forwarders: what is stored twice, what is skipped                       *)

(* Each document of the collection or in a forwarder's hand was made from  *)
(* a line its forwarder has read; a forwarder holds one document.          *)
HeldInv ==
  \A f \in Forwarders :
    /\ \A h, g \in forwarder[f].held : h = g
    /\ \A h \in forwarder[f].held : h.by = f /\ h.line <= forwarder[f].pos

(* A tail has only stored lines before the one in its hand.                *)
TailInv ==
  \A d \in source : d.by \in Tailers =>
    /\ d.line <= forwarder[d.by].pos
    /\ \A h \in forwarder[d.by].held : d.line < h.line

FeedInv == HeldInv /\ TailInv /\ TailersNeverRepeat /\ FollowersSkipNothing

(* The ways a step treats the forwarders and the collection.               *)
Reads(f) ==
  /\ forwarder[f].held = {}
  /\ forwarder' = [forwarder EXCEPT ![f] =
        [pos |-> forwarder[f].pos + 1, rank |-> forwarder[f].rank,
         held |-> {NewDoc(f)}]]
  /\ UNCHANGED <<source, failed>>

Stores(f) ==
  /\ source' = source \cup forwarder[f].held
  /\ failed' = failed

GivesUp(f) ==
  /\ failed' = failed \cup {<<f, d.line>> : d \in forwarder[f].held}
  /\ source' = source

LetsGo(f) == forwarder' = [forwarder EXCEPT ![f].held = {}]

LEMMA FeedSteps ==
  ASSUME [Next]_vars
  PROVE  \/ UNCHANGED <<forwarder, source, failed>>
         \/ \E f \in Forwarders :
              \/ Reads(f)
              \/ (Stores(f) \/ GivesUp(f)) /\ LetsGo(f)
              \/ /\ Stores(f) \/ GivesUp(f) \/ UNCHANGED <<source, failed>>
                 /\ Restarted(f) /\ UNCHANGED lines
  BY DEF Next, vars, feedVars, NormalizerNext, Emit, Read, Insert, InsertFails,
     ForwarderCrash, Fetch, Take, Normalize, NormalizerCrash, CheckStart,
     CheckEnd, PredictorCrash, Tick, Reads, Stores, GivesUp, LetsGo, Store

LEMMA FeedStep ==
  ASSUME TelemetryAssumption, TypeOK, FeedInv, [Next]_vars
  PROVE  FeedInv'
<1> USE DEF FeedInv
<1>0. /\ \A f \in Forwarders : forwarder[f] \in ForwarderRecord
      /\ forwarder \in [Forwarders -> ForwarderRecord]
      /\ source \subseteq SourceDoc
      /\ \A f \in Forwarders : forwarder[f].pos \in Nat
      /\ \A f \in Forwarders : \A h \in forwarder[f].held : h.line \in Nat
      /\ \A d \in source : d.line \in Nat /\ d.by \in Forwarders
      /\ Tailers \subseteq Forwarders /\ Followers \subseteq Forwarders
      /\ Tailers \cap Followers = {}
  BY DEF TypeOK, ForwardersOK, ForwarderRecord, SourceDoc, Forwarders,
     TelemetryAssumption
<1>1. CASE UNCHANGED <<forwarder, source, failed>>
  BY <1>1 DEF HeldInv, TailInv, TailersNeverRepeat, FollowersSkipNothing
<1>2. ASSUME NEW f \in Forwarders, Reads(f)
      PROVE  FeedInv'
  <2>1. /\ NewDoc(f).by = f /\ NewDoc(f).line = forwarder[f].pos + 1
        /\ UNCHANGED <<source, failed>>
        /\ \A g \in Forwarders : g # f => forwarder'[g] = forwarder[g]
        /\ forwarder'[f].pos = forwarder[f].pos + 1
        /\ forwarder'[f].held = {NewDoc(f)}
    BY <1>0, <1>2 DEF NewDoc, Reads
  <2>2. HeldInv'
    BY <1>0, <2>1 DEF HeldInv
  <2>3. TailInv'
    BY <1>0, <2>1 DEF TailInv
  <2>4. TailersNeverRepeat'
    BY <2>1 DEF TailersNeverRepeat
  <2>5. FollowersSkipNothing'
    <3> SUFFICES ASSUME NEW g \in Followers, NEW n \in 1..forwarder'[g].pos
                 PROVE  \/ \E d \in source \cup forwarder'[g].held :
                              d.by = g /\ d.line = n
                        \/ <<g, n>> \in failed
      BY <2>1 DEF FollowersSkipNothing
    <3>1. CASE g = f /\ n = forwarder[f].pos + 1
      BY <2>1, <3>1
    <3>2. CASE g # f \/ n # forwarder[f].pos + 1
      <4>1. n \in 1..forwarder[g].pos
        BY <1>0, <2>1, <3>2
      <4>2. \/ \E d \in source \cup forwarder[g].held : d.by = g /\ d.line = n
            \/ <<g, n>> \in failed
        BY <4>1 DEF FollowersSkipNothing
      <4>3. forwarder[g].held = {} \/ forwarder'[g].held = forwarder[g].held
        BY <1>0, <1>2, <2>1 DEF Reads
      <4> QED  BY <4>2, <4>3
    <3> QED  BY <3>1, <3>2
  <2> QED  BY <2>2, <2>3, <2>4, <2>5
<1>3. ASSUME NEW f \in Forwarders,
             Stores(f) \/ GivesUp(f) \/ UNCHANGED <<source, failed>>
      PROVE  /\ \A d \in source' : d \in source \/ d \in forwarder[f].held
             /\ TailersNeverRepeat'
             /\ source \subseteq source' /\ failed \subseteq failed'
             /\ \A d \in source' : d.by \in Tailers =>
                  d.line <= forwarder[d.by].pos
  <2>1. /\ \A d \in source' : d \in source \/ d \in forwarder[f].held
        /\ source \subseteq source' /\ failed \subseteq failed'
    BY <1>3 DEF Stores, GivesUp
  <2>2. \A d \in source' : d.by \in Tailers => d.line <= forwarder[d.by].pos
    BY <2>1 DEF TailInv, HeldInv
  <2>3. ASSUME NEW d \in source', NEW e \in source', d.by = e.by,
               d.by \in Tailers, d.line = e.line
        PROVE  d = e
    <3>1. CASE d \in source /\ e \in source
      BY <2>3, <3>1 DEF TailersNeverRepeat
    <3>2. CASE d \in source /\ e \in forwarder[f].held
      BY <1>0, <2>3, <3>2 DEF TailInv, HeldInv
    <3>3. CASE d \in forwarder[f].held /\ e \in source
      BY <1>0, <2>3, <3>3 DEF TailInv, HeldInv
    <3>4. CASE d \in forwarder[f].held /\ e \in forwarder[f].held
      BY <3>4 DEF HeldInv
    <3> QED  BY <2>1, <2>3, <3>1, <3>2, <3>3, <3>4
  <2> QED  BY <2>1, <2>2, <2>3 DEF TailersNeverRepeat
<1>4. ASSUME NEW f \in Forwarders, Stores(f) \/ GivesUp(f), LetsGo(f)
      PROVE  FeedInv'
  <2>1. /\ \A g \in Forwarders : /\ forwarder'[g].pos = forwarder[g].pos
                                 /\ g # f => forwarder'[g] = forwarder[g]
        /\ forwarder'[f].held = {}
    BY <1>0, <1>4 DEF LetsGo, ForwarderRecord
  <2>2. HeldInv'
    BY <2>1 DEF HeldInv
  <2>3. TailInv'
    BY <1>0, <1>3, <1>4, <2>1 DEF TailInv, HeldInv
  <2>4. FollowersSkipNothing'
    <3> SUFFICES ASSUME NEW g \in Followers, NEW n \in 1..forwarder'[g].pos
                 PROVE  \/ \E d \in source' \cup forwarder'[g].held :
                              d.by = g /\ d.line = n
                        \/ <<g, n>> \in failed'
      BY DEF FollowersSkipNothing
    <3>1. \/ \E d \in source \cup forwarder[g].held : d.by = g /\ d.line = n
          \/ <<g, n>> \in failed
      BY <1>0, <2>1 DEF FollowersSkipNothing
    <3>2. CASE g = f
      BY <1>4, <3>1, <3>2 DEF Stores, GivesUp
    <3>3. CASE g # f
      BY <1>0, <1>3, <1>4, <2>1, <3>1, <3>3
    <3> QED  BY <3>2, <3>3
  <2> QED  BY <1>3, <1>4, <2>2, <2>3, <2>4
<1>5. ASSUME NEW f \in Forwarders, Restarted(f), UNCHANGED lines,
             Stores(f) \/ GivesUp(f) \/ UNCHANGED <<source, failed>>
      PROVE  FeedInv'
  <2>1. /\ \A g \in Forwarders : g # f => forwarder'[g] = forwarder[g]
        /\ forwarder'[f].held = {} /\ forwarder'[f].pos = StartOf(f)
    BY <1>0, <1>5 DEF Restarted
  <2>2. f \in Tailers => forwarder'[f].pos >= forwarder[f].pos
    BY <2>1 DEF StartOf, TypeOK, ForwardersOK
  <2>3. HeldInv'
    BY <2>1 DEF HeldInv
  <2>4. TailInv'
    <3> SUFFICES ASSUME NEW d \in source', d.by \in Tailers
                 PROVE  /\ d.line <= forwarder'[d.by].pos
                        /\ \A h \in forwarder'[d.by].held : d.line < h.line
      BY DEF TailInv
    <3>1. d.line <= forwarder[d.by].pos /\ d.line \in Nat
      BY <1>0, <1>3, <1>5
    <3>2. CASE d.by = f
      <4>1. StartOf(f) \in Nat
        BY <1>0, <3>2, LenProperties DEF StartOf, TypeOK, ForwardersOK
      <4> QED  BY <1>0, <2>1, <2>2, <3>1, <3>2, <4>1
    <3>3. CASE d.by # f
      BY <1>0, <1>3, <1>5, <2>1, <3>1, <3>3 DEF TailInv, HeldInv
    <3> QED  BY <3>2, <3>3
  <2>5. FollowersSkipNothing'
    <3> SUFFICES ASSUME NEW g \in Followers, NEW n \in 1..forwarder'[g].pos
                 PROVE  \/ \E d \in source' \cup forwarder'[g].held :
                              d.by = g /\ d.line = n
                        \/ <<g, n>> \in failed'
      BY DEF FollowersSkipNothing
    <3>1. g # f
      BY <1>0, <2>1 DEF StartOf
    <3>2. forwarder'[g] = forwarder[g]
      BY <1>0, <2>1, <3>1
    <3>3. \/ \E d \in source \cup forwarder[g].held : d.by = g /\ d.line = n
          \/ <<g, n>> \in failed
      BY <3>2 DEF FollowersSkipNothing
    <3> QED  BY <1>3, <1>5, <3>2, <3>3
  <2> QED  BY <1>3, <1>5, <2>3, <2>4, <2>5
<1> QED  BY <1>1, <1>2, <1>4, <1>5, FeedSteps

LEMMA FeedInvariant == Spec => []FeedInv
<1>1. Init => FeedInv
  BY DEF Init, FeedInv, HeldInv, TailInv, TailersNeverRepeat,
     FollowersSkipNothing, Forwarders
<1>2. TelemetryAssumption /\ TypeOK /\ FeedInv /\ [Next]_vars => FeedInv'
  BY FeedStep
<1> QED  BY <1>1, <1>2, TypeCorrect, TelemetryAssumption, PTL DEF Spec

(* A forwarder that seeks to the end when it starts never stores a line of *)
(* the log twice, whatever fails and however often it is restarted.        *)
THEOREM TailsStoreOnce == Spec => []TailersNeverRepeat
  BY FeedInvariant, PTL DEF FeedInv

(* The docker forwarder leaves out no line up to where it has read, but    *)
(* for those whose insert raised.                                          *)
THEOREM FollowersAreComplete == Spec => []FollowersSkipNothing
  BY FeedInvariant, PTL DEF FeedInv

-----------------------------------------------------------------------------
(* Normalizer: what the cursor has passed                                  *)

(* No id is the one that stands for none.                                  *)
Born ==
  /\ now >= 1
  /\ \A d \in source : Before(NoId, d.id)
  /\ \A f \in Forwarders : \A d \in forwarder[f].held : Before(NoId, d.id)

(* What it has fetched is ahead of the cursor.                             *)
Ahead == \A b \in normalizer.batch : Before(normalizer.last, b.id)

(* Only an insert in progress holds a document, and one.                   *)
OneInHand ==
  /\ \A d, e \in normalizer.held : d = e
  /\ normalizer.pc # "insert" => normalizer.held = {}

PassInv == Born /\ Ahead /\ OneInHand /\ PassedIsHandled

(* The order of ids is a strict order.                                     *)
LEMMA BeforeOrder ==
  ASSUME NEW a \in Ids, NEW b \in Ids, NEW c \in Ids
  PROVE  ~Before(a, a) /\ (Before(a, b) /\ Before(b, c) => Before(a, c))
  BY DEF Before, Ids

LEMMA BornStep ==
  ASSUME TelemetryAssumption, TypeOK, Born, [Next]_vars
  PROVE  Born'
<1>0. /\ now \in Nat
      /\ forwarder \in [Forwarders -> ForwarderRecord]
  BY DEF TypeOK, PredictorOK, ForwardersOK, ForwarderRecord
<1>1. now' >= 1
  <2>1. now' = now \/ now' = now + 1
    BY DEF Next, vars, NormalizerNext, Emit, Read, Insert, InsertFails,
       ForwarderCrash, Fetch, Take, Normalize, NormalizerCrash, CheckStart,
       CheckEnd, PredictorCrash, Tick
  <2> QED  BY <1>0, <2>1 DEF Born
<1>2. CASE UNCHANGED <<forwarder, source, failed>>
  BY <1>1, <1>2 DEF Born
<1>3. ASSUME NEW f \in Forwarders, Read(f)
      PROVE  Born'
  <2>0. Reads(f)
    BY <1>3 DEF Reads, Read
  <2>1. Before(NoId, NewDoc(f).id)
    BY <1>3, ReadEffect DEF Born
  <2>2. \A g \in Forwarders : \A d \in forwarder'[g].held :
          d = NewDoc(f) \/ d \in forwarder[g].held
    BY <1>0, <2>0 DEF Reads
  <2> QED  BY <1>1, <2>0, <2>1, <2>2 DEF Born, Reads
<1>4. ASSUME NEW f \in Forwarders, LetsGo(f) \/ Restarted(f),
             Stores(f) \/ GivesUp(f) \/ UNCHANGED <<source, failed>>
      PROVE  Born'
  <2>1. \A d \in source' : d \in source \/ d \in forwarder[f].held
    BY <1>4 DEF Stores, GivesUp
  <2>2. \A g \in Forwarders : \A d \in forwarder'[g].held :
          d \in forwarder[g].held
    BY <1>0, <1>4 DEF LetsGo, Restarted, ForwarderRecord
  <2> QED  BY <1>1, <2>1, <2>2 DEF Born
<1>5. \/ UNCHANGED <<forwarder, source, failed>>
      \/ \E f \in Forwarders :
           \/ Read(f)
           \/ /\ Stores(f) \/ GivesUp(f) \/ UNCHANGED <<source, failed>>
              /\ LetsGo(f) \/ Restarted(f)
  BY DEF Next, vars, feedVars, NormalizerNext, Emit, Insert, InsertFails,
     ForwarderCrash, Fetch, Take, Normalize, NormalizerCrash, CheckStart,
     CheckEnd, PredictorCrash, Tick, Stores, GivesUp, LetsGo, Store
<1> QED  BY <1>2, <1>3, <1>4, <1>5

(* Where the query still comes by is where it did, as the pass moves on.   *)
LEMMA AwaitedMoves ==
  ASSUME TypeOK, NEW d \in normalizer.batch, NEW e \in source,
         \A b \in normalizer.batch \ {d} : Before(d.id, b.id),
         normalizer'.last = d.id, normalizer'.batch = normalizer.batch \ {d},
         Awaited(e.id)
  PROVE  Awaited(e.id)'
<1>0. /\ e.id \in Ids /\ d.id \in Ids
      /\ \A b \in normalizer.batch : b.id \in Ids
  BY DEF TypeOK, NormalizerOK, ForwardersOK, SourceDoc
<1>1. \A b \in normalizer.batch : Before(b.id, e.id)
  BY DEF Awaited
<1>2. PICK b \in normalizer.batch : IsText(b.id) <=> IsText(e.id)
  BY DEF Awaited
<1>3. CASE normalizer.batch = {d}
  BY <1>1, <1>2, <1>3 DEF Awaited, Selects
<1>4. CASE normalizer.batch # {d}
  <2>1. PICK c \in normalizer.batch \ {d} : TRUE
    BY <1>4
  <2>2. Before(d.id, c.id) /\ Before(c.id, e.id)
    BY <1>1, <2>1
  <2>3. (IsText(c.id) <=> IsText(e.id)) \/ (b # d)
    BY <1>0, <1>2, <2>1, <2>2 DEF IsText, Before, Ids
  <2>4. \E x \in normalizer.batch \ {d} : IsText(x.id) <=> IsText(e.id)
    BY <1>2, <2>1, <2>3
  <2> QED  BY <1>1, <2>4 DEF Awaited
<1> QED  BY <1>3, <1>4

(* A document inserted in time is where the query still comes by.          *)
LEMMA StorePass ==
  ASSUME TypeOK, PassInv, NEW docs, Store(docs),
         UNCHANGED <<normalizer, normalized>>
  PROVE  Ahead' /\ OneInHand' /\ PassedIsHandled'
<1>1. \A d \in source' : d \in source \/ d \in docs
  BY DEF Store
<1>2. \A d \in docs : d \in late' \/ Awaited(d.id)
  BY DEF Store
<1>3. late \subseteq late'
  BY DEF Store
<1>4. \A d : Awaited(d.id)' <=> Awaited(d.id)
  BY DEF Awaited
<1>5. PassedIsHandled'
  BY <1>1, <1>2, <1>3, <1>4 DEF PassedIsHandled, PassInv, Handled, Copies
<1> QED  BY <1>5 DEF PassInv, OneInHand, Ahead

LEMMA TakePass ==
  ASSUME TypeOK, PassInv, Take
  PROVE  Ahead' /\ OneInHand' /\ PassedIsHandled'
<1>1. PICK d \in normalizer.batch :
        /\ \A e \in normalizer.batch \ {d} : Before(d.id, e.id)
        /\ LET rest == normalizer.batch \ {d} IN
             normalizer' =
               IF d.addressed
               THEN [pc |-> "insert", last |-> d.id, batch |-> rest,
                     held |-> {d}]
               ELSE [pc |-> PcAfter(rest), last |-> d.id, batch |-> rest,
                     held |-> {}]
  BY DEF Take
<1>2. /\ normalizer'.last = d.id /\ normalizer'.batch = normalizer.batch \ {d}
      /\ ~d.addressed => normalizer'.held = {}
      /\ d.addressed => normalizer'.held = {d} /\ normalizer'.pc = "insert"
      /\ UNCHANGED <<source, late, normalized>> /\ normalizer.held = {}
  BY <1>1 DEF Take, feedVars, PassInv, OneInHand
<1>3. \A e \in source : Awaited(e.id) => Awaited(e.id)'
  BY <1>1, <1>2, AwaitedMoves
<1>4. PassedIsHandled'
  BY <1>1, <1>2, <1>3 DEF PassInv, PassedIsHandled, Handled, Copies
<1>5. OneInHand'
  BY <1>2 DEF OneInHand
<1>6. Ahead'
  BY <1>1, <1>2 DEF Ahead
<1> QED  BY <1>4, <1>5, <1>6

LEMMA NormalizerPass ==
  ASSUME TypeOK, PassInv, Fetch \/ Normalize \/ NormalizerCrash
  PROVE  Ahead' /\ OneInHand' /\ PassedIsHandled'
<1>0. UNCHANGED <<source, late>>
  BY DEF Fetch, Normalize, NormalizerCrash, feedVars
<1>1. CASE Fetch
  <2>1. /\ normalizer'.last = normalizer.last
        /\ normalizer'.held = normalizer.held /\ normalized' = normalized
        /\ normalizer'.pc # "insert" /\ normalizer.held = {}
        /\ \/ normalizer' = normalizer
           \/ normalizer'.batch = Unread
    BY <1>1 DEF Fetch, PassInv, OneInHand, TypeOK, NormalizerOK
  <2>2. normalizer.batch = {}
    BY <1>1 DEF Fetch, TypeOK, NormalizerOK
  <2>3. \A d \in source : Awaited(d.id) => Awaited(d.id)' \/ d \in normalizer'.batch
    BY <2>1, <2>2 DEF Awaited, Unread
  <2>4. PassedIsHandled'
    BY <1>0, <2>1, <2>2, <2>3 DEF PassInv, PassedIsHandled, Handled, Copies
  <2>5. Ahead'
    BY <2>1, <2>2 DEF PassInv, Born, Ahead, Unread, Selects
  <2> QED  BY <2>1, <2>4, <2>5 DEF OneInHand
<1>2. CASE Normalize
  <2>1. PICK d \in normalizer.held :
          normalized' = Append(normalized, [id |-> d.id,
                           timestamp |-> d.timestamp, dated |-> d.dated,
                           looked |-> looked])
    BY <1>2 DEF Normalize
  <2> DEFINE x == [id |-> d.id, timestamp |-> d.timestamp, dated |-> d.dated,
                  looked |-> looked]
  <2>2. x.id = d.id
    OBVIOUS
  <2>3. /\ normalizer'.last = normalizer.last /\ normalizer'.held = {}
        /\ normalizer'.batch = normalizer.batch
    BY <1>2 DEF Normalize, TypeOK, NormalizerOK
  <2>4. normalized \in Seq(Entry) /\ x \in Entry
    BY DEF TypeOK, NormalizerOK, PredictorOK, SourceDoc, Entry
  <2> HIDE DEF x
  <2>5. /\ Len(normalized') = Len(normalized) + 1 /\ Len(normalized) \in Nat
        /\ normalized'[Len(normalized) + 1] = x
        /\ \A k \in 1..Len(normalized) : normalized'[k] = normalized[k]
    BY <2>1, <2>4, AppendProperties, LenProperties DEF x
  <2>6. Len(normalized) + 1 \in 1..Len(normalized')
    BY <2>5
  <2>7. \A e \in source : Copies(e) \subseteq Copies(e)'
    BY <2>5 DEF Copies
  <2>8. Copies(d)' # {}
    BY <2>2, <2>5, <2>6 DEF Copies
  <2>9. \A e \in normalizer.held : e = d
    BY DEF PassInv, OneInHand
  <2>10. PassedIsHandled'
    BY <1>0, <2>3, <2>7, <2>8, <2>9 DEF PassInv, PassedIsHandled, Handled,
       Awaited
  <2> QED
    BY <1>0, <2>3, <2>10 DEF PassInv, Ahead, OneInHand
<1>3. CASE NormalizerCrash
  <2>1. /\ normalizer'.batch = {} /\ normalizer'.held = {}
        /\ normalizer'.last = NoId
    BY <1>3 DEF NormalizerCrash, Waiting
  <2>2. \A d \in source : Awaited(d.id)'
    BY <2>1 DEF Awaited, Selects
  <2> QED
    BY <1>0, <2>1, <2>2 DEF Ahead, OneInHand, PassedIsHandled
<1> QED  BY <1>1, <1>2, <1>3

LEMMA PassStep ==
  ASSUME TelemetryAssumption, TypeOK, PassInv, [Next]_vars
  PROVE  PassInv'
<1>1. Born'
  BY BornStep DEF PassInv
<1>2. CASE UNCHANGED <<source, late, normalizer, normalized>>
  BY <1>1, <1>2 DEF PassInv, Ahead, OneInHand, PassedIsHandled, Handled,
     Copies, Awaited
<1>3. ASSUME NEW docs, Store(docs), UNCHANGED <<normalizer, normalized>>
      PROVE  PassInv'
  BY <1>1, <1>3, StorePass DEF PassInv
<1>4. CASE Take \/ Fetch \/ Normalize \/ NormalizerCrash
  BY <1>1, <1>4, TakePass, NormalizerPass DEF PassInv
<1>5. \/ UNCHANGED <<source, late, normalizer, normalized>>
      \/ \E docs : Store(docs) /\ UNCHANGED <<normalizer, normalized>>
      \/ Take \/ Fetch \/ Normalize \/ NormalizerCrash
  BY DEF Next, vars, feedVars, normalizerVars, NormalizerNext, Emit, Read,
     Insert, InsertFails, ForwarderCrash, CheckStart, CheckEnd, PredictorCrash,
     Tick
<1> QED  BY <1>2, <1>3, <1>4, <1>5

LEMMA PassInvariant == Spec => []PassInv
<1>1. Init => PassInv
  BY DEF Init, PassInv, Born, Ahead, OneInHand, PassedIsHandled, Waiting
<1>2. TelemetryAssumption /\ TypeOK /\ PassInv /\ [Next]_vars => PassInv'
  BY PassStep
<1> QED  BY <1>1, <1>2, TypeCorrect, TelemetryAssumption, PTL DEF Spec

(* What the normalizer's cursor has passed has been normalized, or is      *)
(* being, or has nothing to normalize, or was inserted out of its way:     *)
(* moving last_ids before the insert loses nothing, because last_ids dies  *)
(* with the process.                                                       *)
THEOREM CursorLosesOnlyTheLate == Spec => []PassedIsHandled
  BY PassInvariant, PTL DEF PassInv

-----------------------------------------------------------------------------
(* Normalizer: once per process                                            *)

(* What is normalized is a document of the collection.                     *)
Sourced ==
  \A k \in 1..Len(normalized) : \E d \in source : d.id = normalized[k].id

(* A document in hand is where the cursor is.                              *)
AtCursor == \A h \in normalizer.held : normalizer.last = h.id

(* This process has not normalized the document yet.                       *)
Unseen(d) ==
  \/ Before(normalizer.last, d.id)
  \/ \E h \in normalizer.held : h.id = d.id

Bounded ==
  \A d \in source :
    /\ Cardinality(Copies(d)) <= restarts + 1
    /\ Unseen(d) => Cardinality(Copies(d)) <= restarts

OnceInv == Sourced /\ AtCursor /\ Bounded

LEMMA CopiesFinite ==
  ASSUME TypeOK, NEW d
  PROVE  IsFiniteSet(Copies(d)) /\ Cardinality(Copies(d)) \in Nat
<1>1. Len(normalized) \in Nat
  BY LenProperties DEF TypeOK, NormalizerOK
<1>2. IsFiniteSet(1..Len(normalized))
  BY <1>1, FS_Interval
<1>3. Copies(d) \in SUBSET (1..Len(normalized))
  BY DEF Copies
<1>4. IsFiniteSet(Copies(d))
  BY <1>2, <1>3, FS_Subset
<1> QED  BY <1>4, FS_CardinalityType

(* The database takes no second document of an id.                         *)
LEMMA StoreOnce ==
  ASSUME TypeOK, OnceInv, NEW f \in Forwarders, ~Taken(f),
         Store(forwarder[f].held), UNCHANGED normalizerVars
  PROVE  OnceInv'
<1>0. restarts \in Nat
  BY DEF TypeOK, NormalizerOK
<1>1. UNCHANGED <<normalizer, normalized, restarts>>
  BY DEF normalizerVars
<1>2. source' = source \cup forwarder[f].held
  BY DEF Store
<1>3. \A d : Copies(d)' = Copies(d) /\ (Unseen(d)' <=> Unseen(d))
  BY <1>1 DEF Copies, Unseen
<1>4. \A h \in forwarder[f].held : Copies(h) = {}
  BY DEF Taken, Copies, OnceInv, Sourced
<1>5. Bounded'
  <2> SUFFICES ASSUME NEW d \in source'
               PROVE  /\ Cardinality(Copies(d)) <= restarts + 1
                      /\ Unseen(d) => Cardinality(Copies(d)) <= restarts
    BY <1>1, <1>3 DEF Bounded
  <2>1. CASE d \in source
    BY <2>1 DEF OnceInv, Bounded
  <2>2. CASE d \in forwarder[f].held
    <3>1. Cardinality(Copies(d)) = 0
      BY <1>4, <2>2, FS_EmptySet, Zenon
    <3> QED  BY <1>0, <3>1
  <2> QED  BY <1>2, <2>1, <2>2
<1>6. Sourced' /\ AtCursor'
  BY <1>1, <1>2 DEF OnceInv, Sourced, AtCursor
<1> QED  BY <1>5, <1>6 DEF OnceInv

LEMMA TakeOnce ==
  ASSUME TypeOK, PassInv, OnceInv, Take
  PROVE  OnceInv'
<1>1. PICK d \in normalizer.batch :
        /\ normalizer'.last = d.id
        /\ normalizer'.held \subseteq {d}
  BY DEF Take
<1>2. UNCHANGED <<source, forwarder, made, normalized, restarts>>
  BY DEF Take, feedVars
<1>3. d \in source /\ Before(normalizer.last, d.id)
  BY DEF TypeOK, NormalizerOK, PassInv, Ahead
<1>4. \A e : Copies(e)' = Copies(e)
  BY <1>2 DEF Copies
<1>5. ASSUME NEW e \in source, Unseen(e)'
      PROVE  Unseen(e) \/ Copies(e) = Copies(d)
  <2>1. CASE Before(d.id, e.id)
    <3>1. /\ d.id \in Ids /\ e.id \in Ids
          /\ normalizer.last \in Ids
      BY DEF TypeOK, NormalizerOK, ForwardersOK, SourceDoc
    <3> QED  BY <1>3, <2>1, <3>1, BeforeOrder DEF Unseen
  <2>2. CASE e.id = d.id
    BY <2>2 DEF Copies
  <2> QED  BY <1>1, <1>5, <2>1, <2>2 DEF Unseen
<1>6. Cardinality(Copies(d)) <= restarts
  BY <1>3 DEF OnceInv, Bounded, Unseen
<1>7. Bounded'
  BY <1>2, <1>4, <1>5, <1>6 DEF OnceInv, Bounded
<1>8. Sourced' /\ AtCursor'
  BY <1>1, <1>2 DEF OnceInv, Sourced, AtCursor
<1> QED  BY <1>7, <1>8 DEF OnceInv

LEMMA NormalizeOnce ==
  ASSUME TypeOK, PassInv, OnceInv, Normalize
  PROVE  OnceInv'
<1>1. PICK d \in normalizer.held :
        normalized' = Append(normalized, [id |-> d.id,
                         timestamp |-> d.timestamp, dated |-> d.dated,
                         looked |-> looked])
  BY DEF Normalize
<1> DEFINE x == [id |-> d.id, timestamp |-> d.timestamp, dated |-> d.dated,
                  looked |-> looked]
<1>2. x.id = d.id
  OBVIOUS
<1>3. normalized \in Seq(Entry) /\ x \in Entry
  BY DEF TypeOK, NormalizerOK, PredictorOK, SourceDoc, Entry
<1> HIDE DEF x
<1>4. /\ Len(normalized') = Len(normalized) + 1 /\ Len(normalized) \in Nat
      /\ normalized'[Len(normalized) + 1] = x
      /\ \A k \in 1..Len(normalized) : normalized'[k] = normalized[k]
  BY <1>1, <1>3, AppendProperties, LenProperties DEF x
<1>5. /\ UNCHANGED <<source, forwarder, made, restarts>>
      /\ normalizer'.last = normalizer.last /\ normalizer'.held = {}
  BY DEF Normalize, feedVars, TypeOK, NormalizerOK
<1>6. normalizer.last = d.id /\ d \in source /\ d.id \in Ids
  BY DEF OnceInv, AtCursor, TypeOK, NormalizerOK, SourceDoc
<1>8. \A k : k \in 1..Len(normalized')
               <=> k \in 1..Len(normalized) \/ k = Len(normalized) + 1
  BY <1>4
<1>9. ASSUME NEW e \in source, e.id # d.id
      PROVE  Copies(e)' = Copies(e)
  BY <1>2, <1>4, <1>8, <1>9 DEF Copies
<1>10. ASSUME NEW e \in source, e.id = d.id
       PROVE  Cardinality(Copies(e)') <= restarts + 1 /\ ~Unseen(e)'
  <2>1. Copies(e)' = Copies(e) \cup {Len(normalized) + 1}
    BY <1>2, <1>4, <1>8, <1>10 DEF Copies
  <2>2. IsFiniteSet(Copies(e)) /\ Cardinality(Copies(e)) \in Nat
    BY CopiesFinite
  <2>3. Cardinality(Copies(e)) <= restarts
    BY <1>10 DEF OnceInv, Bounded, Unseen
  <2> DEFINE C == Copies(e)  n == Len(normalized) + 1
  <2> HIDE DEF C, n
  <2>9. /\ IsFiniteSet(C \cup {n})
        /\ \/ Cardinality(C \cup {n}) = Cardinality(C)
           \/ Cardinality(C \cup {n}) = Cardinality(C) + 1
    BY <2>2, FS_AddElement DEF C
  <2>4. Cardinality(Copies(e)') <= Cardinality(Copies(e)) + 1
    BY <2>1, <2>2, <2>9 DEF C, n
  <2>5. ~Before(d.id, d.id)
    BY <1>6, BeforeOrder
  <2>6. ~Unseen(e)'
    BY <1>5, <1>6, <1>10, <2>5 DEF Unseen
  <2>7. Cardinality(Copies(e)') \in Nat
    BY <2>1, <2>9, FS_CardinalityType DEF C, n
  <2>8. restarts \in Nat
    BY DEF TypeOK, NormalizerOK
  <2> QED  BY <2>2, <2>3, <2>4, <2>6, <2>7, <2>8
<1>11. ASSUME NEW e \in source, Unseen(e)'
       PROVE  Unseen(e)
  BY <1>5, <1>11 DEF Unseen
<1>12. Bounded'
  BY <1>5, <1>9, <1>10, <1>11 DEF OnceInv, Bounded
<1>13. Sourced'
  BY <1>2, <1>4, <1>5, <1>6, <1>8 DEF OnceInv, Sourced
<1>14. AtCursor'
  BY <1>5 DEF AtCursor
<1> QED  BY <1>12, <1>13, <1>14 DEF OnceInv

LEMMA OnceStep ==
  ASSUME TypeOK, PassInv, OnceInv, [Next]_vars
  PROVE  OnceInv'
<1>0. \A d : Cardinality(Copies(d)) \in Nat
  BY CopiesFinite
<1>1. ASSUME NEW f \in Forwarders, ~Taken(f), Store(forwarder[f].held),
             UNCHANGED normalizerVars
      PROVE  OnceInv'
  BY <1>1, StoreOnce
<1>2. CASE Take
  BY <1>2, TakeOnce
<1>3. CASE Normalize
  BY <1>3, NormalizeOnce
<1>4. CASE NormalizerCrash
  <2>1. /\ restarts' = restarts + 1 /\ normalizer'.held = {}
        /\ UNCHANGED <<source, normalized>>
    BY <1>4 DEF NormalizerCrash, Waiting, feedVars
  <2>2. \A d : Copies(d)' = Copies(d)
    BY <2>1 DEF Copies
  <2>3. restarts \in Nat
    BY DEF TypeOK, NormalizerOK
  <2>4. Bounded'
    BY <1>0, <2>1, <2>2, <2>3 DEF OnceInv, Bounded
  <2> QED  BY <2>1, <2>2, <2>4 DEF OnceInv, Sourced, AtCursor
<1>5. CASE /\ UNCHANGED <<source, normalized, restarts>>
           /\ normalizer'.last = normalizer.last
           /\ normalizer'.held = normalizer.held
  <2>1. \A d : Copies(d)' = Copies(d) /\ (Unseen(d)' <=> Unseen(d))
    BY <1>5 DEF Copies, Unseen
  <2> QED  BY <1>5, <2>1 DEF OnceInv, Sourced, AtCursor, Bounded
<1>6. Fetch => /\ normalizer'.last = normalizer.last
               /\ normalizer'.held = normalizer.held
               /\ UNCHANGED <<source, normalized, restarts>>
  BY DEF Fetch, feedVars, TypeOK, NormalizerOK
<1>7. \/ UNCHANGED <<source, normalizerVars>>
      \/ \E f \in Forwarders : /\ ~Taken(f) /\ Store(forwarder[f].held)
                               /\ UNCHANGED normalizerVars
      \/ Take \/ Normalize \/ NormalizerCrash \/ Fetch
  BY DEF Next, vars, feedVars, NormalizerNext, Emit, Read, Insert, InsertFails,
     ForwarderCrash, CheckStart, CheckEnd, PredictorCrash, Tick
<1> QED
  BY <1>1, <1>2, <1>3, <1>4, <1>5, <1>6, <1>7 DEF normalizerVars

(* One process of the normalizer normalizes a document at most once: a     *)
(* second copy takes a process that began again with empty last_ids.       *)
THEOREM NormalizedOnce == Spec => []NormalizedOncePerRun
<1>1. Init => OnceInv
  <2>1. \A d : Init => Copies(d) = {}
    BY EmptySeq DEF Init, Copies
  <2> QED  BY <2>1, FS_EmptySet DEF Init, OnceInv, Sourced, AtCursor, Bounded,
              Waiting, Unseen
<1>2. TypeOK /\ PassInv /\ OnceInv /\ [Next]_vars => OnceInv'
  BY OnceStep
<1>3. Spec => []OnceInv
  BY <1>1, <1>2, TypeCorrect, PassInvariant, PTL DEF Spec
<1>4. TypeOK /\ OnceInv => NormalizedOncePerRun
  BY CopiesFinite DEF OnceInv, Bounded, NormalizedOncePerRun, TypeOK,
     NormalizerOK
<1> QED  BY <1>3, <1>4, TypeCorrect, PTL

-----------------------------------------------------------------------------
(* Predictor: what a check can miss                                        *)

WindowInv == looked = predictor.last /\ MissedOnlyWhenLate

LEMMA WindowStep ==
  ASSUME TypeOK, WindowInv, [Next]_vars
  PROVE  WindowInv'
<1>1. CASE UNCHANGED <<normalized, predictorVars, crashes>>
  BY <1>1 DEF WindowInv, MissedOnlyWhenLate, predictorVars
<1>2. CASE Normalize
  <2>1. PICK d \in normalizer.held :
          normalized' = Append(normalized, [id |-> d.id,
                           timestamp |-> d.timestamp, dated |-> d.dated,
                           looked |-> looked])
    BY <1>2 DEF Normalize
  <2> DEFINE x == [id |-> d.id, timestamp |-> d.timestamp, dated |-> d.dated,
                  looked |-> looked]
  <2>2. x.timestamp \in Nat /\ x.looked = predictor.last /\ predictor.last \in Nat
    BY DEF TypeOK, NormalizerOK, PredictorOK, SourceDoc, WindowInv
  <2>3. normalized \in Seq(Entry) /\ x \in Entry
    BY DEF TypeOK, NormalizerOK, PredictorOK, SourceDoc, Entry
  <2> HIDE DEF x
  <2>4. /\ Len(normalized') = Len(normalized) + 1 /\ Len(normalized) \in Nat
        /\ normalized'[Len(normalized) + 1] = x
        /\ \A k \in 1..Len(normalized) : normalized'[k] = normalized[k]
    BY <2>1, <2>3, AppendProperties, LenProperties DEF x
  <2>5. UNCHANGED <<predictor, noticed, looked, crashes>>
    BY <1>2 DEF Normalize, predictorVars
  <2>6. \A k \in 1..Len(normalized') :
          k \in 1..Len(normalized) \/ k = Len(normalized) + 1
    BY <2>4
  <2> QED
    BY <2>2, <2>4, <2>5, <2>6 DEF WindowInv, MissedOnlyWhenLate
<1>3. CASE CheckStart
  BY <1>3 DEF CheckStart, WindowInv, MissedOnlyWhenLate, normalizerVars, TypeOK,
     PredictorOK
<1>4. CASE CheckEnd
  <2>1. /\ looked' = predictor'.last /\ noticed' = noticed \cup InWindow
        /\ UNCHANGED <<normalized, crashes>>
    BY <1>4 DEF CheckEnd, normalizerVars, TypeOK, PredictorOK
  <2>2. \A k \in 1..Len(normalized) :
          normalized[k].dated /\ normalized[k].timestamp >= predictor.last
            => k \in noticed'
    BY <2>1 DEF InWindow
  <2> QED
    BY <2>1, <2>2 DEF WindowInv, MissedOnlyWhenLate
<1>5. CASE crashes' = crashes + 1 /\ looked' = predictor'.last
  BY <1>5 DEF WindowInv, MissedOnlyWhenLate, TypeOK, PredictorOK
<1>6. \/ UNCHANGED <<normalized, predictorVars, crashes>>
      \/ Normalize \/ CheckStart \/ CheckEnd
      \/ crashes' = crashes + 1 /\ looked' = predictor'.last
  BY DEF Next, vars, normalizerVars, predictorVars, NormalizerNext, Emit, Read,
     Insert, InsertFails, ForwarderCrash, Fetch, Take, NormalizerCrash,
     PredictorCrash, Tick, WindowInv
<1> QED  BY <1>1, <1>2, <1>3, <1>4, <1>5, <1>6

(* While nothing has crashed, a normalized log is beyond the reach of the  *)
(* predictor's checks uncounted only because it was normalized after a     *)
(* check that began later than its timestamp, or because its line had set  *)
(* the timestamp to a text.                                                *)
THEOREM WindowsMeet == Spec => []MissedOnlyWhenLate
<1>1. Init => WindowInv
  BY EmptySeq DEF Init, WindowInv, MissedOnlyWhenLate
<1>2. TypeOK /\ WindowInv /\ [Next]_vars => WindowInv'
  BY WindowStep
<1>3. Spec => []WindowInv
  BY <1>1, <1>2, TypeCorrect, PTL DEF Spec
<1> QED  BY <1>3, PTL DEF WindowInv
=============================================================================
