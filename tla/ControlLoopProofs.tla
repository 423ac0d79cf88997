-------------------------- MODULE ControlLoopProofs --------------------------
(***************************************************************************)
(* Proofs about ControlLoop, for every list of plugins and every bound.    *)
(***************************************************************************)
EXTENDS ControlLoop, SequenceTheorems, TLAPS

(* A list of decisions has decisions as elements.                          *)
LEMMA DecisionsType ==
  ASSUME ConstantsAssumption, NEW v \in [1..Len(PluginOrder) -> Actions]
  PROVE  Decisions(v) \in DecisionList /\ Decisions(v) # << >>
<1>1. Len(PluginOrder) \in Nat /\ Len(PluginOrder) # 0
  BY ConstantsAssumption, EmptySeq DEF ConstantsAssumption
<1>2. \A i \in 1..Len(PluginOrder) : PluginOrder[i] \in Plugins
  BY DEF Plugins
<1> QED  BY <1>1, <1>2 DEF Decisions, DecisionList

(* Finishing the head of the list keeps the predictor well formed.         *)
LEMMA AfterHeadType ==
  ASSUME PredictorOK, predictor.todo # << >>
  PROVE  /\ AfterHead \in [pc : {"sleep", "read", "insert", "update"},
                           cycle : Nat, todo : DecisionList]
         /\ (AfterHead.pc = "sleep") <=> (AfterHead.todo = << >>)
<1>1. /\ predictor.todo \in DecisionList /\ Tail(predictor.todo) \in DecisionList
      /\ Len(Tail(predictor.todo)) = Len(predictor.todo) - 1
  BY HeadTailProperties DEF PredictorOK, DecisionList
<1>2. CASE Len(predictor.todo) = 1
  BY <1>2, EmptySeq DEF AfterHead, Asleep, DecisionList
<1>3. CASE Len(predictor.todo) # 1
  <2>1. AfterHead = [predictor EXCEPT !.pc = "read", !.todo = Tail(@)]
    BY <1>3 DEF AfterHead
  <2>2. Len(Tail(predictor.todo)) # 0
    BY <1>1, <1>3, LenProperties DEF DecisionList
  <2>3. Tail(predictor.todo) # << >>
    BY <2>2, EmptySeq
  <2> QED  BY <1>1, <2>1, <2>3 DEF PredictorOK
<1> QED  BY <1>2, <1>3

(* One insert_one appends a document and its counter and nothing else.     *)
LEMMA InsertDocType ==
  ASSUME DocumentsOK, NEW d \in Document, InsertDoc(d)
  PROVE  /\ DocumentsOK'
         /\ Len(agentActions') = Len(agentActions) + 1
         /\ Len(agentActions) \in Nat
         /\ \A i \in 1..Len(agentActions) :
              agentActions'[i] = agentActions[i] /\ sent'[i] = sent[i]
         /\ agentActions'[Len(agentActions) + 1] = d
         /\ sent'[Len(agentActions) + 1] = 0
<1>1. Len(agentActions) \in Nat /\ Len(sent) = Len(agentActions)
  BY LenProperties DEF DocumentsOK
<1>2. agentActions' \in Seq(Document)
  BY DEF DocumentsOK, InsertDoc
<1>3. sent' \in Seq(Nat)
  BY DEF DocumentsOK, InsertDoc
<1>4. /\ Len(agentActions') = Len(agentActions) + 1
      /\ Len(sent') = Len(sent) + 1
  BY DEF DocumentsOK, InsertDoc
<1>5. \A i \in 1..Len(agentActions) :
              agentActions'[i] = agentActions[i] /\ sent'[i] = sent[i]
  BY <1>1 DEF DocumentsOK, InsertDoc
<1>6. /\ agentActions'[Len(agentActions) + 1] = d
      /\ sent'[Len(agentActions) + 1] = 0
  BY <1>1 DEF DocumentsOK, InsertDoc
<1> QED  BY <1>1, <1>2, <1>3, <1>4, <1>5, <1>6 DEF DocumentsOK

(* Ids that name documents go on naming documents when one is appended.    *)
LEMMA IdsGrow ==
  ASSUME ActuatorOK, HoneypotsOK, HistoryOK,
         Len(agentActions) \in Nat, Len(agentActions') = Len(agentActions) + 1,
         UNCHANGED <<actuator, lastActionId, actuatorLogs, redo, hostVars, now,
                     resetVars, trainings, faults, crashes, torn>>
  PROVE  ActuatorOK' /\ HoneypotsOK' /\ HistoryOK'
<1> DEFINE L == 1..Len(agentActions)  L1 == 1..(Len(agentActions) + 1)
<1>1. L \subseteq L1 /\ 0..Len(agentActions) \subseteq 0..(Len(agentActions) + 1)
  OBVIOUS
<1>2. actuatorLogs \in Seq([action_id : L1, success : BOOLEAN])
  <2>1. [action_id : L, success : BOOLEAN]
          \subseteq [action_id : L1, success : BOOLEAN]
    BY <1>1
  <2> QED  BY <2>1, SeqMonotonic DEF ActuatorOK
<1>3. ActuatorOK'
  BY <1>1, <1>2 DEF ActuatorOK
<1>4. HoneypotsOK'
  BY <1>1 DEF HoneypotsOK, hostVars
<1>5. HistoryOK'
  BY <1>1 DEF HistoryOK, resetVars
<1> QED  BY <1>3, <1>4, <1>5

-----------------------------------------------------------------------------
LEMMA StatusType == \A act : StatusOf(act) \in Statuses
  BY DEF StatusOf, Statuses

(* The list left after the head of a non-empty list is a list.             *)
LEMMA TodoType ==
  ASSUME NEW todo \in DecisionList, todo # << >>
  PROVE  /\ Head(todo) \in [plugin : Plugins, action : Actions]
         /\ Tail(todo) \in DecisionList
  BY HeadTailProperties DEF DecisionList

LEMMA InitType == ConstantsAssumption /\ Init => TypeOK
<1> SUFFICES ASSUME ConstantsAssumption, Init PROVE TypeOK
  OBVIOUS
<1> USE DEF Init
<1>1. DocumentsOK
  BY EmptySeq DEF DocumentsOK
<1>2. PredictorOK
  BY EmptySeq DEF PredictorOK, Asleep, Statuses, DecisionList
<1>3. ActuatorOK
  BY EmptySeq DEF ActuatorOK, Idle
<1>4. WritersOK
  BY EmptySeq DEF WritersOK, DecisionList
<1>5. HoneypotsOK
  BY DEF HoneypotsOK, Statuses
<1>6. HistoryOK
  BY EmptySeq DEF HistoryOK
<1> QED  BY <1>1, <1>2, <1>3, <1>4, <1>5, <1>6 DEF TypeOK

LEMMA PredictorType ==
  ASSUME ConstantsAssumption, TypeOK, PredictorNext
  PROVE  TypeOK'
<1> USE DEF TypeOK
<1>1. CASE Predict
  <2>1. PredictorOK'
    <3>1. PICK v \in [1..Len(PluginOrder) -> Actions] :
            predictor' = [pc |-> "read", cycle |-> now, todo |-> Decisions(v)]
      BY <1>1 DEF Predict
    <3>2. Decisions(v) \in DecisionList /\ Decisions(v) # << >>
      BY DecisionsType
    <3> QED  BY <1>1, <3>1, <3>2 DEF Predict, PredictorOK, HistoryOK
  <2> QED  BY <1>1, <2>1 DEF Predict, DocumentsOK, ActuatorOK, WritersOK,
             HoneypotsOK, HistoryOK, actuatorVars, trainerVars, resetVars,
             hostVars
<1>2. CASE PredictorRead
  <2>1. predictor.todo # << >>
    BY <1>2 DEF PredictorRead, PredictorOK
  <2>2. PredictorOK'
    <3>1. CASE predictor' = AfterHead
      BY <1>2, <2>1, <3>1, AfterHeadType DEF PredictorRead, PredictorOK
    <3>2. CASE predictor' = [predictor EXCEPT !.pc = "insert"]
      BY <1>2, <2>1, <3>2 DEF PredictorRead, PredictorOK
    <3> QED  BY <1>2, <3>1, <3>2 DEF PredictorRead
  <2> QED  BY <1>2, <2>2 DEF PredictorRead, DocumentsOK, ActuatorOK, WritersOK,
             HoneypotsOK, HistoryOK, actuatorVars, trainerVars, resetVars,
             hostVars
<1>3. CASE PredictorInsert
  <2> DEFINE d == Head(predictor.todo)
             doc == Doc(d.plugin, d.action, predictor.cycle, "predictor")
  <2>1. predictor.todo # << >>
    BY <1>3 DEF PredictorInsert, PredictorOK
  <2>2. doc \in Document
    BY <2>1, TodoType DEF Doc, Document, PredictorOK
  <2>3. DocumentsOK' /\ Len(agentActions') = Len(agentActions) + 1
        /\ Len(agentActions) \in Nat
    BY <1>3, <2>2, InsertDocType DEF PredictorInsert
  <2>4. ActuatorOK' /\ HoneypotsOK' /\ HistoryOK'
    BY <1>3, <2>3, IdsGrow DEF PredictorInsert, trainerVars, resetVars
  <2>5. PredictorOK'
    BY <1>3, <2>1 DEF PredictorInsert, PredictorOK
  <2> QED  BY <1>3, <2>3, <2>4, <2>5 DEF PredictorInsert, WritersOK,
             trainerVars, resetVars
<1>4. CASE PredictorUpdate
  <2>1. predictor.todo # << >>
    BY <1>4 DEF PredictorUpdate, PredictorOK
  <2>2. PredictorOK'
    BY <1>4, <2>1, AfterHeadType, StatusType DEF PredictorUpdate, PredictorOK
  <2> QED  BY <1>4, <2>2 DEF PredictorUpdate, DocumentsOK, ActuatorOK,
             WritersOK, HoneypotsOK, HistoryOK, actuatorVars, trainerVars,
             resetVars, hostVars
<1>5. CASE PredictorCrash
  <2>1. PredictorOK'
    BY <1>5, EmptySeq DEF PredictorCrash, PredictorOK, Asleep, DecisionList
  <2>2. torn' \subseteq 1..Len(agentActions)
    BY <1>5 DEF PredictorCrash, HistoryOK, NewestDecisions
  <2>3. HistoryOK'
    BY <1>5, <2>2 DEF PredictorCrash, HistoryOK, actuatorVars, trainerVars,
      resetVars
  <2> QED  BY <1>5, <2>1, <2>3 DEF PredictorCrash, DocumentsOK, ActuatorOK,
             WritersOK, HoneypotsOK, actuatorVars, trainerVars, resetVars,
             hostVars
<1> QED  BY <1>1, <1>2, <1>3, <1>4, <1>5 DEF PredictorNext

LEMMA ActuatorType ==
  ASSUME ConstantsAssumption, TypeOK,
         ActuatorWork \/ ActuatorCrash \/ LateCommandLands
  PROVE  TypeOK'
<1> USE DEF TypeOK
<1>1. CASE ActuatorPoll
  <2>1. PICK i \in 1..Len(agentActions) :
          /\ lastActionId' = i
          /\ actuator' = IF agentActions[i].plugin \in SupportedPlugins
                         THEN [Idle EXCEPT !.pc = "exec", !.doc = i]
                         ELSE Idle
    BY <1>1 DEF ActuatorPoll
  <2>2. i # None
    BY LenProperties DEF DocumentsOK, None
  <2>3. ActuatorOK'
    BY <1>1, <2>1, <2>2 DEF ActuatorPoll, ActuatorOK, Idle
  <2> QED  BY <1>1, <2>3 DEF ActuatorPoll, DocumentsOK, PredictorOK,
             WritersOK, HoneypotsOK, HistoryOK, predictorVars, trainerVars,
             resetVars, hostVars
<1>2. CASE ActuatorRefuse
  <2>1. ActuatorOK'
    BY <1>2 DEF ActuatorRefuse, ActuatorOK
  <2> QED  BY <1>2, <2>1 DEF ActuatorRefuse, DocumentsOK, PredictorOK,
             WritersOK, HoneypotsOK, HistoryOK, predictorVars, trainerVars,
             resetVars, hostVars
<1>3. CASE ActuatorSend
  <2>1. actuator.doc \in 1..Len(agentActions)
    BY <1>3 DEF ActuatorSend, ActuatorOK
  <2>2. sent[actuator.doc] \in Nat
    BY <2>1 DEF DocumentsOK
  <2>3. DocumentsOK'
    <3>1. /\ agentActions' = agentActions
          /\ sent' = [sent EXCEPT ![actuator.doc] = sent[actuator.doc] + 1]
      BY <1>3 DEF ActuatorSend
    <3>2. sent \in Seq(Nat) /\ actuator.doc \in 1..Len(sent)
      BY <2>1 DEF DocumentsOK
    <3>3. sent[actuator.doc] + 1 \in Nat
      BY <2>2
    <3>4. sent' \in Seq(Nat) /\ Len(sent') = Len(sent)
      BY <3>1, <3>2, <3>3
    <3> QED  BY <3>1, <3>4 DEF DocumentsOK
  <2>4. PICK lands \in {"now", "late", "never"}, ok \in BOOLEAN :
       /\ faults' = faults \/ faults' = faults + 1
       /\ actuator' = [actuator EXCEPT !.pc = "mark", !.success = ok]
       /\ switch' = IF lands = "now"
                    THEN [switch EXCEPT ![HoneypotOf(Held.plugin)] =
                                          StatusOf(Held.action)]
                    ELSE switch
       /\ late' = IF lands = "late"
                  THEN late \cup {<<actuator.doc, sent[actuator.doc]>>}
                  ELSE late
    BY <1>3 DEF ActuatorSend
  <2>5. ActuatorOK'
    <3>1. UNCHANGED <<agentActions, lastActionId, actuatorLogs>>
      BY <1>3 DEF ActuatorSend
    <3>2. actuator' \in [pc : {"idle", "exec", "mark", "log"},
                         doc : {None} \cup 1..Len(agentActions),
                         success : BOOLEAN]
      BY <2>4 DEF ActuatorOK
    <3>3. actuator'.pc = "mark" /\ actuator'.doc = actuator.doc
      BY <2>4 DEF ActuatorOK
    <3>4. actuator.doc # None
      BY <1>3 DEF ActuatorSend, ActuatorOK
    <3> QED  BY <3>1, <3>2, <3>3, <3>4 DEF ActuatorOK
  <2>6. HoneypotsOK'
    <3>1. switch' \in [Honeypots -> Statuses]
      BY <2>4, StatusType DEF HoneypotsOK
    <3>2. late' \subseteq (1..Len(agentActions)) \X Nat
      BY <2>1, <2>2, <2>4 DEF HoneypotsOK
    <3> QED  BY <1>3, <3>1, <3>2 DEF ActuatorSend, HoneypotsOK
  <2>7. HistoryOK'
    BY <1>3, <2>4 DEF ActuatorSend, HistoryOK, trainerVars, resetVars
  <2> QED  BY <1>3, <2>3, <2>5, <2>6, <2>7 DEF ActuatorSend, PredictorOK,
             WritersOK, predictorVars, trainerVars, resetVars
<1>4. CASE ActuatorMark
  <2>1. actuator.doc \in 1..Len(agentActions)
    BY <1>4 DEF ActuatorMark, ActuatorOK
  <2>2. /\ agentActions' \in Seq(Document)
        /\ Len(agentActions') = Len(agentActions)
    <3> DEFINE e == [agentActions[actuator.doc] EXCEPT !.processed = TRUE]
    <3>1. agentActions[actuator.doc] \in Document
      BY <2>1, ElementOfSeq DEF DocumentsOK
    <3>2. e \in Document
      BY <3>1 DEF Document
    <3>3. agentActions' = [agentActions EXCEPT ![actuator.doc] = e]
      BY <1>4 DEF ActuatorMark
    <3> HIDE DEF e
    <3> QED  BY <2>1, <3>2, <3>3, ExceptSeq DEF DocumentsOK
  <2>3. DocumentsOK'
    BY <1>4, <2>2 DEF ActuatorMark, DocumentsOK
  <2>4. ActuatorOK'
    BY <1>4, <2>2 DEF ActuatorMark, ActuatorOK
  <2> QED  BY <1>4, <2>2, <2>3, <2>4 DEF ActuatorMark, PredictorOK,
             WritersOK, HoneypotsOK, HistoryOK, predictorVars, trainerVars,
             resetVars, hostVars
<1>5. CASE ActuatorLog
  <2>1. ActuatorOK'
    <3>1. [action_id |-> actuator.doc, success |-> actuator.success]
            \in [action_id : 1..Len(agentActions), success : BOOLEAN]
      BY <1>5 DEF ActuatorLog, ActuatorOK
    <3> QED  BY <1>5, <3>1 DEF ActuatorLog, ActuatorOK, Idle, None
  <2> QED  BY <1>5, <2>1 DEF ActuatorLog, DocumentsOK, PredictorOK,
             WritersOK, HoneypotsOK, HistoryOK, predictorVars, trainerVars,
             resetVars, hostVars
<1>6. CASE ActuatorCrash
  <2>1. ActuatorOK'
    BY <1>6 DEF ActuatorCrash, ActuatorOK, Idle
  <2>2. HistoryOK'
    <3>1. actuator.doc \in 1..Len(agentActions)
      BY <1>6 DEF ActuatorCrash, ActuatorOK
    <3>2. redo' \subseteq 1..Len(agentActions)
      BY <1>6, <3>1 DEF ActuatorCrash, HistoryOK
    <3>3. crashes' \in Nat
      BY <1>6 DEF ActuatorCrash, HistoryOK
    <3> QED  BY <1>6, <3>2, <3>3 DEF ActuatorCrash, HistoryOK, trainerVars,
               resetVars
  <2> QED  BY <1>6, <2>1, <2>2 DEF ActuatorCrash, DocumentsOK, PredictorOK,
             WritersOK, HoneypotsOK, predictorVars, trainerVars, resetVars,
             hostVars
<1>7. CASE LateCommandLands
  <2>1. PICK c \in late :
       /\ late' = late \ {c}
       /\ switch' = [switch EXCEPT ![HoneypotOf(agentActions[c[1]].plugin)] =
                                     StatusOf(agentActions[c[1]].action)]
    BY <1>7 DEF LateCommandLands
  <2>2. switch' \in [Honeypots -> Statuses]
    BY <2>1, StatusType DEF HoneypotsOK
  <2>3. HoneypotsOK'
    BY <1>7, <2>1, <2>2 DEF LateCommandLands, HoneypotsOK
  <2> QED  BY <1>7, <2>3 DEF LateCommandLands, DocumentsOK, PredictorOK,
             ActuatorOK, WritersOK, HistoryOK, predictorVars, actuatorVars,
             trainerVars, resetVars
<1> QED  BY <1>1, <1>2, <1>3, <1>4, <1>5, <1>6, <1>7 DEF ActuatorWork

(* The trainer, the operator, the reset script and the clock.              *)
WriterNext ==
  \/ TrainerFinish \/ TrainerInsert \/ TrainerAbort \/ OperatorInsert
  \/ ResetStart \/ ResetHoneypot \/ ResetPlugin \/ ResetAbort
  \/ Tick

LEMMA WritersType ==
  ASSUME ConstantsAssumption, TypeOK, WriterNext
  PROVE  TypeOK'
<1> USE DEF TypeOK
<1>1. CASE TrainerFinish
  <2>1. PICK v \in TrainerVectors :
          trainer' = [cycle |-> now, todo |-> Decisions(v)]
    BY <1>1 DEF TrainerFinish
  <2>2. v \in [1..Len(PluginOrder) -> Actions]
    BY DEF TrainerVectors, Actions
  <2>3. WritersOK' /\ HistoryOK'
    BY <1>1, <2>1, <2>2, DecisionsType DEF TrainerFinish, WritersOK, HistoryOK,
      resetVars, actuatorVars
  <2> QED  BY <1>1, <2>3 DEF TrainerFinish, DocumentsOK, PredictorOK,
             ActuatorOK, HoneypotsOK, predictorVars, actuatorVars, hostVars
<1>2. CASE TrainerInsert
  <2> DEFINE d == Head(trainer.todo)
             doc == Doc(d.plugin, d.action, trainer.cycle, "train_sb3")
  <2>1. doc \in Document
    BY <1>2, TodoType DEF TrainerInsert, Doc, Document, WritersOK
  <2>2. DocumentsOK' /\ Len(agentActions') = Len(agentActions) + 1
        /\ Len(agentActions) \in Nat
    BY <1>2, <2>1, InsertDocType DEF TrainerInsert
  <2>3. ActuatorOK' /\ HoneypotsOK' /\ HistoryOK'
    BY <1>2, <2>2, IdsGrow DEF TrainerInsert
  <2>4. WritersOK'
    BY <1>2, TodoType DEF TrainerInsert, WritersOK, resetVars
  <2> QED  BY <1>2, <2>2, <2>3, <2>4 DEF TrainerInsert, PredictorOK,
             predictorVars
<1>3. CASE TrainerAbort
  <2>1. WritersOK'
    BY <1>3, EmptySeq DEF TrainerAbort, WritersOK, DecisionList, resetVars
  <2>2. crashes' \in Nat
    BY <1>3 DEF TrainerAbort, HistoryOK
  <2>3. HistoryOK'
    BY <1>3, <2>2 DEF TrainerAbort, HistoryOK, actuatorVars, resetVars
  <2> QED  BY <1>3, <2>1, <2>3 DEF TrainerAbort, DocumentsOK, PredictorOK,
             ActuatorOK, HoneypotsOK, predictorVars, actuatorVars, resetVars,
             hostVars
<1>4. CASE OperatorInsert
  <2>1. PICK p \in ManualPlugins, act \in Actions :
          InsertDoc(Doc(p, act, now, "manual"))
    BY <1>4 DEF OperatorInsert
  <2>2. Doc(p, act, now, "manual") \in Document
    BY DEF Doc, Document, HistoryOK
  <2>3. DocumentsOK' /\ Len(agentActions') = Len(agentActions) + 1
        /\ Len(agentActions) \in Nat
    BY <2>1, <2>2, InsertDocType
  <2>4. ActuatorOK' /\ HoneypotsOK' /\ HistoryOK'
    BY <1>4, <2>3, IdsGrow DEF OperatorInsert, trainerVars
  <2> QED  BY <1>4, <2>3, <2>4 DEF OperatorInsert, PredictorOK, WritersOK,
             predictorVars, trainerVars, resetVars
<1>5. CASE ResetStart
  <2>1. ResetLegs \in Seq(Honeypots \cup Plugins)
    <3>1. PluginOrder \in Seq(Plugins)
      BY DEF ConstantsAssumption, Plugins
    <3>2. PluginOrder \in Seq(Honeypots \cup Plugins)
      BY <3>1, SeqMonotonic
    <3>3. <<"cowrie", "honeypy", "honeytrap", "conpot", "nodepot-lite">>
            \in Seq(Honeypots \cup Plugins)
      BY DEF Honeypots
    <3> QED  BY <3>2, <3>3, ConcatProperties DEF ResetLegs
  <2> QED  BY <1>5, <2>1 DEF ResetStart, DocumentsOK, PredictorOK, ActuatorOK,
             WritersOK, HoneypotsOK, HistoryOK, predictorVars, actuatorVars,
             trainerVars, hostVars
<1>6. CASE ResetHoneypot
  <2>1. reset' \in Seq(Honeypots \cup Plugins)
    BY <1>6, HeadTailProperties DEF ResetHoneypot, WritersOK
  <2>2. HoneypotsOK'
    <3>1. ResetEffect(Head(reset)) \in Statuses
      BY DEF ResetEffect, HoneypotsOK, Statuses, Honeypots
    <3>2. switch' \in [Honeypots -> Statuses]
      BY <1>6, <3>1 DEF ResetHoneypot, HoneypotsOK
    <3> QED  BY <1>6, <3>2 DEF ResetHoneypot, HoneypotsOK
  <2> QED  BY <1>6, <2>1, <2>2 DEF ResetHoneypot, DocumentsOK, PredictorOK,
             ActuatorOK, WritersOK, HistoryOK, predictorVars, actuatorVars,
             trainerVars
<1>7. CASE ResetPlugin
  <2>1. reset' \in Seq(Honeypots \cup Plugins)
    BY <1>7, HeadTailProperties DEF ResetPlugin, WritersOK
  <2>2. PredictorOK'
    BY <1>7 DEF ResetPlugin, PredictorOK, Statuses
  <2>3. torn' \subseteq 1..Len(agentActions)
    BY <1>7 DEF ResetPlugin, HistoryOK, NewestDecisions
  <2>4. HistoryOK'
    BY <1>7, <2>3 DEF ResetPlugin, HistoryOK, actuatorVars, trainerVars
  <2> QED  BY <1>7, <2>1, <2>2, <2>4 DEF ResetPlugin, DocumentsOK, ActuatorOK,
             WritersOK, HoneypotsOK, actuatorVars, trainerVars, hostVars
<1>8. CASE ResetAbort
  <2>1. WritersOK'
    BY <1>8, EmptySeq DEF ResetAbort, WritersOK, trainerVars
  <2>2. HistoryOK'
    BY <1>8 DEF ResetAbort, HistoryOK, actuatorVars, trainerVars
  <2> QED  BY <1>8, <2>1, <2>2 DEF ResetAbort, DocumentsOK, PredictorOK,
             ActuatorOK, HoneypotsOK, predictorVars, actuatorVars, hostVars
<1>9. CASE Tick
  BY <1>9 DEF Tick, DocumentsOK, PredictorOK, ActuatorOK, WritersOK,
    HoneypotsOK, HistoryOK, predictorVars, actuatorVars, trainerVars,
    resetVars, hostVars
<1> QED  BY <1>1, <1>2, <1>3, <1>4, <1>5, <1>6, <1>7, <1>8, <1>9
         DEF WriterNext

LEMMA StutterType ==
  ASSUME TypeOK, UNCHANGED vars
  PROVE  TypeOK'
BY DEF TypeOK, DocumentsOK, PredictorOK, ActuatorOK, WritersOK, HoneypotsOK,
  HistoryOK, vars, predictorVars, actuatorVars, trainerVars, resetVars,
  hostVars

(* Next, grouped by the process that takes the step.                       *)
LEMMA NextGroups ==
  ASSUME [Next]_vars
  PROVE  \/ PredictorNext
         \/ ActuatorWork \/ ActuatorCrash \/ LateCommandLands
         \/ WriterNext
         \/ UNCHANGED vars
BY DEF Next, WriterNext, ActuatorPollNothing

(* Every reachable state is well typed.                                    *)
THEOREM TypeCorrect == Spec => []TypeOK
<1>1. Init => TypeOK
  BY ConstantsAssumption, InitType
<1>2. TypeOK /\ [Next]_vars => TypeOK'
  BY ConstantsAssumption, NextGroups, PredictorType, ActuatorType,
    WritersType, StutterType
<1> QED  BY <1>1, <1>2, PTL DEF Spec

-----------------------------------------------------------------------------
(* The strengthening of the two invariants about applying a document: what *)
(* the actuator holds has not been marked before it has been sent, and     *)
(* whatever has been sent is marked, held for marking, or was lost in a    *)
(* crash.                                                                  *)
ApplyInv ==
  /\ \A i \in 1..Len(agentActions) :
       /\ sent[i] > 1 => i \in redo
       /\ sent[i] > 0 /\ ~agentActions[i].processed =>
            i \in redo \/ (actuator.pc = "mark" /\ actuator.doc = i)
  /\ actuator.pc = "exec" => ~Held.processed
  /\ actuator.pc = "log" => Held.processed
  /\ LoggedIsProcessed


(* The ids in the log are ids of documents.                                *)
LEMMA LogIds ==
  ASSUME ActuatorOK, NEW k \in 1..Len(actuatorLogs)
  PROVE  actuatorLogs[k].action_id \in 1..Len(agentActions)
<1> DEFINE Entry == [action_id : 1..Len(agentActions), success : BOOLEAN]
<1>1. actuatorLogs \in Seq(Entry)
  BY DEF ActuatorOK
<1>2. actuatorLogs[k] \in Entry
  BY <1>1, ElementOfSeq
<1> QED  BY <1>2

LEMMA ApplyInit == Init => ApplyInv
BY EmptySeq DEF Init, ApplyInv, LoggedIsProcessed, Idle

(* Steps that leave documents, commands, actuator and logs alone.          *)
LEMMA ApplyUnchanged ==
  ASSUME ApplyInv,
         UNCHANGED <<agentActions, sent, redo, actuator, actuatorLogs>>
  PROVE  ApplyInv'
BY DEF ApplyInv, LoggedIsProcessed, Held

(* A document is inserted: it has not been sent, and the others stay.      *)
LEMMA ApplyInsert ==
  ASSUME TypeOK, ApplyInv, NEW d \in Document, InsertDoc(d),
         UNCHANGED <<redo, actuator, actuatorLogs>>
  PROVE  ApplyInv'
<1> USE DEF TypeOK
<1> DEFINE n == Len(agentActions)
<1>1. /\ n \in Nat /\ Len(agentActions') = n + 1
      /\ \A i \in 1..n :
              agentActions'[i] = agentActions[i] /\ sent'[i] = sent[i]
      /\ sent'[n + 1] = 0
  BY InsertDocType
<1>2. \A i \in 1..(n + 1) : i \in 1..n \/ i = n + 1
  BY <1>1
<1>3. \A i \in 1..(n + 1) :
       /\ sent'[i] > 1 => i \in redo
       /\ sent'[i] > 0 /\ ~agentActions'[i].processed =>
            i \in redo \/ (actuator.pc = "mark" /\ actuator.doc = i)
  BY <1>1, <1>2 DEF ApplyInv
<1>4. actuator.pc # "idle" => actuator.doc \in 1..n
  BY DEF ActuatorOK
<1>5. LoggedIsProcessed'
  <2>1. \A k \in 1..Len(actuatorLogs) : actuatorLogs[k].action_id \in 1..n
    BY LogIds
  <2> QED  BY <1>1, <2>1 DEF ApplyInv, LoggedIsProcessed
<1> QED  BY <1>1, <1>3, <1>4, <1>5 DEF ApplyInv, Held

LEMMA ApplyStep ==
  ASSUME ConstantsAssumption, TypeOK, ApplyInv, [Next]_vars
  PROVE  ApplyInv'
<1> USE DEF TypeOK
<1>1. CASE ActuatorPoll
  <2>1. PICK i \in 1..Len(agentActions) :
          /\ IsNewest(i)
          /\ actuator' = IF agentActions[i].plugin \in SupportedPlugins
                         THEN [Idle EXCEPT !.pc = "exec", !.doc = i]
                         ELSE Idle
    BY <1>1 DEF ActuatorPoll
  <2>2. ~agentActions[i].processed
    BY <2>1 DEF IsNewest, Candidates
  <2> QED  BY <1>1, <2>1, <2>2 DEF ActuatorPoll, ApplyInv, LoggedIsProcessed,
             Held, Idle
<1>2. CASE ActuatorRefuse
  BY <1>2 DEF ActuatorRefuse, ActuatorOK, ApplyInv, LoggedIsProcessed, Held
<1>3. CASE ActuatorSend
  <2>1. actuator.doc \in 1..Len(agentActions)
    BY <1>3 DEF ActuatorSend, ActuatorOK
  <2>2. actuator'.pc = "mark" /\ actuator'.doc = actuator.doc
    BY <1>3 DEF ActuatorSend, ActuatorOK
  <2>3. \A i \in 1..Len(agentActions) :
           sent'[i] = IF i = actuator.doc THEN sent[i] + 1 ELSE sent[i]
    BY <1>3, <2>1 DEF ActuatorSend, DocumentsOK
  <2>4. sent[actuator.doc] \in Nat
    BY <2>1 DEF DocumentsOK
  <2>5. sent[actuator.doc] > 0 => actuator.doc \in redo
    BY <1>3, <2>1 DEF ActuatorSend, ApplyInv, Held
  <2>6. UNCHANGED <<agentActions, redo, actuatorLogs>>
    BY <1>3 DEF ActuatorSend
  <2>7. actuator.pc = "exec"
    BY <1>3 DEF ActuatorSend
  <2>8. \A i \in 1..Len(agentActions) : sent'[i] > 1 => i \in redo
    BY <2>3, <2>4, <2>5 DEF ApplyInv
  <2>9. \A i \in 1..Len(agentActions) :
          sent'[i] > 0 /\ ~agentActions[i].processed
          => i \in redo \/ i = actuator.doc
    BY <2>3, <2>7 DEF ApplyInv
  <2> QED  BY <2>2, <2>6, <2>8, <2>9 DEF ApplyInv, LoggedIsProcessed
<1>4. CASE ActuatorMark
  <2>1. actuator.doc \in 1..Len(agentActions)
    BY <1>4 DEF ActuatorMark, ActuatorOK
  <2>2. /\ Len(agentActions') = Len(agentActions)
        /\ \A i \in 1..Len(agentActions) :
             /\ i # actuator.doc => agentActions'[i] = agentActions[i]
             /\ i = actuator.doc => agentActions'[i].processed
    <3>1. agentActions[actuator.doc] \in Document
      BY <2>1, ElementOfSeq DEF DocumentsOK
    <3>2. agentActions' = [agentActions EXCEPT ![actuator.doc].processed = TRUE]
      BY <1>4 DEF ActuatorMark
    <3>3. DEFINE marked == [agentActions[actuator.doc] EXCEPT !.processed = TRUE]
    <3>4. marked.processed
      BY <3>1 DEF Document
    <3>5. agentActions' = [agentActions EXCEPT ![actuator.doc] = marked]
      BY <3>2
    <3> HIDE DEF marked
    <3> QED  BY <2>1, <3>4, <3>5, ExceptSeq DEF DocumentsOK
  <2>3. \A k \in 1..Len(actuatorLogs) :
          actuatorLogs[k].action_id \in 1..Len(agentActions)
    BY LogIds
  <2>4. actuator'.pc = "log" /\ actuator'.doc = actuator.doc
    BY <1>4 DEF ActuatorMark, ActuatorOK
  <2>5. LoggedIsProcessed'
    BY <1>4, <2>1, <2>2, <2>3 DEF ActuatorMark, ApplyInv, LoggedIsProcessed
  <2>6. UNCHANGED <<sent, redo>> /\ actuator.pc = "mark"
    BY <1>4 DEF ActuatorMark
  <2>7. \A i \in 1..Len(agentActions) :
          /\ sent[i] > 1 => i \in redo
          /\ sent[i] > 0 /\ ~agentActions'[i].processed => i \in redo
    BY <2>2, <2>6 DEF ApplyInv
  <2> QED  BY <2>1, <2>2, <2>4, <2>5, <2>6, <2>7 DEF ApplyInv, Held
<1>5. CASE ActuatorLog
  <2>1. actuator.doc \in 1..Len(agentActions) /\ Held.processed
    BY <1>5 DEF ActuatorLog, ActuatorOK, ApplyInv
  <2>2. LoggedIsProcessed'
    <3> DEFINE e == [action_id |-> actuator.doc, success |-> actuator.success]
               n == Len(actuatorLogs)
    <3>1. actuatorLogs \in Seq([action_id : 1..Len(agentActions),
                                success : BOOLEAN])
      BY DEF ActuatorOK
    <3>2. actuatorLogs' = Append(actuatorLogs, e)
      BY <1>5 DEF ActuatorLog
    <3>3. /\ n \in Nat /\ Len(actuatorLogs') = n + 1
          /\ \A k \in 1..n : actuatorLogs'[k] = actuatorLogs[k]
          /\ actuatorLogs'[n + 1] = e
      BY <3>1, <3>2
    <3>4. \A k \in 1..(n + 1) : k \in 1..n \/ k = n + 1
      BY <3>3
    <3> QED  BY <1>5, <2>1, <3>3, <3>4 DEF ActuatorLog, ApplyInv,
               LoggedIsProcessed, Held
  <2> QED  BY <1>5, <2>2 DEF ActuatorLog, ApplyInv, Idle
<1>6. CASE ActuatorCrash
  BY <1>6 DEF ActuatorCrash, ActuatorOK, ApplyInv, LoggedIsProcessed, Idle
<1>7. CASE PredictorInsert
  <2> DEFINE d == Head(predictor.todo)
             doc == Doc(d.plugin, d.action, predictor.cycle, "predictor")
  <2>1. doc \in Document
    BY <1>7, TodoType DEF PredictorInsert, Doc, Document, PredictorOK
  <2> QED  BY <1>7, <2>1, ApplyInsert DEF PredictorInsert
<1>8. CASE TrainerInsert
  <2> DEFINE d == Head(trainer.todo)
             doc == Doc(d.plugin, d.action, trainer.cycle, "train_sb3")
  <2>1. doc \in Document
    BY <1>8, TodoType DEF TrainerInsert, Doc, Document, WritersOK
  <2> QED  BY <1>8, <2>1, ApplyInsert DEF TrainerInsert
<1>9. CASE OperatorInsert
  <2>1. PICK p \in ManualPlugins, act \in Actions :
          InsertDoc(Doc(p, act, now, "manual"))
    BY <1>9 DEF OperatorInsert
  <2>2. Doc(p, act, now, "manual") \in Document
    BY DEF Doc, Document, HistoryOK
  <2> QED  BY <1>9, <2>1, <2>2, ApplyInsert DEF OperatorInsert
<1>10. CASE \/ Predict \/ PredictorRead \/ PredictorUpdate \/ PredictorCrash
            \/ LateCommandLands \/ TrainerFinish \/ TrainerAbort
            \/ ResetStart \/ ResetHoneypot \/ ResetPlugin \/ ResetAbort
            \/ Tick \/ UNCHANGED vars
  <2>1. UNCHANGED <<agentActions, sent, redo, actuator, actuatorLogs>>
    BY <1>10 DEF Predict, PredictorRead, PredictorUpdate, PredictorCrash,
      LateCommandLands, TrainerFinish, TrainerAbort, ResetStart, ResetHoneypot,
      ResetPlugin, ResetAbort, Tick, vars, actuatorVars
  <2> QED  BY <2>1, ApplyUnchanged
<1> QED  BY <1>1, <1>2, <1>3, <1>4, <1>5, <1>6, <1>7, <1>8, <1>9, <1>10
         DEF Next, PredictorNext, ActuatorWork, ActuatorPollNothing

(* ApplyInv holds in every reachable state.                                *)
LEMMA ApplyInvariant == Spec => []ApplyInv
<1>1. TypeOK /\ ApplyInv /\ [Next]_vars => ApplyInv'
  BY ConstantsAssumption, ApplyStep
<1> QED  BY <1>1, ApplyInit, TypeCorrect, PTL DEF Spec

(* No log entry for a document the actuator could still take up again.     *)
THEOREM LoggedImpliesProcessed == Spec => []LoggedIsProcessed
<1>1. ApplyInv => LoggedIsProcessed
  BY DEF ApplyInv
<1> QED  BY <1>1, ApplyInvariant, PTL

(* A command goes out twice only when the actuator died holding it.        *)
THEOREM NoSecondCommand == Spec => []SentTwiceOnlyAfterCrash
<1>1. TypeOK /\ ApplyInv => SentTwiceOnlyAfterCrash
  BY DEF TypeOK, DocumentsOK, ApplyInv, SentTwiceOnlyAfterCrash
<1> QED  BY <1>1, ApplyInvariant, TypeCorrect, PTL

-----------------------------------------------------------------------------
(* The strengthening of the two invariants about decisions: the predictor  *)
(* inserts a document only when the newest one of the plugin says the      *)
(* opposite or is torn, and updates plugin_states to what the newest says. *)
DecisionInv ==
  /\ StatesTrackDecisions
  /\ DecisionsAlternate
  /\ predictor.pc = "insert" =>
       \A i \in NewestDecisions(Head(predictor.todo).plugin) :
          agentActions[i].action # Head(predictor.todo).action \/ i \in torn
  /\ predictor.pc = "update" =>
       \A i \in NewestDecisions(Head(predictor.todo).plugin) :
          agentActions[i].action = Head(predictor.todo).action

LEMMA DecisionInit == Init => DecisionInv
<1> SUFFICES ASSUME Init PROVE DecisionInv
  OBVIOUS
<1>1. Len(agentActions) = 0 /\ predictor.pc = "sleep"
  BY EmptySeq DEF Init, Asleep
<1> QED  BY <1>1 DEF DecisionInv, StatesTrackDecisions, DecisionsAlternate,
           NewestDecisions, IsNewestDecision

(* What a decision is does not depend on the processed mark.               *)
SameDecisions ==
  /\ Len(agentActions') = Len(agentActions)
  /\ \A i \in 1..Len(agentActions) :
       /\ agentActions'[i].plugin = agentActions[i].plugin
       /\ agentActions'[i].action = agentActions[i].action
       /\ agentActions'[i].source = agentActions[i].source

LEMMA SameNewest ==
  ASSUME SameDecisions, Len(agentActions) \in Nat, NEW p
  PROVE  NewestDecisions(p)' = NewestDecisions(p)
BY DEF SameDecisions, NewestDecisions, IsNewestDecision

LEMMA DecisionSame ==
  ASSUME DecisionInv, DocumentsOK, SameDecisions,
         UNCHANGED <<pluginStates, predictor, torn>>
  PROVE  DecisionInv'
<1>1. Len(agentActions) \in Nat
  BY LenProperties DEF DocumentsOK
<1>2. \A p : NewestDecisions(p)' = NewestDecisions(p)
  BY <1>1, SameNewest
<1>3. \A p : NewestDecisions(p) \subseteq 1..Len(agentActions)
  BY DEF NewestDecisions
<1>4. StatesTrackDecisions'
  BY <1>2, <1>3 DEF DecisionInv, StatesTrackDecisions, SameDecisions
<1>5. DecisionsAlternate'
  BY <1>1 DEF DecisionInv, DecisionsAlternate, SameDecisions
<1>6. predictor.pc = "insert" =>
       \A i \in NewestDecisions(Head(predictor.todo).plugin) :
          agentActions'[i].action # Head(predictor.todo).action \/ i \in torn
  BY <1>3 DEF DecisionInv, SameDecisions
<1>7. predictor.pc = "update" =>
       \A i \in NewestDecisions(Head(predictor.todo).plugin) :
          agentActions'[i].action = Head(predictor.todo).action
  BY <1>3 DEF DecisionInv, SameDecisions
<1> QED  BY <1>2, <1>4, <1>5, <1>6, <1>7 DEF DecisionInv

(* Another writer's document is no decision of the predictor.              *)
LEMMA DecisionOtherInsert ==
  ASSUME DecisionInv, DocumentsOK, NEW d \in Document, InsertDoc(d),
         d.source # "predictor",
         UNCHANGED <<pluginStates, predictor, torn>>
  PROVE  DecisionInv'
<1> DEFINE n == Len(agentActions)
<1>1. /\ n \in Nat /\ Len(agentActions') = n + 1
      /\ \A i \in 1..n : agentActions'[i] = agentActions[i]
      /\ agentActions'[n + 1] = d
  BY InsertDocType
<1>2. \A i \in 1..(n + 1) : i \in 1..n \/ i = n + 1
  BY <1>1
<1>3. \A p : NewestDecisions(p)' = NewestDecisions(p)
  <2> SUFFICES ASSUME NEW p PROVE NewestDecisions(p)' = NewestDecisions(p)
    OBVIOUS
  <2>1. \A i \in 1..n : IsNewestDecision(i, p)' <=> IsNewestDecision(i, p)
    BY <1>1 DEF IsNewestDecision
  <2>2. ASSUME NEW i \in NewestDecisions(p)' PROVE i \in NewestDecisions(p)
    <3>1. i \in 1..(n + 1) /\ IsNewestDecision(i, p)'
      BY <1>1, <2>2 DEF NewestDecisions
    <3>2. i # n + 1
      BY <1>1, <3>1 DEF IsNewestDecision
    <3>3. i \in 1..n
      BY <1>2, <3>1, <3>2
    <3> QED  BY <2>1, <3>1, <3>3 DEF NewestDecisions
  <2>3. ASSUME NEW i \in NewestDecisions(p) PROVE i \in NewestDecisions(p)'
    <3>1. i \in 1..n /\ IsNewestDecision(i, p)
      BY <2>3 DEF NewestDecisions
    <3>2. i \in 1..(n + 1)
      BY <1>1, <3>1
    <3> QED  BY <1>1, <2>1, <3>1, <3>2 DEF NewestDecisions
  <2> QED  BY <2>2, <2>3
<1>4. \A p : NewestDecisions(p) \subseteq 1..n
  BY DEF NewestDecisions
<1>5. StatesTrackDecisions'
  BY <1>1, <1>3, <1>4 DEF DecisionInv, StatesTrackDecisions
<1>6. DecisionsAlternate'
  BY <1>1, <1>2 DEF DecisionInv, DecisionsAlternate
<1> QED  BY <1>1, <1>3, <1>4, <1>5, <1>6 DEF DecisionInv

LEMMA DecisionStep ==
  ASSUME ConstantsAssumption, TypeOK, DecisionInv, [Next]_vars
  PROVE  DecisionInv'
<1> USE DEF TypeOK
<1> DEFINE n == Len(agentActions)
<1>0. n \in Nat
  BY LenProperties DEF DocumentsOK
<1>1. CASE Predict
  <2>1. predictor'.pc = "read"
    BY <1>1 DEF Predict
  <2>2. UNCHANGED <<agentActions, pluginStates, torn>> /\ predictor.pc = "sleep"
    BY <1>1 DEF Predict
  <2> QED  BY <2>1, <2>2 DEF DecisionInv, StatesTrackDecisions,
             DecisionsAlternate, NewestDecisions, IsNewestDecision
<1>2. CASE PredictorRead
  <2>1. UNCHANGED <<agentActions, pluginStates, torn>> /\ predictor.pc = "read"
    BY <1>2 DEF PredictorRead
  <2>2. CASE predictor' = [predictor EXCEPT !.pc = "insert"]
             /\ pluginStates[Head(predictor.todo).plugin]
                  # StatusOf(Head(predictor.todo).action)
    <3>1. predictor'.pc = "insert" /\ predictor'.todo = predictor.todo
      BY <2>2 DEF PredictorOK
    <3>2. Head(predictor.todo).plugin \in Plugins
      BY <2>1, TodoType DEF PredictorOK
    <3>3. \A i \in NewestDecisions(Head(predictor.todo).plugin) :
            agentActions[i].action # Head(predictor.todo).action \/ i \in torn
      BY <2>1, <2>2, <3>2 DEF DecisionInv, StatesTrackDecisions
    <3> QED  BY <2>1, <3>1, <3>3 DEF DecisionInv, StatesTrackDecisions,
               DecisionsAlternate, NewestDecisions, IsNewestDecision
  <2>3. CASE predictor' = AfterHead
    <3>1. predictor'.pc \in {"sleep", "read"}
      BY <2>3 DEF AfterHead, Asleep, PredictorOK
    <3> QED  BY <2>1, <3>1 DEF DecisionInv, StatesTrackDecisions,
               DecisionsAlternate, NewestDecisions, IsNewestDecision
  <2> QED  BY <1>2, <2>2, <2>3 DEF PredictorRead
<1>3. CASE PredictorInsert
  <2> DEFINE d == Head(predictor.todo)
             doc == Doc(d.plugin, d.action, predictor.cycle, "predictor")
  <2>1. doc \in Document /\ d.plugin \in Plugins
    BY <1>3, TodoType DEF PredictorInsert, Doc, Document, PredictorOK
  <2>2. /\ Len(agentActions') = n + 1
        /\ \A i \in 1..n : agentActions'[i] = agentActions[i]
        /\ agentActions'[n + 1] = doc
    BY <1>3, <2>1, InsertDocType DEF PredictorInsert
  <2>3. /\ doc.plugin = d.plugin /\ doc.action = d.action
        /\ doc.source = "predictor"
    BY DEF Doc
  <2> HIDE DEF doc
  <2>4. \A i \in 1..(n + 1) : i \in 1..n \/ i = n + 1
    BY <1>0
  <2>8. /\ UNCHANGED <<pluginStates, torn>> /\ predictor.pc = "insert"
        /\ predictor'.pc = "update" /\ predictor'.todo = predictor.todo
    BY <1>3 DEF PredictorInsert, PredictorOK
  <2>5. \A i \in NewestDecisions(d.plugin)' : i = n + 1
    <3> SUFFICES ASSUME NEW i \in NewestDecisions(d.plugin)', i # n + 1
                 PROVE  FALSE
      OBVIOUS
    <3>1. i \in 1..n /\ IsNewestDecision(i, d.plugin)'
      BY <2>2, <2>4 DEF NewestDecisions
    <3>2. n + 1 \in (i + 1)..Len(agentActions')
      BY <1>0, <2>2, <3>1
    <3> QED  BY <2>2, <2>3, <2>8, <3>1, <3>2 DEF IsNewestDecision
  <2>6. \A q : q # d.plugin => NewestDecisions(q)' \subseteq NewestDecisions(q)
    <3> SUFFICES ASSUME NEW q, q # d.plugin, NEW i \in NewestDecisions(q)'
                 PROVE  i \in NewestDecisions(q)
      OBVIOUS
    <3>1. i \in 1..(n + 1) /\ IsNewestDecision(i, q)'
      BY <2>2 DEF NewestDecisions
    <3>2. i # n + 1
      BY <2>2, <2>3, <3>1 DEF IsNewestDecision
    <3>3. i \in 1..n
      BY <2>4, <3>1, <3>2
    <3> QED  BY <1>0, <2>2, <3>1, <3>3 DEF NewestDecisions, IsNewestDecision
  <2>7. \A q : NewestDecisions(q) \subseteq 1..n
    BY DEF NewestDecisions
  <2>9. StatesTrackDecisions'
    BY <2>2, <2>6, <2>7, <2>8 DEF DecisionInv, StatesTrackDecisions
  <2>10. DecisionsAlternate'
    <3> SUFFICES ASSUME NEW i \in 1..(n + 1), NEW j \in 1..(n + 1), i < j,
                        agentActions'[i].plugin = agentActions'[j].plugin,
                        agentActions'[i].source = "predictor",
                        agentActions'[j].source = "predictor",
                        \A k \in (i + 1)..(j - 1) :
                          ~(/\ agentActions'[k].plugin = agentActions'[i].plugin
                            /\ agentActions'[k].source = "predictor")
                 PROVE  agentActions'[i].action # agentActions'[j].action
                        \/ i \in torn
      BY <2>2, <2>8 DEF DecisionsAlternate
    <3>1. i \in 1..n
      BY <1>0
    <3>2. CASE j \in 1..n
      <4>1. \A k \in (i + 1)..(j - 1) : agentActions'[k] = agentActions[k]
        BY <1>0, <2>2, <3>1, <3>2
      <4>2. agentActions'[i] = agentActions[i]
            /\ agentActions'[j] = agentActions[j]
        BY <2>2, <3>1, <3>2
      <4>3. \A k \in (i + 1)..(j - 1) :
              ~(/\ agentActions[k].plugin = agentActions[i].plugin
                /\ agentActions[k].source = "predictor")
        BY <4>1, <4>2
      <4> QED  BY <3>1, <3>2, <4>2, <4>3 DEF DecisionInv, DecisionsAlternate
    <3>3. CASE j = n + 1
      <4>1. \A k \in (i + 1)..n : agentActions'[k] = agentActions[k]
        BY <1>0, <2>2, <3>1
      <4>2. agentActions[i].plugin = d.plugin
            /\ agentActions[i].source = "predictor"
        BY <2>2, <2>3, <3>1, <3>3
      <4>3. \A k \in (i + 1)..n : ~(/\ agentActions[k].plugin = d.plugin
                                    /\ agentActions[k].source = "predictor")
        BY <1>0, <2>2, <3>1, <3>3, <4>1, <4>2
      <4>4. i \in NewestDecisions(d.plugin)
        BY <3>1, <4>2, <4>3 DEF NewestDecisions, IsNewestDecision
      <4> QED  BY <2>2, <2>3, <2>8, <3>1, <3>3, <4>4 DEF DecisionInv
    <3> QED  BY <2>4, <3>2, <3>3
  <2> QED  BY <2>2, <2>3, <2>5, <2>8, <2>9, <2>10 DEF DecisionInv
<1>4. CASE PredictorUpdate
  <2> DEFINE d == Head(predictor.todo)
  <2>1. d.plugin \in Plugins
    BY <1>4, TodoType DEF PredictorUpdate, PredictorOK
  <2>2. predictor'.pc \in {"sleep", "read"}
    BY <1>4 DEF PredictorUpdate, AfterHead, Asleep, PredictorOK
  <2>3. /\ UNCHANGED <<agentActions, torn>> /\ predictor.pc = "update"
        /\ pluginStates' = [pluginStates EXCEPT ![d.plugin] = StatusOf(d.action)]
    BY <1>4 DEF PredictorUpdate
  <2>4. \A p : NewestDecisions(p)' = NewestDecisions(p)
    BY <2>3 DEF NewestDecisions, IsNewestDecision
  <2>5. StatesTrackDecisions'
    <3> SUFFICES ASSUME NEW p \in Plugins, NEW i \in NewestDecisions(p)
                 PROVE  \/ pluginStates'[p] = StatusOf(agentActions[i].action)
                        \/ i \in torn
      BY <2>3, <2>4 DEF StatesTrackDecisions
    <3>1. CASE p = d.plugin
      BY <2>1, <2>3, <3>1 DEF DecisionInv, PredictorOK
    <3>2. CASE p # d.plugin
      BY <2>1, <2>3, <3>2 DEF DecisionInv, StatesTrackDecisions, PredictorOK
    <3> QED  BY <3>1, <3>2
  <2>6. DecisionsAlternate'
    BY <2>3 DEF DecisionInv, DecisionsAlternate
  <2> QED  BY <2>2, <2>5, <2>6 DEF DecisionInv
<1>5. CASE PredictorCrash
  <2>1. /\ UNCHANGED <<agentActions, pluginStates>> /\ torn \subseteq torn'
        /\ predictor'.pc = "sleep"
        /\ predictor.pc = "update" =>
             NewestDecisions(Head(predictor.todo).plugin) \subseteq torn'
    BY <1>5 DEF PredictorCrash, Asleep
  <2>2. \A p : NewestDecisions(p)' = NewestDecisions(p)
    BY <2>1 DEF NewestDecisions, IsNewestDecision
  <2>3. StatesTrackDecisions'
    BY <2>1, <2>2 DEF DecisionInv, StatesTrackDecisions
  <2>4. DecisionsAlternate'
    BY <2>1 DEF DecisionInv, DecisionsAlternate
  <2> QED  BY <2>1, <2>3, <2>4 DEF DecisionInv
<1>6. CASE ResetPlugin
  <2> DEFINE p == Head(reset)
  <2>1. /\ p \in Plugins /\ UNCHANGED <<agentActions, predictor>>
        /\ pluginStates' = [pluginStates EXCEPT ![p] = "enabled"]
        /\ torn \subseteq torn'
        /\ pluginStates[p] = "enabled" \/ NewestDecisions(p) \subseteq torn'
    BY <1>6 DEF ResetPlugin
  <2>2. \A q : NewestDecisions(q)' = NewestDecisions(q)
    BY <2>1 DEF NewestDecisions, IsNewestDecision
  <2>3. \A q \in Plugins : q # p \/ pluginStates[p] = "enabled" =>
          pluginStates'[q] = pluginStates[q]
    BY <2>1 DEF PredictorOK
  <2>4. StatesTrackDecisions'
    BY <2>1, <2>2, <2>3 DEF DecisionInv, StatesTrackDecisions
  <2>5. DecisionsAlternate'
    BY <2>1 DEF DecisionInv, DecisionsAlternate
  <2> QED  BY <2>1, <2>2, <2>4, <2>5 DEF DecisionInv
<1>7. CASE ActuatorMark
  <2>1. actuator.doc \in 1..n
    BY <1>7 DEF ActuatorMark, ActuatorOK
  <2>2. agentActions[actuator.doc] \in Document
    BY <2>1, ElementOfSeq DEF DocumentsOK
  <2>3. SameDecisions
    <3> DEFINE e == [agentActions[actuator.doc] EXCEPT !.processed = TRUE]
    <3>1. /\ e.plugin = agentActions[actuator.doc].plugin
          /\ e.action = agentActions[actuator.doc].action
          /\ e.source = agentActions[actuator.doc].source
      BY <2>2 DEF Document
    <3>2. agentActions' = [agentActions EXCEPT ![actuator.doc] = e]
      BY <1>7 DEF ActuatorMark
    <3> HIDE DEF e
    <3>3. /\ Len(agentActions') = n
          /\ \A i \in 1..n : agentActions'[i] = IF i = actuator.doc THEN e
                                                ELSE agentActions[i]
      BY <2>1, <3>2 DEF DocumentsOK
    <3> QED  BY <3>1, <3>3 DEF SameDecisions
  <2> QED  BY <1>7, <2>3, DecisionSame DEF ActuatorMark, predictorVars
<1>8. CASE TrainerInsert
  <2> DEFINE d == Head(trainer.todo)
             doc == Doc(d.plugin, d.action, trainer.cycle, "train_sb3")
  <2>1. doc \in Document /\ doc.source = "train_sb3"
    BY <1>8, TodoType DEF TrainerInsert, Doc, Document, WritersOK
  <2> HIDE DEF doc
  <2>2. UNCHANGED <<pluginStates, predictor, torn>>
    BY <1>8 DEF TrainerInsert, predictorVars
  <2>3. InsertDoc(doc)
    BY <1>8 DEF TrainerInsert, doc
  <2> QED  BY <2>1, <2>2, <2>3, DecisionOtherInsert
<1>9. CASE OperatorInsert
  <2>1. PICK p \in ManualPlugins, act \in Actions :
          InsertDoc(Doc(p, act, now, "manual"))
    BY <1>9 DEF OperatorInsert
  <2>2. Doc(p, act, now, "manual") \in Document
        /\ Doc(p, act, now, "manual").source = "manual"
    BY DEF Doc, Document, HistoryOK
  <2>3. UNCHANGED <<pluginStates, predictor, torn>>
    BY <1>9 DEF OperatorInsert, predictorVars
  <2> QED  BY <2>1, <2>2, <2>3, DecisionOtherInsert
<1>10. CASE \/ ActuatorPoll \/ ActuatorRefuse \/ ActuatorSend \/ ActuatorLog
            \/ ActuatorCrash \/ LateCommandLands
            \/ TrainerFinish \/ TrainerAbort
            \/ ResetStart \/ ResetHoneypot \/ ResetAbort
            \/ Tick \/ UNCHANGED vars
  <2>1. UNCHANGED <<agentActions, pluginStates, predictor, torn>>
    BY <1>10 DEF ActuatorPoll, ActuatorRefuse, ActuatorSend, ActuatorLog,
      ActuatorCrash, LateCommandLands, TrainerFinish, TrainerAbort, ResetStart,
      ResetHoneypot, ResetAbort, Tick, vars, predictorVars
  <2> QED  BY <2>1, DecisionSame DEF SameDecisions
<1> QED  BY <1>1, <1>2, <1>3, <1>4, <1>5, <1>6, <1>7, <1>8, <1>9, <1>10
         DEF Next, PredictorNext, ActuatorWork, ActuatorPollNothing

(* DecisionInv holds in every reachable state.                             *)
LEMMA DecisionInvariant == Spec => []DecisionInv
<1>1. TypeOK /\ DecisionInv /\ [Next]_vars => DecisionInv'
  BY ConstantsAssumption, DecisionStep
<1> QED  BY <1>1, DecisionInit, TypeCorrect, PTL DEF Spec

(* plugin_states is what the newest decision says, but in the gap and for  *)
(* torn documents.                                                         *)
THEOREM PluginStatesFollow == Spec => []StatesTrackDecisions
<1>1. DecisionInv => StatesTrackDecisions
  BY DEF DecisionInv
<1> QED  BY <1>1, DecisionInvariant, PTL

(* Consecutive decisions for a plugin are opposite, but for torn ones.     *)
THEOREM OppositeDecisions == Spec => []DecisionsAlternate
<1>1. DecisionInv => DecisionsAlternate
  BY DEF DecisionInv
<1> QED  BY <1>1, DecisionInvariant, PTL

-----------------------------------------------------------------------------
(* Why plugin_states and the honeypots agree when decisions are applied in *)
(* order: a honeypot of one plugin follows the last logged document of the *)
(* plugin, every processed document has been logged, and plugin_states     *)
(* follows the newest document.                                            *)

(* Nothing failed, and nobody but the predictor wrote a document.          *)
Undisturbed == NothingWentWrong /\ OnlyThePredictor

(* Nothing is then left of a reset or of a command that timed out, and no  *)
(* document has been left behind by plugin_states.                         *)
Untroubled == torn = {} /\ reset = << >> /\ late = {}

(* The documents are for plugins the agent decides about.                  *)
OwnPlugins ==
  \A i \in 1..Len(agentActions) :
    agentActions[i].plugin \in Plugins /\ agentActions[i].action \in Actions

(* A processed document has been logged, or is about to be.                *)
ProcessedIsLogged ==
  \A i \in 1..Len(agentActions) :
    agentActions[i].processed =>
      \/ actuator.pc = "log" /\ actuator.doc = i
      \/ \E k \in 1..Len(actuatorLogs) : actuatorLogs[k].action_id = i

(* plugin_states starts out enabled and is updated after the first         *)
(* decision about a plugin.                                                *)
DecidedFirst ==
  /\ \A p \in Plugins :
       \/ NewestDecisions(p) # {}
       \/ /\ pluginStates[p] = "enabled"
          /\ \A i \in 1..Len(agentActions) : agentActions[i].plugin # p
  /\ predictor.pc = "update" =>
       NewestDecisions(Head(predictor.todo).plugin) # {}

LoggedDoc(k) == agentActions[actuatorLogs[k].action_id]

IsLastLogged(k, p) ==
  /\ k \in 1..Len(actuatorLogs) /\ LoggedDoc(k).plugin = p
  /\ \A m \in (k + 1)..Len(actuatorLogs) : LoggedDoc(m).plugin # p

FollowsLog(p) ==
  \/ \E k \in 1..Len(actuatorLogs) :
       /\ IsLastLogged(k, p)
       /\ switch[HoneypotOf(p)] = StatusOf(LoggedDoc(k).action)
  \/ /\ \A k \in 1..Len(actuatorLogs) : LoggedDoc(k).plugin # p
     /\ switch[HoneypotOf(p)] = "enabled"

InHand(p) == actuator.pc \in {"mark", "log"} /\ Held.plugin = p

(* The honeypot of one plugin is as the last document sent for it says.    *)
SwitchFollows ==
  \A p \in Plugins :
    ~Shared(p) =>
      IF InHand(p) THEN switch[HoneypotOf(p)] = StatusOf(Held.action)
                   ELSE FollowsLog(p)

Agreeing ==
  Untroubled /\ OwnPlugins /\ ProcessedIsLogged /\ DecidedFirst /\ SwitchFollows

AgreeInv == Undisturbed => Agreeing

-----------------------------------------------------------------------------
(* The agent's plugins are ones whose honeypot exists and takes them.      *)
LEMMA PluginNames ==
  ASSUME ConstantsAssumption
  PROVE  Plugins \subseteq {"ssh", "ftp", "http", "telnet"}
<1> DEFINE Names == {"ssh", "ftp", "http", "telnet"}
<1>1. PluginOrder \in Seq(Names)
  BY DEF ConstantsAssumption
<1> HIDE DEF Names
<1>2. \A i \in 1..Len(PluginOrder) : PluginOrder[i] \in Names
  BY <1>1, ElementOfSeq
<1> QED  BY <1>2 DEF Plugins, Names

LEMMA HoneypotsOfPlugins ==
  /\ HoneypotOf("ssh") = "cowrie" /\ HoneypotOf("telnet") = "cowrie"
  /\ HoneypotOf("ftp") = "honeypy" /\ HoneypotOf("http") = "conpot"
<1>1. \A h \in Honeypots : ("ssh" \in RoutedPlugins(h)) <=> h = "cowrie"
  BY DEF Honeypots, RoutedPlugins
<1>2. \A h \in Honeypots : ("telnet" \in RoutedPlugins(h)) <=> h = "cowrie"
  BY DEF Honeypots, RoutedPlugins
<1>3. \A h \in Honeypots : ("ftp" \in RoutedPlugins(h)) <=> h = "honeypy"
  BY DEF Honeypots, RoutedPlugins
<1>4. \A h \in Honeypots : ("http" \in RoutedPlugins(h)) <=> h = "conpot"
  BY DEF Honeypots, RoutedPlugins
<1>5. {"cowrie", "honeypy", "conpot"} \subseteq Honeypots
  BY DEF Honeypots
<1>6. HoneypotOf("ssh") = "cowrie"
  BY <1>1, <1>5 DEF HoneypotOf
<1>7. HoneypotOf("telnet") = "cowrie"
  BY <1>2, <1>5 DEF HoneypotOf
<1>8. HoneypotOf("ftp") = "honeypy"
  BY <1>3, <1>5 DEF HoneypotOf
<1>9. HoneypotOf("http") = "conpot"
  BY <1>4, <1>5 DEF HoneypotOf
<1> QED  BY <1>6, <1>7, <1>8, <1>9

LEMMA OwnPluginsAreSent ==
  ASSUME ConstantsAssumption, NEW p \in Plugins, NEW act \in Actions
  PROVE  HandlerSends(p, act) /\ HoneypotOf(p) \in Honeypots
<1>1. p \in {"ssh", "ftp", "http", "telnet"}
  BY PluginNames
<1>2. HoneypotOf(p) \in {"cowrie", "honeypy", "conpot"}
  BY <1>1, HoneypotsOfPlugins
<1>3. p \in AcceptedPlugins(HoneypotOf(p))
  BY <1>1, HoneypotsOfPlugins
  DEF AcceptedPlugins, CowriePlugins, HoneypyPlugins, ConpotPlugins
<1>4. act \in AcceptedActions(HoneypotOf(p))
  BY DEF AcceptedActions, Actions
<1> QED  BY <1>2, <1>3, <1>4 DEF HandlerSends, Honeypots

-----------------------------------------------------------------------------
(* Steps that leave the documents, what has been logged and sent, and      *)
(* plugin_states alone, and start no update.                               *)
LEMMA AgreeSame ==
  ASSUME Agreeing,
         UNCHANGED <<agentActions, actuatorLogs, pluginStates, switch, late,
                     torn, reset, actuator>>,
         predictor' = predictor \/ predictor'.pc # "update"
  PROVE  Agreeing'
<1> USE DEF Agreeing
<1>1. \A p : NewestDecisions(p)' = NewestDecisions(p)
  BY DEF NewestDecisions, IsNewestDecision
<1>2. Untroubled' /\ OwnPlugins' /\ ProcessedIsLogged'
  BY DEF Untroubled, OwnPlugins, ProcessedIsLogged
<1>3. DecidedFirst'
  BY <1>1 DEF DecidedFirst
<1>4. \A p : FollowsLog(p)' <=> FollowsLog(p)
  BY DEF FollowsLog, IsLastLogged, LoggedDoc
<1>5. SwitchFollows'
  BY <1>4 DEF SwitchFollows, InHand, Held
<1> QED  BY <1>2, <1>3, <1>5

(* The predictor inserts a decision: the newest of its plugin.             *)
LEMMA AgreeInsert ==
  ASSUME TypeOK, Agreeing, PredictorInsert, OnlyThePredictor
  PROVE  Agreeing'
<1> USE DEF Agreeing, TypeOK
<1> DEFINE n == Len(agentActions)
           d == Head(predictor.todo)
           doc == Doc(d.plugin, d.action, predictor.cycle, "predictor")
<1>1. d \in [plugin : Plugins, action : Actions]
  BY TodoType DEF PredictorInsert, PredictorOK
<1>2. doc \in Document /\ InsertDoc(doc)
  BY <1>1 DEF PredictorInsert, PredictorOK, Doc, Document
<1>3. doc.plugin = d.plugin /\ doc.action = d.action /\ ~doc.processed
      /\ doc.source = "predictor"
  BY DEF Doc
<1> HIDE DEF doc
<1>4. /\ n \in Nat /\ Len(agentActions') = n + 1
      /\ \A i \in 1..n : agentActions'[i] = agentActions[i]
      /\ agentActions'[n + 1] = doc
  BY <1>2, InsertDocType
<1>5. \A i \in 1..(n + 1) : i \in 1..n \/ i = n + 1
  BY <1>4
<1>6. UNCHANGED <<actuatorLogs, pluginStates, switch, late, torn, reset,
                  actuator>>
      /\ predictor' = [predictor EXCEPT !.pc = "update"]
  BY DEF PredictorInsert, resetVars, hostVars
<1>7. predictor'.todo = predictor.todo
  BY <1>6 DEF PredictorOK
<1>8. Untroubled'
  BY <1>6 DEF Untroubled
<1>9. OwnPlugins'
  BY <1>1, <1>3, <1>4, <1>5 DEF OwnPlugins
<1>10. ProcessedIsLogged'
  BY <1>3, <1>4, <1>5, <1>6 DEF ProcessedIsLogged
<1> PICK q \in Plugins : q = d.plugin
  BY <1>1
<1>11. n + 1 \in NewestDecisions(q)'
  BY <1>3, <1>4 DEF NewestDecisions, IsNewestDecision
<1>12. \A p : p # q => NewestDecisions(p) \subseteq NewestDecisions(p)'
  <2> SUFFICES ASSUME NEW p, p # q, NEW i \in 1..n,
                      IsNewestDecision(i, p)
               PROVE  IsNewestDecision(i, p)'
    BY <1>4 DEF NewestDecisions, IsNewestDecision
  <2>1. agentActions'[i] = agentActions[i] /\ i \in 1..(n + 1)
    BY <1>4
  <2>2. ASSUME NEW j \in (i + 1)..(n + 1),
               agentActions'[j].plugin = p, agentActions'[j].source = "predictor"
        PROVE  FALSE
    <3>1. j # n + 1
      BY <1>3, <1>4, <2>2
    <3>2. j \in (i + 1)..n /\ agentActions'[j] = agentActions[j]
      BY <1>4, <2>2, <3>1
    <3> QED  BY <2>2, <3>2 DEF IsNewestDecision
  <2> QED  BY <1>4, <2>1, <2>2 DEF IsNewestDecision
<1>13. DecidedFirst'
  <2>1. ASSUME NEW p \in Plugins
        PROVE  \/ NewestDecisions(p)' # {}
               \/ /\ pluginStates'[p] = "enabled"
                  /\ \A i \in 1..(n + 1) : agentActions'[i].plugin # p
    <3>1. CASE p = q
      BY <1>11, <3>1
    <3>2. CASE p # q
      BY <1>3, <1>4, <1>5, <1>6, <1>12, <3>2 DEF DecidedFirst
    <3> QED  BY <3>1, <3>2
  <2> QED  BY <1>4, <1>7, <1>11, <2>1 DEF DecidedFirst
<1>14. \A k \in 1..Len(actuatorLogs) : LoggedDoc(k)' = LoggedDoc(k)
  BY <1>4, <1>6, LogIds DEF LoggedDoc
<1>15. SwitchFollows'
  <2>1. \A p : FollowsLog(p) => FollowsLog(p)'
    <3> SUFFICES ASSUME NEW p, FollowsLog(p) PROVE FollowsLog(p)'
      OBVIOUS
    <3>1. \A k : IsLastLogged(k, p) => IsLastLogged(k, p)'
      <4> SUFFICES ASSUME NEW k, IsLastLogged(k, p) PROVE IsLastLogged(k, p)'
        OBVIOUS
      <4>1. Len(actuatorLogs) \in Nat
        BY LenProperties DEF ActuatorOK
      <4>2. \A m \in (k + 1)..Len(actuatorLogs) : m \in 1..Len(actuatorLogs)
        BY <4>1 DEF IsLastLogged
      <4> QED  BY <1>6, <1>14, <4>2 DEF IsLastLogged
    <3> QED  BY <1>6, <1>14, <3>1 DEF FollowsLog
  <2>2. actuator.pc # "idle" => Held' = Held
    BY <1>4, <1>6 DEF Held, ActuatorOK
  <2> QED  BY <1>6, <2>1, <2>2 DEF SwitchFollows, InHand
<1> QED  BY <1>8, <1>9, <1>10, <1>13, <1>15

(* plugin_states is written for a plugin that has a decision.              *)
LEMMA AgreeUpdate ==
  ASSUME TypeOK, Agreeing, PredictorUpdate
  PROVE  Agreeing'
<1> USE DEF Agreeing, TypeOK
<1> DEFINE d == Head(predictor.todo)
<1>1. UNCHANGED <<agentActions, actuatorLogs, switch, late, torn, reset,
                  actuator>>
  BY DEF PredictorUpdate, actuatorVars, resetVars, hostVars
<1>2. /\ pluginStates' = [pluginStates EXCEPT ![d.plugin] = StatusOf(d.action)]
      /\ predictor.pc = "update" /\ predictor' = AfterHead
  BY DEF PredictorUpdate
<1>3. predictor'.pc # "update"
  BY <1>2 DEF AfterHead, Asleep, PredictorOK
<1>4. \A p : NewestDecisions(p)' = NewestDecisions(p)
  BY <1>1 DEF NewestDecisions, IsNewestDecision
<1>5. Untroubled' /\ OwnPlugins' /\ ProcessedIsLogged'
  BY <1>1 DEF Untroubled, OwnPlugins, ProcessedIsLogged
<1>6. \A p \in Plugins : p # d.plugin => pluginStates'[p] = pluginStates[p]
  BY <1>2 DEF PredictorOK
<1>7. DecidedFirst'
  BY <1>1, <1>2, <1>3, <1>4, <1>6 DEF DecidedFirst
<1>8. \A p : FollowsLog(p)' <=> FollowsLog(p)
  BY <1>1 DEF FollowsLog, IsLastLogged, LoggedDoc
<1>9. SwitchFollows'
  BY <1>1, <1>8 DEF SwitchFollows, InHand, Held
<1> QED  BY <1>5, <1>7, <1>9

-----------------------------------------------------------------------------
(* The actuator takes up a document: it has sent nothing for it yet.       *)
LEMMA AgreePoll ==
  ASSUME TypeOK, Agreeing, ActuatorPoll
  PROVE  Agreeing'
<1> USE DEF Agreeing
<1>1. UNCHANGED <<agentActions, actuatorLogs, pluginStates, predictor, switch,
                  late, torn, reset>>
  BY DEF ActuatorPoll, predictorVars, resetVars, hostVars
<1>2. actuator.pc = "idle" /\ actuator'.pc \in {"idle", "exec"}
  BY DEF ActuatorPoll, Idle
<1>3. \A p : NewestDecisions(p)' = NewestDecisions(p)
  BY <1>1 DEF NewestDecisions, IsNewestDecision
<1>4. Untroubled' /\ OwnPlugins' /\ DecidedFirst'
  BY <1>1, <1>3 DEF Untroubled, OwnPlugins, DecidedFirst
<1>5. ProcessedIsLogged'
  BY <1>1, <1>2 DEF ProcessedIsLogged
<1>6. \A p : FollowsLog(p)' <=> FollowsLog(p)
  BY <1>1 DEF FollowsLog, IsLastLogged, LoggedDoc
<1>7. SwitchFollows'
  BY <1>1, <1>2, <1>6 DEF SwitchFollows, InHand
<1> QED  BY <1>4, <1>5, <1>7

(* The command is sent and, as nothing fails, it lands: on the honeypot of *)
(* its plugin and on no other plugin's.                                    *)
LEMMA AgreeSend ==
  ASSUME ConstantsAssumption, TypeOK, Agreeing, ActuatorSend,
         faults = 0, faults' = 0
  PROVE  Agreeing'
<1> USE DEF Agreeing, TypeOK
<1>1. UNCHANGED <<agentActions, actuatorLogs, pluginStates, predictor, torn,
                  reset>>
      /\ actuator.pc = "exec"
  BY DEF ActuatorSend, predictorVars, resetVars
<1>2. PICK lands \in {"now", "late", "never"}, ok \in BOOLEAN :
        /\ IF lands = "now" /\ (ok \/ HoneypotOf(Held.plugin) = "honeypy")
           THEN faults' = faults
           ELSE faults < MaxFaults /\ faults' = faults + 1
        /\ actuator' = [actuator EXCEPT !.pc = "mark", !.success = ok]
        /\ switch' = IF lands = "now"
                     THEN [switch EXCEPT ![HoneypotOf(Held.plugin)] =
                                           StatusOf(Held.action)]
                     ELSE switch
        /\ late' = IF lands = "late"
                   THEN late \cup {<<actuator.doc, sent[actuator.doc]>>}
                   ELSE late
  BY DEF ActuatorSend
<1>3. lands = "now"
  BY <1>2
<1>4. late' = late
      /\ switch' = [switch EXCEPT ![HoneypotOf(Held.plugin)] =
                                    StatusOf(Held.action)]
  BY <1>2, <1>3
<1>5. actuator'.pc = "mark" /\ actuator'.doc = actuator.doc
  BY <1>2 DEF ActuatorOK
<1>6. actuator.doc \in 1..Len(agentActions)
  BY <1>1 DEF ActuatorOK
<1>7. Held.plugin \in Plugins /\ Held.action \in Actions /\ Held' = Held
  BY <1>1, <1>5, <1>6 DEF Held, OwnPlugins
<1>8. HoneypotOf(Held.plugin) \in Honeypots
  BY <1>7, OwnPluginsAreSent
<1>9. \A p : NewestDecisions(p)' = NewestDecisions(p)
  BY <1>1 DEF NewestDecisions, IsNewestDecision
<1>10. Untroubled' /\ OwnPlugins' /\ DecidedFirst'
  BY <1>1, <1>4, <1>9 DEF Untroubled, OwnPlugins, DecidedFirst
<1>11. ProcessedIsLogged'
  BY <1>1 DEF ProcessedIsLogged
<1>12. SwitchFollows'
  <2> SUFFICES ASSUME NEW p \in Plugins, ~Shared(p)
               PROVE  IF InHand(p)'
                      THEN switch'[HoneypotOf(p)] = StatusOf(Held.action)
                      ELSE FollowsLog(p)'
    BY <1>7 DEF SwitchFollows
  <2>1. CASE p = Held.plugin
    <3>1. InHand(p)'
      BY <1>5, <1>7, <2>1 DEF InHand
    <3>2. switch'[HoneypotOf(p)] = StatusOf(Held.action)
      BY <1>4, <1>8, <2>1 DEF HoneypotsOK
    <3> QED  BY <3>1, <3>2
  <2>2. CASE p # Held.plugin
    <3>1. HoneypotOf(p) # HoneypotOf(Held.plugin)
      BY <1>7, <2>2 DEF Shared
    <3>2. switch'[HoneypotOf(p)] = switch[HoneypotOf(p)]
      <4>1. HoneypotOf(p) \in Honeypots
        BY <1>7, OwnPluginsAreSent
      <4> QED  BY <1>4, <3>1, <4>1 DEF HoneypotsOK
    <3>3. ~InHand(p) /\ ~InHand(p)'
      BY <1>1, <1>7, <2>2 DEF InHand
    <3>4. FollowsLog(p)
      BY <3>3 DEF SwitchFollows
    <3>5. FollowsLog(p)'
      BY <1>1, <3>2, <3>4 DEF FollowsLog, IsLastLogged, LoggedDoc
    <3> QED  BY <3>3, <3>5
  <2> QED  BY <2>1, <2>2
<1> QED  BY <1>10, <1>11, <1>12

(* The document is marked, and the log entry is next.                      *)
LEMMA AgreeMark ==
  ASSUME TypeOK, Agreeing, ActuatorMark
  PROVE  Agreeing'
<1> USE DEF Agreeing, TypeOK
<1> DEFINE c == actuator.doc
           n == Len(agentActions)
           d == [agentActions[c] EXCEPT !.processed = TRUE]
<1>1. UNCHANGED <<actuatorLogs, pluginStates, predictor, switch, late, torn,
                  reset>>
      /\ actuator.pc = "mark"
      /\ agentActions' = [agentActions EXCEPT ![c].processed = TRUE]
      /\ actuator' = [actuator EXCEPT !.pc = "log"]
  BY DEF ActuatorMark, predictorVars, resetVars, hostVars
<1>2. c \in 1..n /\ n \in Nat
  BY <1>1, LenProperties DEF ActuatorOK, DocumentsOK
<1>3. actuator'.pc = "log" /\ actuator'.doc = c
  BY <1>1 DEF ActuatorOK
<1>4. agentActions[c] \in Document
  BY <1>2, ElementOfSeq DEF DocumentsOK
<1>5. /\ d \in Document
      /\ d.plugin = agentActions[c].plugin /\ d.action = agentActions[c].action
      /\ d.source = agentActions[c].source
  BY <1>4 DEF Document
<1>6. agentActions' = [agentActions EXCEPT ![c] = d]
  BY <1>1, <1>2
<1> HIDE DEF d
<1>7. /\ Len(agentActions') = n /\ agentActions'[c] = d
      /\ \A i \in 1..n : i # c => agentActions'[i] = agentActions[i]
  BY <1>2, <1>5, <1>6, ExceptSeq DEF DocumentsOK
<1>8. \A i \in 1..n : /\ agentActions'[i].plugin = agentActions[i].plugin
                      /\ agentActions'[i].action = agentActions[i].action
                      /\ agentActions'[i].source = agentActions[i].source
  BY <1>5, <1>7
<1>9. \A p : NewestDecisions(p)' = NewestDecisions(p)
  BY <1>2, <1>7, <1>8, SameNewest DEF SameDecisions
<1>10. Untroubled' /\ OwnPlugins'
  BY <1>1, <1>7, <1>8 DEF Untroubled, OwnPlugins
<1>11. DecidedFirst'
  BY <1>1, <1>7, <1>8, <1>9 DEF DecidedFirst
<1>12. ProcessedIsLogged'
  BY <1>1, <1>3, <1>7 DEF ProcessedIsLogged
<1>13. \A k \in 1..Len(actuatorLogs) :
         /\ LoggedDoc(k)'.plugin = LoggedDoc(k).plugin
         /\ LoggedDoc(k)'.action = LoggedDoc(k).action
  BY <1>1, <1>8, LogIds DEF LoggedDoc
<1>14. \A p : FollowsLog(p) => FollowsLog(p)'
  <2> SUFFICES ASSUME NEW p, FollowsLog(p) PROVE FollowsLog(p)'
    OBVIOUS
  <2>1. \A k : IsLastLogged(k, p) => IsLastLogged(k, p)'
    <3> SUFFICES ASSUME NEW k, IsLastLogged(k, p) PROVE IsLastLogged(k, p)'
      OBVIOUS
    <3>1. Len(actuatorLogs) \in Nat
      BY LenProperties DEF ActuatorOK
    <3>2. \A m \in (k + 1)..Len(actuatorLogs) : m \in 1..Len(actuatorLogs)
      BY <3>1 DEF IsLastLogged
    <3> QED  BY <1>1, <1>13, <3>2 DEF IsLastLogged
  <2> QED  BY <1>1, <1>13, <2>1 DEF FollowsLog
<1>15. SwitchFollows'
  BY <1>1, <1>2, <1>3, <1>8, <1>14 DEF SwitchFollows, InHand, Held
<1> QED  BY <1>10, <1>11, <1>12, <1>15

(* The log entry makes the document the last one logged for its plugin.    *)
LEMMA AgreeLog ==
  ASSUME TypeOK, Agreeing, ActuatorLog
  PROVE  Agreeing'
<1> USE DEF Agreeing, TypeOK
<1> DEFINE c == actuator.doc
           e == [action_id |-> c, success |-> actuator.success]
           Entry == [action_id : 1..Len(agentActions), success : BOOLEAN]
<1> PICK n \in Nat : n = Len(actuatorLogs)
  BY LenProperties DEF ActuatorOK
<1>1. UNCHANGED <<agentActions, pluginStates, predictor, switch, late, torn,
                  reset>>
      /\ actuator.pc = "log" /\ actuator' = Idle
      /\ actuatorLogs' = Append(actuatorLogs, e)
  BY DEF ActuatorLog, predictorVars, resetVars, hostVars
<1>2. c \in 1..Len(agentActions)
  BY <1>1 DEF ActuatorOK
<1>3. actuatorLogs \in Seq(Entry) /\ e \in Entry /\ e.action_id = c
  BY <1>2 DEF ActuatorOK
<1> HIDE DEF e, Entry
<1>4. /\ n \in Nat /\ Len(actuatorLogs') = n + 1 /\ actuatorLogs'[n + 1] = e
      /\ \A k \in 1..n : actuatorLogs'[k] = actuatorLogs[k]
  BY <1>1, <1>3, LenProperties, AppendProperties
<1>5. actuator'.pc = "idle"
  BY <1>1 DEF Idle
<1>6. \A p : NewestDecisions(p)' = NewestDecisions(p)
  BY <1>1 DEF NewestDecisions, IsNewestDecision
<1>7. Untroubled' /\ OwnPlugins' /\ DecidedFirst'
  BY <1>1, <1>6 DEF Untroubled, OwnPlugins, DecidedFirst
<1>8. ProcessedIsLogged'
  <2> SUFFICES ASSUME NEW i \in 1..Len(agentActions), agentActions[i].processed
               PROVE  \E k \in 1..(n + 1) : actuatorLogs'[k].action_id = i
    BY <1>1, <1>4 DEF ProcessedIsLogged
  <2>1. CASE i = c
    BY <1>3, <1>4, <2>1
  <2>2. CASE i # c
    BY <1>4, <2>2 DEF ProcessedIsLogged
  <2> QED  BY <2>1, <2>2
<1>9. /\ \A k \in 1..n : LoggedDoc(k)' = LoggedDoc(k)
      /\ LoggedDoc(n + 1)' = Held
  BY <1>1, <1>3, <1>4 DEF LoggedDoc, Held
<1>10. SwitchFollows'
  <2> SUFFICES ASSUME NEW p \in Plugins, ~Shared(p) PROVE FollowsLog(p)'
    BY <1>5 DEF SwitchFollows, InHand
  <2>1. CASE Held.plugin = p
    <3>1. switch[HoneypotOf(p)] = StatusOf(Held.action)
      BY <1>1, <2>1 DEF SwitchFollows, InHand
    <3>2. IsLastLogged(n + 1, p)'
      BY <1>4, <1>9, <2>1 DEF IsLastLogged
    <3> QED  BY <1>1, <1>4, <1>9, <3>1, <3>2 DEF FollowsLog
  <2>2. CASE Held.plugin # p
    <3>1. FollowsLog(p)
      BY <2>2 DEF SwitchFollows, InHand
    <3>2. \A k : IsLastLogged(k, p) => IsLastLogged(k, p)'
      <4> SUFFICES ASSUME NEW k, IsLastLogged(k, p) PROVE IsLastLogged(k, p)'
        OBVIOUS
      <4>1. k \in 1..n /\ k \in 1..(n + 1)
        BY <1>4 DEF IsLastLogged
      <4>2. LoggedDoc(k)'.plugin = p
        BY <1>9, <4>1 DEF IsLastLogged
      <4>3. ASSUME NEW m \in (k + 1)..(n + 1) PROVE LoggedDoc(m)'.plugin # p
        <5>1. CASE m = n + 1
          BY <1>9, <2>2, <5>1
        <5>2. CASE m # n + 1
          <6>1. m \in 1..n /\ m \in (k + 1)..n
            BY <1>4, <4>1, <5>2
          <6> QED  BY <1>9, <6>1 DEF IsLastLogged
        <5> QED  BY <5>1, <5>2
      <4> QED  BY <1>4, <4>1, <4>2, <4>3 DEF IsLastLogged
    <3>3. CASE \E k \in 1..n : /\ IsLastLogged(k, p)
                               /\ switch[HoneypotOf(p)] =
                                    StatusOf(LoggedDoc(k).action)
      BY <1>1, <1>4, <1>9, <3>2, <3>3 DEF FollowsLog
    <3>4. CASE /\ \A k \in 1..n : LoggedDoc(k).plugin # p
               /\ switch[HoneypotOf(p)] = "enabled"
      <4>1. \A k \in 1..(n + 1) : LoggedDoc(k)'.plugin # p
        <5>1. \A k \in 1..(n + 1) : k \in 1..n \/ k = n + 1
          BY <1>4
        <5> QED  BY <1>9, <2>2, <3>4, <5>1
      <4> QED  BY <1>1, <1>4, <3>4, <4>1 DEF FollowsLog
    <3> QED  BY <3>1, <3>3, <3>4 DEF FollowsLog
  <2> QED  BY <2>1, <2>2
<1> QED  BY <1>7, <1>8, <1>10

-----------------------------------------------------------------------------
(* What went wrong stays, and a document once written stays with its       *)
(* source: a run that is undisturbed now always was.                       *)
LEMMA CountersGrow ==
  ASSUME TypeOK, [Next]_vars
  PROVE  /\ faults' = faults \/ faults' = faults + 1
         /\ crashes' = crashes \/ crashes' = crashes + 1
         /\ resets' = resets \/ resets' = resets + 1
<1> USE DEF predictorVars, actuatorVars, trainerVars, resetVars, hostVars
<1>1. CASE PredictorNext
  BY <1>1 DEF PredictorNext, Predict, PredictorRead, PredictorInsert,
    PredictorUpdate, PredictorCrash
<1>2. CASE ActuatorWork
  <2>1. CASE ActuatorSend
    BY <2>1 DEF ActuatorSend
  <2>2. CASE ActuatorPoll \/ ActuatorRefuse \/ ActuatorMark \/ ActuatorLog
    BY <2>2 DEF ActuatorPoll, ActuatorRefuse, ActuatorMark, ActuatorLog
  <2> QED  BY <1>2, <2>1, <2>2 DEF ActuatorWork
<1>3. CASE ActuatorCrash \/ LateCommandLands
  BY <1>3 DEF ActuatorCrash, LateCommandLands
<1>4. CASE WriterNext
  BY <1>4 DEF WriterNext, TrainerFinish, TrainerInsert, TrainerAbort,
    OperatorInsert, ResetStart, ResetHoneypot, ResetPlugin, ResetAbort, Tick
<1>5. CASE UNCHANGED vars
  BY <1>5 DEF vars
<1> QED  BY <1>1, <1>2, <1>3, <1>4, <1>5, NextGroups

LEMMA SourcesStay ==
  ASSUME TypeOK, [Next]_vars
  PROVE  /\ Len(agentActions) \in Nat
         /\ \A i \in 1..Len(agentActions) :
              /\ i \in 1..Len(agentActions')
              /\ agentActions'[i].source = agentActions[i].source
<1> USE DEF TypeOK
<1>0. Len(agentActions) \in Nat
  BY LenProperties DEF DocumentsOK
<1>1. CASE UNCHANGED agentActions
  BY <1>0, <1>1
<1>2. ASSUME NEW d, InsertDoc(d) PROVE
        \A i \in 1..Len(agentActions) :
          i \in 1..Len(agentActions') /\ agentActions'[i] = agentActions[i]
  <2>1. agentActions' = Append(agentActions, d)
    BY <1>2 DEF InsertDoc
  <2>2. \A i \in 1..Len(agentActions) : agentActions[i] \in Document
    BY ElementOfSeq DEF DocumentsOK
  <2> DEFINE U == Document \cup {d}
  <2>3. agentActions \in Seq(U) /\ d \in U
    BY DEF DocumentsOK
  <2> HIDE DEF U
  <2> QED  BY <1>0, <2>1, <2>3, AppendProperties
<1>3. CASE ActuatorMark
  <2> DEFINE c == actuator.doc
             d == [agentActions[c] EXCEPT !.processed = TRUE]
  <2>1. c \in 1..Len(agentActions)
    BY <1>3 DEF ActuatorMark, ActuatorOK
  <2>2. agentActions[c] \in Document
    BY <2>1, ElementOfSeq DEF DocumentsOK
  <2>3. d \in Document /\ d.source = agentActions[c].source
    BY <2>2 DEF Document
  <2>4. agentActions' = [agentActions EXCEPT ![c] = d]
    BY <1>3, <2>1 DEF ActuatorMark
  <2> HIDE DEF d
  <2>5. /\ Len(agentActions') = Len(agentActions) /\ agentActions'[c] = d
        /\ \A i \in 1..Len(agentActions) : i # c => agentActions'[i] = agentActions[i]
    BY <2>1, <2>3, <2>4, ExceptSeq DEF DocumentsOK
  <2> QED  BY <1>0, <2>3, <2>5
<1>4. \/ UNCHANGED agentActions \/ ActuatorMark \/ \E d : InsertDoc(d)
  <2>1. CASE PredictorNext
    BY <2>1 DEF PredictorNext, Predict, PredictorRead, PredictorInsert,
      PredictorUpdate, PredictorCrash
  <2>2. CASE ActuatorWork \/ ActuatorCrash \/ LateCommandLands
    BY <2>2 DEF ActuatorWork, ActuatorPoll, ActuatorRefuse, ActuatorSend,
      ActuatorLog, ActuatorCrash, LateCommandLands
  <2>3. CASE WriterNext
    <3>1. CASE TrainerInsert
      BY <3>1 DEF TrainerInsert
    <3>2. CASE OperatorInsert
      BY <3>2 DEF OperatorInsert
    <3>3. CASE \/ TrainerFinish \/ TrainerAbort \/ ResetStart \/ ResetHoneypot
               \/ ResetPlugin \/ ResetAbort \/ Tick
      BY <3>3 DEF TrainerFinish, TrainerAbort, ResetStart, ResetHoneypot,
        ResetPlugin, ResetAbort, Tick
    <3> QED  BY <2>3, <3>1, <3>2, <3>3 DEF WriterNext
  <2>4. CASE UNCHANGED vars
    BY <2>4 DEF vars
  <2> QED  BY <2>1, <2>2, <2>3, <2>4, NextGroups
<1> QED  BY <1>0, <1>1, <1>2, <1>3, <1>4

LEMMA UndisturbedBefore ==
  ASSUME TypeOK, [Next]_vars, Undisturbed'
  PROVE  Undisturbed
<1>1. faults \in Nat /\ crashes \in Nat /\ resets \in Nat
  BY DEF TypeOK, HistoryOK
<1>2. faults = 0 /\ crashes = 0 /\ resets = 0
  BY <1>1, CountersGrow DEF Undisturbed, NothingWentWrong, OnlyThePredictor
<1> QED  BY <1>2, SourcesStay DEF Undisturbed, NothingWentWrong, OnlyThePredictor

(* A document of the trainer or of the operator disturbs.                  *)
LEMMA OtherSource ==
  ASSUME TypeOK, NEW d \in Document, InsertDoc(d), d.source # "predictor"
  PROVE  ~Undisturbed'
<1>1. /\ Len(agentActions) \in Nat /\ Len(agentActions') = Len(agentActions) + 1
      /\ agentActions'[Len(agentActions) + 1] = d
  BY InsertDocType DEF TypeOK
<1> QED  BY <1>1 DEF Undisturbed, OnlyThePredictor

LEMMA AgreeWriters ==
  ASSUME TypeOK, Undisturbed, Undisturbed', Agreeing, WriterNext
  PROVE  Agreeing'
<1> USE DEF predictorVars, actuatorVars, hostVars
<1>1. CASE TrainerFinish
  BY <1>1, AgreeSame DEF TrainerFinish, resetVars
<1>2. CASE TrainerInsert
  <2> DEFINE d == Head(trainer.todo)
             doc == Doc(d.plugin, d.action, trainer.cycle, "train_sb3")
  <2>1. d \in [plugin : Plugins, action : Actions]
    BY <1>2, TodoType DEF TrainerInsert, TypeOK, WritersOK
  <2>2. doc \in Document /\ InsertDoc(doc) /\ doc.source # "predictor"
    BY <1>2, <2>1 DEF TrainerInsert, TypeOK, WritersOK, Doc, Document
  <2> HIDE DEF doc
  <2> QED  BY <2>2, OtherSource
<1>3. CASE TrainerAbort \/ Tick
  BY <1>3, AgreeSame DEF TrainerAbort, Tick, resetVars
<1>4. CASE OperatorInsert
  <2>1. PICK p \in ManualPlugins, act \in Actions :
          InsertDoc(Doc(p, act, now, "manual"))
    BY <1>4 DEF OperatorInsert
  <2> DEFINE doc == Doc(p, act, now, "manual")
  <2>2. doc \in Document /\ InsertDoc(doc) /\ doc.source # "predictor"
    BY <2>1 DEF TypeOK, HistoryOK, Doc, Document
  <2> HIDE DEF doc
  <2> QED  BY <2>2, OtherSource
<1>5. CASE ResetStart
  <2>1. resets' = resets + 1 /\ resets = 0 /\ resets' = 0
    BY <1>5 DEF ResetStart, Undisturbed, OnlyThePredictor
  <2> QED  BY <2>1
<1>6. CASE ResetHoneypot \/ ResetPlugin \/ ResetAbort
  <2>1. reset = << >>
    BY DEF Agreeing, Untroubled
  <2> QED  BY <1>6, <2>1 DEF ResetHoneypot, ResetPlugin, ResetAbort
<1> QED  BY <1>1, <1>2, <1>3, <1>4, <1>5, <1>6 DEF WriterNext

LEMMA AgreeStep ==
  ASSUME ConstantsAssumption, TypeOK, AgreeInv, [Next]_vars
  PROVE  AgreeInv'
<1> SUFFICES ASSUME Undisturbed' PROVE Agreeing'
  BY DEF AgreeInv
<1>1. Undisturbed /\ Agreeing
  BY UndisturbedBefore DEF AgreeInv
<1>2. /\ faults = 0 /\ faults' = 0 /\ crashes = 0 /\ crashes' = 0
      /\ OnlyThePredictor
  BY <1>1 DEF Undisturbed, NothingWentWrong
<1>3. CASE PredictorNext
  <2>1. CASE Predict
    <3>1. predictor'.pc # "update"
      BY <2>1 DEF Predict
    <3> QED  BY <1>1, <2>1, <3>1, AgreeSame
             DEF Predict, actuatorVars, resetVars, hostVars
  <2>2. CASE PredictorRead
    <3>1. predictor'.pc # "update"
      BY <2>2 DEF PredictorRead, AfterHead, Asleep, TypeOK, PredictorOK
    <3> QED  BY <1>1, <2>2, <3>1, AgreeSame
             DEF PredictorRead, actuatorVars, resetVars, hostVars
  <2>3. CASE PredictorInsert
    BY <1>1, <1>2, <2>3, AgreeInsert
  <2>4. CASE PredictorUpdate
    BY <1>1, <2>4, AgreeUpdate
  <2>5. CASE PredictorCrash
    BY <1>2, <2>5 DEF PredictorCrash
  <2> QED  BY <1>3, <2>1, <2>2, <2>3, <2>4, <2>5 DEF PredictorNext
<1>4. CASE ActuatorWork
  <2>1. CASE ActuatorPoll
    BY <1>1, <2>1, AgreePoll
  <2>2. CASE ActuatorRefuse
    <3>1. actuator.pc = "exec" /\ ~HandlerSends(Held.plugin, Held.action)
      BY <2>2 DEF ActuatorRefuse
    <3>2. Held.plugin \in Plugins /\ Held.action \in Actions
      BY <1>1, <3>1 DEF Agreeing, OwnPlugins, Held, TypeOK, ActuatorOK
    <3> QED  BY <3>1, <3>2, OwnPluginsAreSent
  <2>3. CASE ActuatorSend
    BY <1>1, <1>2, <2>3, AgreeSend
  <2>4. CASE ActuatorMark
    BY <1>1, <2>4, AgreeMark
  <2>5. CASE ActuatorLog
    BY <1>1, <2>5, AgreeLog
  <2> QED  BY <1>4, <2>1, <2>2, <2>3, <2>4, <2>5 DEF ActuatorWork
<1>5. CASE ActuatorCrash
  BY <1>2, <1>5 DEF ActuatorCrash
<1>6. CASE LateCommandLands
  BY <1>1, <1>6 DEF LateCommandLands, Agreeing, Untroubled
<1>7. CASE WriterNext
  BY <1>1, <1>7, AgreeWriters
<1>8. CASE UNCHANGED vars
  BY <1>1, <1>8, AgreeSame
  DEF vars, predictorVars, actuatorVars, resetVars, hostVars
<1> QED  BY <1>3, <1>4, <1>5, <1>6, <1>7, <1>8, NextGroups

LEMMA AgreeInit == ConstantsAssumption /\ Init => AgreeInv
<1> SUFFICES ASSUME ConstantsAssumption, Init PROVE Agreeing
  BY DEF AgreeInv
<1>1. Len(agentActions) = 0 /\ Len(actuatorLogs) = 0
  BY EmptySeq DEF Init
<1>2. torn = {} /\ reset = << >> /\ late = {}
  BY DEF Init
<1>3. \A p \in Plugins : pluginStates[p] = "enabled"
  BY DEF Init
<1>4. predictor.pc = "sleep" /\ actuator.pc = "idle"
  BY DEF Init, Asleep, Idle
<1>5. \A p \in Plugins : switch[HoneypotOf(p)] = "enabled"
  <2>1. \A h \in Honeypots : switch[h] = "enabled"
    BY DEF Init
  <2>2. \A p \in Plugins : HoneypotOf(p) \in Honeypots
    BY OwnPluginsAreSent DEF Actions
  <2> QED  BY <2>1, <2>2
<1>6. Untroubled /\ OwnPlugins /\ ProcessedIsLogged /\ DecidedFirst
  BY <1>1, <1>2, <1>3, <1>4 DEF Untroubled, OwnPlugins, ProcessedIsLogged,
    DecidedFirst
<1>7. SwitchFollows
  BY <1>1, <1>4, <1>5 DEF SwitchFollows, InHand, FollowsLog
<1> QED  BY <1>6, <1>7 DEF Agreeing

LEMMA AgreeInvariant == Spec => []AgreeInv
<1>1. TypeOK /\ AgreeInv /\ [Next]_vars => AgreeInv'
  BY ConstantsAssumption, AgreeStep
<1>2. Init => AgreeInv
  BY ConstantsAssumption, AgreeInit
<1> QED  BY <1>1, <1>2, TypeCorrect, PTL DEF Spec

(* When everything decided has been applied, and in order, the document    *)
(* logged last for a plugin is the newest decision about it.               *)
LEMMA AgreementAtRest ==
  ASSUME ConstantsAssumption, TypeOK, DecisionInv, AgreeInv
  PROVE  InOrderAgreement
<1> SUFFICES ASSUME Quiescent, AppliedInOrder, NothingWentWrong,
                    OnlyThePredictor, NEW p \in Plugins, ~Shared(p)
             PROVE  switch[HoneypotOf(p)] = pluginStates[p]
  BY DEF InOrderAgreement
<1>1. Agreeing
  BY DEF AgreeInv, Undisturbed
<1>2. actuator.pc = "idle" /\ predictor.pc = "sleep" /\ torn = {}
  BY <1>1 DEF Quiescent, Agreeing, Untroubled
<1>3. FollowsLog(p)
  BY <1>1, <1>2 DEF Agreeing, SwitchFollows, InHand
<1>4. CASE NewestDecisions(p) = {}
  <2>1. /\ pluginStates[p] = "enabled"
        /\ \A i \in 1..Len(agentActions) : agentActions[i].plugin # p
    BY <1>1, <1>4 DEF Agreeing, DecidedFirst
  <2>2. \A k \in 1..Len(actuatorLogs) : LoggedDoc(k).plugin # p
    BY <2>1, LogIds DEF TypeOK, LoggedDoc
  <2> QED  BY <1>3, <2>1, <2>2 DEF FollowsLog, IsLastLogged
<1>5. ASSUME NEW i \in NewestDecisions(p)
      PROVE  switch[HoneypotOf(p)] = pluginStates[p]
  <2>1. /\ i \in 1..Len(agentActions) /\ agentActions[i].plugin = p
        /\ \A j \in (i + 1)..Len(agentActions) : agentActions[j].plugin # p
    BY <1>5 DEF NewestDecisions, IsNewestDecision, OnlyThePredictor
  <2>2. pluginStates[p] = StatusOf(agentActions[i].action)
    BY <1>2, <1>5 DEF DecisionInv, StatesTrackDecisions
  <2>3. PICK k \in 1..Len(actuatorLogs) : actuatorLogs[k].action_id = i
    BY <1>1, <1>2, <2>1 DEF Agreeing, ProcessedIsLogged, Quiescent
  <2>4. PICK m \in 1..Len(actuatorLogs) :
          /\ IsLastLogged(m, p)
          /\ switch[HoneypotOf(p)] = StatusOf(LoggedDoc(m).action)
    BY <1>3, <2>1, <2>3 DEF FollowsLog, LoggedDoc
  <2>5. Len(actuatorLogs) \in Nat /\ Len(agentActions) \in Nat
    BY LenProperties DEF TypeOK, ActuatorOK, DocumentsOK
  <2>6. k <= m
    BY <2>1, <2>3, <2>4, <2>5 DEF IsLastLogged, LoggedDoc
  <2>7. actuatorLogs[m].action_id \in 1..Len(agentActions)
    BY LogIds DEF TypeOK
  <2>8. ~(k < m)
    <3> SUFFICES ASSUME k < m PROVE FALSE
      OBVIOUS
    <3>1. i < actuatorLogs[m].action_id
      BY <2>3 DEF AppliedInOrder
    <3>2. actuatorLogs[m].action_id \in (i + 1)..Len(agentActions)
      BY <2>1, <2>5, <2>7, <3>1
    <3> QED  BY <2>1, <2>4, <3>2 DEF IsLastLogged, LoggedDoc
  <2>9. k = m
    BY <2>6, <2>8
  <2> QED  BY <2>2, <2>3, <2>4, <2>9 DEF LoggedDoc
<1> QED  BY <1>4, <1>5

(* When the predictor is the only writer, nothing failed and what it       *)
(* decided has been applied in the order it was decided, the honeypot of   *)
(* one plugin is as plugin_states says.                                    *)
THEOREM AgreementInOrder == Spec => []InOrderAgreement
<1>1. TypeOK /\ DecisionInv /\ AgreeInv => InOrderAgreement
  BY ConstantsAssumption, AgreementAtRest
<1> QED  BY <1>1, TypeCorrect, DecisionInvariant, AgreeInvariant, PTL
=============================================================================
