----------------------------- MODULE ControlLoop -----------------------------
(***************************************************************************)
(* The control loop of ADAPT Trap.  The predictor, the trainer and an      *)
(* operator put action documents into the MongoDB collection               *)
(* agent_actions; the actuator polls it, newest document first, sends the  *)
(* command to the honeypot, marks the document and writes actuator_logs.   *)
(* plugin_states is the predictor's record of what it last decided, and    *)
(* reset_all_honeypots.sh rewrites it.  Every step is one database call or *)
(* one remote command of one process, so any two processes interleave      *)
(* wherever the code lets them.                                            *)
(***************************************************************************)
EXTENDS Naturals, Sequences, FiniteSets, HandlerMap

CONSTANTS
  PluginOrder,    \* plugin_map of _decode_action, or a part of it
  ManualPlugins,  \* plugins of documents inserted by hand ("Raw triggers")
  Window,         \* age, in ticks, past which the actuator ignores a document
  MaxDocs, MaxTime, MaxFaults, MaxCrashes,   \* bounds of the exploration
  MaxTrainings, MaxResets

Plugins == {PluginOrder[i] : i \in 1..Len(PluginOrder)}
Actions == {"enable_plugin", "disable_plugin"}
Statuses == {"enabled", "disabled"}
None == 0
DocIds == 1..MaxDocs

ASSUME ConstantsAssumption ==
  /\ PluginOrder \in Seq({"ssh", "ftp", "http", "telnet"})
  /\ PluginOrder # << >>
  /\ \A i, j \in 1..Len(PluginOrder) :
        i # j => PluginOrder[i] # PluginOrder[j]
  /\ ManualPlugins \subseteq STRING
  /\ Window \in Nat /\ MaxDocs \in Nat /\ MaxTime \in Nat
  /\ MaxFaults \in Nat /\ MaxCrashes \in Nat
  /\ MaxTrainings \in Nat /\ MaxResets \in Nat

VARIABLES
  agentActions,   \* agent_actions in _id order
  pluginStates,   \* plugin_states
  actuatorLogs,   \* actuator_logs in insertion order
  predictor,      \* [pc, cycle, todo]: run_predictor_loop
  actuator,       \* [pc, doc, success]: apply_action
  lastActionId,   \* last_action_id of main_actuator.py
  trainer,        \* [cycle, todo]: the tail of train_sb3.main
  reset,          \* what is left of a run of reset_all_honeypots.sh
  switch,         \* what each honeypot's last landed command left
  late,           \* remote commands that outlive their ssh client
  now, faults, crashes, trainings, resets,
  sent,           \* history: commands sent for each document
  redo,           \* history: documents the actuator held when it died
  torn            \* history: documents plugin_states was not moved along with

predictorVars == <<predictor, pluginStates>>
actuatorVars == <<actuator, lastActionId, actuatorLogs, sent, redo>>
resetVars == <<reset, resets>>
trainerVars == <<trainer, trainings>>
hostVars == <<switch, late>>
vars == <<agentActions, predictorVars, actuatorVars, trainerVars, resetVars,
          hostVars, now, faults, crashes, torn>>

-----------------------------------------------------------------------------
(* Documents                                                               *)

Doc(p, act, created, source) ==
  [plugin |-> p, action |-> act, created |-> created, processed |-> FALSE,
   source |-> source]

InsertDoc(d) ==
  /\ Len(agentActions) < MaxDocs
  /\ agentActions' = Append(agentActions, d)
  /\ sent' = Append(sent, 0)

Expired(i) == agentActions[i].created + Window < now

(* What find_one of watch_and_apply_actions selects from.                  *)
Candidates ==
  {i \in 1..Len(agentActions) : ~agentActions[i].processed /\ ~Expired(i)}

(* sort=[("_id", -1)] *)
IsNewest(i) == i \in Candidates /\ \A j \in Candidates : j <= i

(* The newest predictor document of plugin p, if i is that document.       *)
IsNewestDecision(i, p) ==
  /\ i \in 1..Len(agentActions)
  /\ agentActions[i].plugin = p /\ agentActions[i].source = "predictor"
  /\ \A j \in (i + 1)..Len(agentActions) :
        ~(agentActions[j].plugin = p /\ agentActions[j].source = "predictor")

Decisions(v) ==
  [i \in 1..Len(PluginOrder) |-> [plugin |-> PluginOrder[i], action |-> v[i]]]

-----------------------------------------------------------------------------
(* Predictor                                                               *)

Asleep == [pc |-> "sleep", cycle |-> 0, todo |-> << >>]

(* One cycle that saw attacker activity: the model's action vector is any  *)
(* vector.  A cycle without activity changes nothing.                      *)
Predict ==
  /\ predictor.pc = "sleep"
  /\ \E v \in [1..Len(PluginOrder) -> Actions] :
        predictor' = [pc |-> "read", cycle |-> now, todo |-> Decisions(v)]
  /\ UNCHANGED <<agentActions, pluginStates, actuatorVars, trainerVars,
                 resetVars, hostVars, now, faults, crashes, torn>>

(* Mutant: the loop over the selected actions runs once too often.         *)
AfterHeadOneMore == [predictor EXCEPT !.pc = "read", !.todo = Tail(@)]

AfterHead ==
  IF Len(predictor.todo) = 1 THEN Asleep
  ELSE [predictor EXCEPT !.pc = "read", !.todo = Tail(@)]

(* Mutant: the comparison with the current state is missing.               *)
PredictorReadNoCompare ==
  /\ predictor.pc = "read"
  /\ predictor' = [predictor EXCEPT !.pc = "insert"]
  /\ UNCHANGED <<agentActions, pluginStates, actuatorVars, trainerVars,
                 resetVars, hostVars, now, faults, crashes, torn>>

(* get_current_plugin_state and the comparison that follows it.            *)
PredictorRead ==
  /\ predictor.pc = "read"
  /\ LET d == Head(predictor.todo) IN
       predictor' = IF pluginStates[d.plugin] # StatusOf(d.action)
                    THEN [predictor EXCEPT !.pc = "insert"]
                    ELSE AfterHead
  /\ UNCHANGED <<agentActions, pluginStates, actuatorVars, trainerVars,
                 resetVars, hostVars, now, faults, crashes, torn>>

PredictorInsert ==
  /\ predictor.pc = "insert"
  /\ LET d == Head(predictor.todo) IN
       InsertDoc(Doc(d.plugin, d.action, predictor.cycle, "predictor"))
  /\ predictor' = [predictor EXCEPT !.pc = "update"]
  /\ UNCHANGED <<pluginStates, actuator, lastActionId, actuatorLogs, redo,
                 trainerVars, resetVars, hostVars, now, faults, crashes, torn>>

(* Mutant: update_one without upsert on a collection that is still empty.  *)
PredictorUpdateNoUpsert ==
  /\ predictor.pc = "update"
  /\ pluginStates' = pluginStates
  /\ predictor' = AfterHead
  /\ UNCHANGED <<agentActions, actuatorVars, trainerVars, resetVars, hostVars,
                 now, faults, crashes, torn>>

(* update_plugin_state *)
PredictorUpdate ==
  /\ predictor.pc = "update"
  /\ LET d == Head(predictor.todo) IN
       pluginStates' = [pluginStates EXCEPT ![d.plugin] = StatusOf(d.action)]
  /\ predictor' = AfterHead
  /\ UNCHANGED <<agentActions, actuatorVars, trainerVars, resetVars, hostVars,
                 now, faults, crashes, torn>>

NewestDecisions(p) ==
  {i \in 1..Len(agentActions) : IsNewestDecision(i, p)}

(* A database call raises, the process ends and is started again.          *)
PredictorCrash ==
  /\ predictor.pc # "sleep" /\ crashes < MaxCrashes
  /\ crashes' = crashes + 1
  /\ predictor' = Asleep
  /\ torn' = IF predictor.pc = "update"
             THEN torn \cup NewestDecisions(Head(predictor.todo).plugin)
             ELSE torn
  /\ UNCHANGED <<agentActions, pluginStates, actuatorVars, trainerVars,
                 resetVars, hostVars, now, faults>>

-----------------------------------------------------------------------------
(* Actuator                                                                *)

Idle == [pc |-> "idle", doc |-> None, success |-> FALSE]

(* One poll of watch_and_apply_actions that finds a document with another  *)
(* id than last_action_id.  A plugin outside the map makes apply_action    *)
(* return at once, with the document left unprocessed.                     *)
ActuatorPoll ==
  /\ actuator.pc = "idle"
  /\ \E i \in 1..Len(agentActions) :
       /\ IsNewest(i) /\ i # lastActionId
       /\ lastActionId' = i
       /\ actuator' = IF agentActions[i].plugin \in SupportedPlugins
                      THEN [Idle EXCEPT !.pc = "exec", !.doc = i]
                      ELSE Idle
  /\ UNCHANGED <<agentActions, predictorVars, actuatorLogs, sent, redo,
                 trainerVars, resetVars, hostVars, now, faults, crashes, torn>>

(* A poll with nothing to do: no document, or the one it handled last.     *)
ActuatorPollNothing ==
  /\ actuator.pc = "idle"
  /\ \A i \in Candidates : IsNewest(i) => i = lastActionId
  /\ UNCHANGED vars

Held == agentActions[actuator.doc]

(* The handler does not take the plugin (the raw triggers).                *)
ActuatorRefuse ==
  /\ actuator.pc = "exec" /\ ~HandlerSends(Held.plugin, Held.action)
  /\ actuator' = [actuator EXCEPT !.pc = "mark"]
  /\ UNCHANGED <<agentActions, predictorVars, lastActionId, actuatorLogs, sent,
                 redo, trainerVars, resetVars, hostVars, now, faults, crashes,
                 torn>>

(* ssh_exec and the keyword test of log_action.  The command takes effect, *)
(* or fails on the honeypot, or times out here and still runs there.  The  *)
(* remote exit status is never looked at, so the flag tells little; and    *)
(* HoneyPy's command, a list in the background that keeps the session's    *)
(* output open, may be reported as timed out though it took effect.        *)
ActuatorSend ==
  /\ actuator.pc = "exec" /\ HandlerSends(Held.plugin, Held.action)
  /\ sent' = [sent EXCEPT ![actuator.doc] = @ + 1]
  /\ \E lands \in {"now", "late", "never"}, ok \in BOOLEAN :
       /\ lands = "late" => ~ok
       /\ IF lands = "now" /\ (ok \/ HoneypotOf(Held.plugin) = "honeypy")
          THEN faults' = faults
          ELSE faults < MaxFaults /\ faults' = faults + 1
       /\ actuator' = [actuator EXCEPT !.pc = "mark", !.success = ok]
       /\ switch' = IF lands = "now"
                    THEN [switch EXCEPT ![HoneypotOf(Held.plugin)] =
                                          StatusOf(Held.action)]
                    ELSE switch
       /\ late' = IF lands = "late"
                  THEN late \cup {<<actuator.doc, sent[actuator.doc]>>}
                  ELSE late
  /\ UNCHANGED <<agentActions, predictorVars, lastActionId, actuatorLogs, redo,
                 trainerVars, resetVars, now, crashes, torn>>

(* A command whose ssh client was killed by the timeout takes effect.      *)
LateCommandLands ==
  /\ \E c \in late :
       /\ late' = late \ {c}
       /\ switch' = [switch EXCEPT ![HoneypotOf(agentActions[c[1]].plugin)] =
                                     StatusOf(agentActions[c[1]].action)]
  /\ UNCHANGED <<agentActions, predictorVars, actuatorVars, trainerVars,
                 resetVars, now, faults, crashes, torn>>

(* Mutant: update_one with a filter that matches nothing (a string _id).   *)
ActuatorMarkMisses ==
  /\ actuator.pc = "mark"
  /\ agentActions' = agentActions
  /\ actuator' = [actuator EXCEPT !.pc = "log"]
  /\ UNCHANGED <<predictorVars, lastActionId, actuatorLogs, sent, redo,
                 trainerVars, resetVars, hostVars, now, faults, crashes, torn>>

(* Mutant: only a command reported as successful is marked processed.      *)
ActuatorMarkSuccesses ==
  /\ actuator.pc = "mark"
  /\ agentActions' = [agentActions EXCEPT ![actuator.doc].processed =
                                            actuator.success]
  /\ actuator' = [actuator EXCEPT !.pc = "log"]
  /\ UNCHANGED <<predictorVars, lastActionId, actuatorLogs, sent, redo,
                 trainerVars, resetVars, hostVars, now, faults, crashes, torn>>

(* The processed mark is set before, and apart from, the log entry.        *)
ActuatorMark ==
  /\ actuator.pc = "mark"
  /\ agentActions' = [agentActions EXCEPT ![actuator.doc].processed = TRUE]
  /\ actuator' = [actuator EXCEPT !.pc = "log"]
  /\ UNCHANGED <<predictorVars, lastActionId, actuatorLogs, sent, redo,
                 trainerVars, resetVars, hostVars, now, faults, crashes, torn>>

ActuatorLog ==
  /\ actuator.pc = "log"
  /\ actuatorLogs' = Append(actuatorLogs, [action_id |-> actuator.doc,
                                           success |-> actuator.success])
  /\ actuator' = Idle
  /\ UNCHANGED <<agentActions, predictorVars, lastActionId, sent, redo,
                 trainerVars, resetVars, hostVars, now, faults, crashes, torn>>

(* A database call raises, the process ends and is started again with      *)
(* last_action_id = None.                                                  *)
ActuatorCrash ==
  /\ actuator.pc # "idle" /\ crashes < MaxCrashes
  /\ crashes' = crashes + 1
  /\ redo' = redo \cup {actuator.doc}
  /\ actuator' = Idle
  /\ lastActionId' = None
  /\ UNCHANGED <<agentActions, predictorVars, actuatorLogs, sent, trainerVars,
                 resetVars, hostVars, now, faults, torn>>

-----------------------------------------------------------------------------
(* Trainer, operator, reset script, time                                   *)

(* The three action vectors of train_sb3: none, all, or ssh and http.      *)
TrainerVectors ==
  {[i \in 1..Len(PluginOrder) |->
      IF PluginOrder[i] \in disabled THEN "disable_plugin"
                                     ELSE "enable_plugin"] :
     disabled \in {{}, {"ssh", "http"}, {"ssh", "ftp", "http", "telnet"}}}

TrainerFinish ==
  /\ trainer.todo = << >> /\ trainings < MaxTrainings
  /\ trainings' = trainings + 1
  /\ \E v \in TrainerVectors : trainer' = [cycle |-> now, todo |-> Decisions(v)]
  /\ UNCHANGED <<agentActions, predictorVars, actuatorVars, resetVars,
                 hostVars, now, faults, crashes, torn>>

TrainerInsert ==
  /\ trainer.todo # << >>
  /\ LET d == Head(trainer.todo) IN
       InsertDoc(Doc(d.plugin, d.action, trainer.cycle, "train_sb3"))
  /\ trainer' = [trainer EXCEPT !.todo = Tail(@)]
  /\ UNCHANGED <<predictorVars, actuator, lastActionId, actuatorLogs, redo,
                 trainings, resetVars, hostVars, now, faults, crashes, torn>>

(* The inserts sit in one try block: an exception gives up the rest.       *)
TrainerAbort ==
  /\ trainer.todo # << >> /\ crashes < MaxCrashes
  /\ crashes' = crashes + 1
  /\ trainer' = [trainer EXCEPT !.todo = << >>]
  /\ UNCHANGED <<agentActions, predictorVars, actuatorVars, trainings,
                 resetVars, hostVars, now, faults, torn>>

(* An action document put in by hand.                                      *)
OperatorInsert ==
  /\ \E p \in ManualPlugins, act \in Actions :
        InsertDoc(Doc(p, act, now, "manual"))
  /\ UNCHANGED <<predictorVars, actuator, lastActionId, actuatorLogs, redo,
                 trainerVars, resetVars, hostVars, now, faults, crashes, torn>>

ResetLegs ==
  <<"cowrie", "honeypy", "honeytrap", "conpot", "nodepot-lite">> \o PluginOrder

ResetStart ==
  /\ reset = << >> /\ resets < MaxResets
  /\ resets' = resets + 1
  /\ reset' = ResetLegs
  /\ UNCHANGED <<agentActions, predictorVars, actuatorVars, trainerVars,
                 hostVars, now, faults, crashes, torn>>

(* What a honeypot's leg leaves.  The shell that runs Conpot's leg has     *)
(* "conpot" in its own command line and is killed by the leg's pkill -f,   *)
(* before it starts Conpot again.  Honeytrap's leg goes to port 22, where  *)
(* no management sshd listens, and changes nothing.                        *)
ResetEffect(h) ==
  CASE h = "conpot"    -> "disabled"
    [] h = "honeytrap" -> switch["honeytrap"]
    [] OTHER           -> "enabled"

(* The script has no set -e: it goes on after a leg that failed.           *)
ResetHoneypot ==
  /\ reset # << >> /\ Head(reset) \in Honeypots
  /\ reset' = Tail(reset)
  /\ \/ /\ switch' = [switch EXCEPT ![Head(reset)] = ResetEffect(Head(reset))]
        /\ faults' = faults
     \/ /\ faults < MaxFaults
        /\ faults' = faults + 1
        /\ switch' = switch
  /\ UNCHANGED <<agentActions, predictorVars, actuatorVars, trainerVars,
                 resets, late, now, crashes, torn>>

ResetPlugin ==
  /\ reset # << >> /\ Head(reset) \in Plugins
  /\ LET p == Head(reset) IN
       /\ pluginStates' = [pluginStates EXCEPT ![p] = "enabled"]
       /\ torn' = IF pluginStates[p] = "enabled" THEN torn
                  ELSE torn \cup NewestDecisions(p)
  /\ reset' = Tail(reset)
  /\ UNCHANGED <<agentActions, predictor, actuatorVars, trainerVars, resets,
                 hostVars, now, faults, crashes>>

(* The embedded Python dies on a database error; the script still ends     *)
(* with its success message.                                               *)
ResetAbort ==
  /\ reset # << >> /\ Head(reset) \in Plugins /\ crashes < MaxCrashes
  /\ crashes' = crashes + 1
  /\ reset' = << >>
  /\ UNCHANGED <<agentActions, predictorVars, actuatorVars, trainerVars,
                 resets, hostVars, now, faults, torn>>

Tick ==
  /\ now < MaxTime
  /\ now' = now + 1
  /\ UNCHANGED <<agentActions, predictorVars, actuatorVars, trainerVars,
                 resetVars, hostVars, faults, crashes, torn>>

-----------------------------------------------------------------------------
Init ==
  /\ agentActions = << >> /\ actuatorLogs = << >> /\ sent = << >>
  /\ pluginStates = [p \in Plugins |-> "enabled"]
  /\ predictor = Asleep
  /\ actuator = Idle /\ lastActionId = None
  /\ trainer = [cycle |-> 0, todo |-> << >>]
  /\ reset = << >>
  /\ switch = [h \in Honeypots |-> "enabled"]
  /\ late = {} /\ redo = {} /\ torn = {}
  /\ now = 0 /\ faults = 0 /\ crashes = 0 /\ trainings = 0 /\ resets = 0

PredictorNext ==
  \/ Predict \/ PredictorRead \/ PredictorInsert \/ PredictorUpdate
  \/ PredictorCrash

ActuatorWork ==
  \/ ActuatorPoll \/ ActuatorRefuse \/ ActuatorSend \/ ActuatorMark
  \/ ActuatorLog

Next ==
  \/ PredictorNext
  \/ ActuatorWork \/ ActuatorPollNothing \/ ActuatorCrash
  \/ LateCommandLands
  \/ TrainerFinish \/ TrainerInsert \/ TrainerAbort \/ OperatorInsert
  \/ ResetStart \/ ResetHoneypot \/ ResetPlugin \/ ResetAbort
  \/ Tick

Spec == Init /\ [][Next]_vars

(* The actuator process keeps running: the only thing that stops it is an  *)
(* exception, and ActuatorCrash starts it again.                           *)
FairSpec == Spec /\ WF_vars(ActuatorWork)

-----------------------------------------------------------------------------
(* Properties                                                              *)

DecisionList == Seq([plugin : Plugins, action : Actions])

Document ==
  [plugin : Plugins \cup ManualPlugins, action : Actions, created : Nat,
   processed : BOOLEAN, source : {"predictor", "train_sb3", "manual"}]

DocumentsOK ==
  /\ agentActions \in Seq(Document)
  /\ sent \in Seq(Nat) /\ Len(sent) = Len(agentActions)

PredictorOK ==
  /\ pluginStates \in [Plugins -> Statuses]
  /\ predictor \in [pc : {"sleep", "read", "insert", "update"}, cycle : Nat,
                    todo : DecisionList]
  /\ (predictor.pc = "sleep") <=> (predictor.todo = << >>)

ActuatorOK ==
  /\ actuator \in [pc : {"idle", "exec", "mark", "log"},
                   doc : {None} \cup 1..Len(agentActions), success : BOOLEAN]
  /\ (actuator.pc = "idle") <=> (actuator.doc = None)
  /\ lastActionId \in {None} \cup 1..Len(agentActions)
  /\ actuatorLogs \in Seq([action_id : 1..Len(agentActions),
                           success : BOOLEAN])

WritersOK ==
  /\ trainer \in [cycle : Nat, todo : DecisionList]
  /\ reset \in Seq(Honeypots \cup Plugins)

HoneypotsOK ==
  /\ switch \in [Honeypots -> Statuses]
  /\ late \subseteq (1..Len(agentActions)) \X Nat

HistoryOK ==
  /\ redo \subseteq 1..Len(agentActions)
  /\ torn \subseteq 1..Len(agentActions)
  /\ now \in Nat /\ faults \in Nat /\ crashes \in Nat
  /\ trainings \in Nat /\ resets \in Nat

(* The collections, the processes' local state and the history variables   *)
(* have the shapes the code gives them, and every id that is held, logged  *)
(* or still running remotely names a document that exists.                 *)
TypeOK ==
  /\ DocumentsOK /\ PredictorOK /\ ActuatorOK /\ WritersOK /\ HoneypotsOK
  /\ HistoryOK

(* An entry of actuator_logs is only ever written for a document already   *)
(* marked processed: whoever reads the log (the dashboard) never sees a    *)
(* result whose document the actuator would still take up again.           *)
LoggedIsProcessed ==
  \A k \in 1..Len(actuatorLogs) :
     agentActions[actuatorLogs[k].action_id].processed

(* A document's command goes out twice only if the actuator died while it  *)
(* held the document, between sending the command and marking it.          *)
SentTwiceOnlyAfterCrash ==
  \A i \in 1..Len(sent) : sent[i] > 1 => i \in redo

(* Two documents of the predictor for one plugin, with none between them,  *)
(* ask for opposite things, unless plugin_states was not moved along with  *)
(* the first one: the predictor died between its insert and its update, or *)
(* the reset script wrote over it.                                         *)
DecisionsAlternate ==
  \A i, j \in 1..Len(agentActions) :
    ( /\ i < j
      /\ agentActions[i].plugin = agentActions[j].plugin
      /\ agentActions[i].source = "predictor"
      /\ agentActions[j].source = "predictor"
      /\ \A k \in (i + 1)..(j - 1) :
           ~(/\ agentActions[k].plugin = agentActions[i].plugin
             /\ agentActions[k].source = "predictor") )
    => agentActions[i].action # agentActions[j].action \/ i \in torn

(* Outside the gap between insert_one and update_plugin_state, and unless  *)
(* torn, plugin_states holds what the newest predictor document asks for.  *)
StatesTrackDecisions ==
  \A p \in Plugins : \A i \in NewestDecisions(p) :
    \/ pluginStates[p] = StatusOf(agentActions[i].action)
    \/ i \in torn
    \/ predictor.pc = "update" /\ Head(predictor.todo).plugin = p

(* ssh and telnet share Cowrie and its one flag; the other plugins of the  *)
(* agent have a honeypot of their own.                                     *)
Shared(p) == \E q \in Plugins : q # p /\ HoneypotOf(q) = HoneypotOf(p)

Quiescent ==
  /\ predictor.pc = "sleep" /\ actuator.pc = "idle"
  /\ trainer.todo = << >> /\ reset = << >> /\ late = {}
  /\ \A i \in 1..Len(agentActions) : agentActions[i].processed

AppliedInOrder ==
  \A k, m \in 1..Len(actuatorLogs) :
     k < m => actuatorLogs[k].action_id < actuatorLogs[m].action_id

NothingWentWrong == faults = 0 /\ crashes = 0

OnlyThePredictor ==
  resets = 0 /\ \A i \in 1..Len(agentActions) :
                   agentActions[i].source = "predictor"

(* When the predictor is the only writer, nothing failed and everything    *)
(* has been applied in the order it was decided, a honeypot that serves    *)
(* one plugin of the agent is left as plugin_states says.                  *)
InOrderAgreement ==
  /\ Quiescent /\ AppliedInOrder /\ NothingWentWrong /\ OnlyThePredictor
  => \A p \in Plugins :
       ~Shared(p) => switch[HoneypotOf(p)] = pluginStates[p]

Supported(i) == agentActions[i].plugin \in SupportedPlugins

(* Every document whose plugin the actuator knows ends up processed, or    *)
(* too old, or stays behind a newer document of an unknown plugin, which   *)
(* the actuator neither marks nor passes over.                             *)
EventuallyProcessed ==
  \A i \in DocIds :
    (i \in 1..Len(agentActions)) ~>
      /\ i \in 1..Len(agentActions)
      /\ \/ agentActions[i].processed \/ Expired(i) \/ ~Supported(i)
         \/ \E j \in (i + 1)..Len(agentActions) : ~Supported(j)

-----------------------------------------------------------------------------
(* What comments and messages of the code say, and the code does not do    *)

(* "tracks current state": at rest, with nothing failed and nobody but the *)
(* predictor writing, plugin_states is the state of the honeypots.         *)
PluginStatesTrackHoneypots ==
  Quiescent /\ NothingWentWrong /\ OnlyThePredictor
  => \A p \in Plugins : switch[HoneypotOf(p)] = pluginStates[p]
=============================================================================
