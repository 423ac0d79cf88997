------------------------------ MODULE Learning ------------------------------
(***************************************************************************)
(* normalized_logs between those who write it and the learner.  The loop   *)
(* and the back-fill remember the ports they saw with an address, each in  *)
(* its own memory and for as long as its process lives; the back-fill and  *)
(* the parser of Honeytrap's logs go through whole collections each time   *)
(* they are run; simulate_test_logs.py adds entries that nothing was       *)
(* logged for.  train_sb3.py runs episodes of MaxSteps steps over the    *)
(* newest entries and, when it is stopped, turns the reward of its last    *)
(* finished episode into a decision.  (ControlLoop has what becomes of it, *)
(* Telemetry the arrival of documents behind the loop's cursor.)           *)
(***************************************************************************)
EXTENDS Scoring

CONSTANTS
  Sources,     \* the keys of sources, in order
  LinesOf,     \* what is logged to each of them
  TestLogs,    \* what simulate_test_logs.py draws
  MaxSteps,    \* 64: steps of an episode
  MaxTime, MaxDocs, MaxTests, MaxRestarts, MaxRuns, MaxTrainings   \* bounds

ASSUME LearningAssumption ==
  /\ Sources \in Seq(Collections) /\ Sources # << >>
  /\ \A i, j \in 1..Len(Sources) : i # j => Sources[i] # Sources[j]
  /\ LinesOf \in [Collections -> SUBSET Line]
  /\ TestLogs \subseteq [ip : Attackers, port : Ports, tags : SUBSET Tags]
  /\ \A l \in TestLogs : "port_scan" \notin l.tags
  /\ MaxSteps \in Nat /\ MaxSteps > 2 * High
  /\ MaxTime \in Nat /\ MaxDocs \in Nat /\ MaxTests \in Nat
  /\ MaxRestarts \in Nat
  /\ MaxRuns \in Nat /\ MaxTrainings \in Nat

VARIABLES
  arrived,         \* the source collections' documents in _id order
  normalizedLogs,  \* normalized_logs in insertion order
  loop,            \* [run, turn, last, batch, memory]: normalizer_loop.py
  backfill,        \* [run, turn, batch, memory]: normalized_logs.py
  parser,          \* [run, batch]: parse_honeytrap_logs.py
  trainer,         \* [on, steps, total, fed, finished]: train_sb3.py
  decisions,       \* what trainings decided, [vector, fed]
  trainings

writerVars == <<loop, backfill, parser>>
trainerVars == <<trainer, decisions, trainings>>
vars == <<arrived, normalizedLogs, writerVars, trainerVars>>

-----------------------------------------------------------------------------
Arrive ==
  /\ Len(arrived) < MaxDocs
  /\ \E i \in 1..Len(Sources), t \in 1..MaxTime : \E l \in LinesOf[Sources[i]] :
       arrived' = Append(arrived, [source |-> Sources[i], line |-> l,
                                   timestamp |-> t])
  /\ UNCHANGED <<normalizedLogs, writerVars, trainerVars>>

DocsOf(collection) == {d \in 1..Len(arrived) : arrived[d].source = collection}

(* Mutant: past the last collection.                                       *)
TurnPastTheEnd(turn) == IF turn <= Len(Sources) THEN turn + 1 ELSE 1

NextTurn(turn) == IF turn < Len(Sources) THEN turn + 1 ELSE 1

(* insert_one into normalized_logs.                                        *)
Store(d, by, run, found, tags) ==
  normalizedLogs' = Append(normalizedLogs,
    [doc |-> d, by |-> by, run |-> run, ip |-> found.ip, port |-> found.port,
     tags |-> tags, timestamp |-> arrived[d].timestamp])

First(d, batch) == d \in batch /\ \A e \in batch : d <= e

-----------------------------------------------------------------------------
(* normalizer_loop.py                                                      *)

FreshLoop(run) ==
  [run |-> run, turn |-> 1, last |-> [i \in 1..Len(Sources) |-> 0],
   batch |-> {}, memory |-> {}]

(* find(query).sort("_id", 1), or on to the next collection.               *)
LoopFind ==
  /\ loop.batch = {}
  /\ LET unread == {d \in DocsOf(Sources[loop.turn]) : d > loop.last[loop.turn]}
     IN loop' = IF unread = {} THEN [loop EXCEPT !.turn = NextTurn(loop.turn)]
                ELSE [loop EXCEPT !.batch = unread]
  /\ UNCHANGED <<arrived, normalizedLogs, backfill, parser, trainerVars>>

(* Mutant: last_ids is not moved.                                          *)
LoopPassedNothing(d, memory) ==
  loop' = [loop EXCEPT !.batch = loop.batch \ {d}, !.memory = memory]

LoopPassed(d, memory) ==
  loop' = [run |-> loop.run,
           turn |-> IF loop.batch = {d} THEN NextTurn(loop.turn) ELSE loop.turn,
           last |-> [loop.last EXCEPT ![loop.turn] = d],
           batch |-> loop.batch \ {d}, memory |-> memory]

(* One document: skipped, or tagged, remembered and stored.  An insert     *)
(* that raises ends the process and with it its memory.                    *)
LoopTake ==
  /\ \E d \in loop.batch :
       /\ First(d, loop.batch)
       /\ LET line == arrived[d].line
              found == LoopAddress(line)
          IN IF found = Nowhere
             THEN LoopPassed(d, loop.memory) /\ UNCHANGED normalizedLogs
             ELSE /\ Store(d, "loop", loop.run, found,
                           TagsOf(line, found.ip, loop.memory))
                  /\ LoopPassed(d, Remembered(loop.memory, found))
  /\ UNCHANGED <<arrived, backfill, parser, trainerVars>>

LoopRestart ==
  /\ loop.run < MaxRestarts
  /\ loop' = FreshLoop(loop.run + 1)
  /\ UNCHANGED <<arrived, normalizedLogs, backfill, parser, trainerVars>>

-----------------------------------------------------------------------------
(* normalized_logs.py: turn 0 when it does not run                         *)

BackfillAt(turn, memory) ==
  [run |-> backfill.run, turn |-> turn,
   batch |-> IF turn = 0 THEN {} ELSE DocsOf(Sources[turn]), memory |-> memory]

BackfillStart ==
  /\ backfill.turn = 0 /\ backfill.run < MaxRuns
  /\ backfill' = [BackfillAt(1, {}) EXCEPT !.run = backfill.run + 1]
  /\ UNCHANGED <<arrived, normalizedLogs, loop, parser, trainerVars>>

BackfillTurn ==
  /\ backfill.turn # 0 /\ backfill.batch = {}
  /\ backfill' = BackfillAt(IF backfill.turn < Len(Sources)
                            THEN backfill.turn + 1 ELSE 0, backfill.memory)
  /\ UNCHANGED <<arrived, normalizedLogs, loop, parser, trainerVars>>

(* Mutant: what comes from any collection is remembered.                   *)
BackfillMemoryAll(d, found) == Remembered(backfill.memory, found)

(* Only what comes from Cowrie is remembered, and before it is tagged.     *)
BackfillMemory(d, found) ==
  IF arrived[d].source = "cowrie_logs" THEN Remembered(backfill.memory, found)
  ELSE backfill.memory

(* One document, whether or not the loop has normalized it.                *)
BackfillTake ==
  /\ \E d \in backfill.batch :
       /\ First(d, backfill.batch)
       /\ LET line == arrived[d].line
              found == BackfillAddress(arrived[d].source, line)
              memory == BackfillMemory(d, found)
          IN IF arrived[d].source = "honeytrap_logs" /\ "heartbeat" \in line.words
             THEN /\ backfill' = [backfill EXCEPT !.batch = backfill.batch \ {d}]
                  /\ UNCHANGED normalizedLogs
             ELSE /\ Store(d, "backfill", backfill.run, found,
                           TagsOf(line, found.ip, memory))
                  /\ backfill' = [backfill EXCEPT !.batch = backfill.batch \ {d},
                                                  !.memory = memory]
  /\ UNCHANGED <<arrived, loop, parser, trainerVars>>

BackfillDies ==
  /\ backfill.turn # 0
  /\ backfill' = BackfillAt(0, {})
  /\ UNCHANGED <<arrived, normalizedLogs, loop, parser, trainerVars>>

-----------------------------------------------------------------------------
(* parse_honeytrap_logs.py                                                 *)

ParserStart ==
  /\ parser.batch = {} /\ parser.run < MaxRuns
  /\ parser' = [run |-> parser.run + 1, batch |-> DocsOf("honeytrap_logs")]
  /\ UNCHANGED <<arrived, normalizedLogs, loop, backfill, trainerVars>>

(* Its entries have a field "tag", which nobody reads, and no "tags".      *)
ParserTake ==
  /\ \E d \in parser.batch :
       /\ First(d, parser.batch)
       /\ parser' = [parser EXCEPT !.batch = parser.batch \ {d}]
       /\ IF arrived[d].line.keys.ip \in ParserIgnores
          THEN UNCHANGED normalizedLogs
          ELSE Store(d, "parser", parser.run, arrived[d].line.keys, {})
  /\ UNCHANGED <<arrived, loop, backfill, trainerVars>>

ParserDies ==
  /\ parser.batch # {}
  /\ parser' = [parser EXCEPT !.batch = {}]
  /\ UNCHANGED <<arrived, normalizedLogs, loop, backfill, trainerVars>>

-----------------------------------------------------------------------------
(* simulate_test_logs.py                                                   *)

TestEntry(log, t) ==
  [doc |-> 0, by |-> "simulator", run |-> 0, ip |-> log.ip, port |-> log.port,
   tags |-> log.tags, timestamp |-> t]

(* One of a run's fifty inserts, after any of which it may be stopped.     *)
Simulate ==
  /\ Cardinality({k \in 1..Len(normalizedLogs) :
                    normalizedLogs[k].by = "simulator"}) < MaxTests
  /\ \E log \in TestLogs, t \in 1..MaxTime :
       normalizedLogs' = Append(normalizedLogs, TestEntry(log, t))
  /\ UNCHANGED <<arrived, writerVars, trainerVars>>

-----------------------------------------------------------------------------
(* train_sb3.py                                                            *)

NoEpisode == [done |-> FALSE, total |-> 0, fed |-> FALSE]

FreshTrainer(on) ==
  [on |-> on, steps |-> 0, total |-> 0, fed |-> TRUE, finished |-> NoEpisode]

TrainStart ==
  /\ ~trainer.on /\ trainings < MaxTrainings
  /\ trainings' = trainings + 1
  /\ trainer' = FreshTrainer(TRUE)
  /\ UNCHANGED <<arrived, normalizedLogs, writerVars, decisions>>

(* Totals past the higher threshold decide alike.                          *)
Capped(n) == IF n > 2 * High THEN 2 * High + 1 ELSE n

(* step: the reward of an action does not depend on it, nor on the state   *)
(* that was observed, which is read again for the reward.  A truncated     *)
(* episode is counted and the next one begins.                             *)
TrainStep ==
  /\ trainer.on
  /\ \E S \in Recents(normalizedLogs) :
       LET total == Capped(trainer.total + Reward(normalizedLogs, S))
           fed == trainer.fed /\ KnownAddresses(normalizedLogs, S) # {}
       IN trainer' =
            IF trainer.steps + 1 >= MaxSteps
            THEN [FreshTrainer(TRUE) EXCEPT
                    !.finished = [done |-> TRUE, total |-> total, fed |-> fed]]
            ELSE [trainer EXCEPT !.steps = trainer.steps + 1,
                                 !.total = total, !.fed = fed]
  /\ UNCHANGED <<arrived, normalizedLogs, writerVars, decisions, trainings>>

(* The time limit or Ctrl+C: the finally branch.  An unfinished episode    *)
(* does not count.                                                         *)
TrainEnd ==
  /\ trainer.on
  /\ decisions' = decisions \cup {[vector |-> DecisionFor(trainer.finished.total),
                                   fed |-> trainer.finished.fed]}
  /\ trainer' = FreshTrainer(FALSE)
  /\ UNCHANGED <<arrived, normalizedLogs, writerVars, trainings>>

-----------------------------------------------------------------------------
Init ==
  /\ arrived = << >> /\ normalizedLogs = << >>
  /\ loop = FreshLoop(0)
  /\ backfill = [run |-> 0, turn |-> 0, batch |-> {}, memory |-> {}]
  /\ parser = [run |-> 0, batch |-> {}]
  /\ trainer = FreshTrainer(FALSE) /\ decisions = {} /\ trainings = 0

Next ==
  \/ Arrive
  \/ LoopFind \/ LoopTake \/ LoopRestart
  \/ BackfillStart \/ BackfillTurn \/ BackfillTake \/ BackfillDies
  \/ ParserStart \/ ParserTake \/ ParserDies
  \/ Simulate
  \/ TrainStart \/ TrainStep \/ TrainEnd

Spec == Init /\ [][Next]_vars

-----------------------------------------------------------------------------
(* Properties                                                              *)

Programs == {"loop", "backfill", "parser"}

Entry ==
  [doc : 1..Len(arrived), by : Programs, run : Nat, ip : Addresses,
   port : PortValues, tags : SUBSET Tags, timestamp : Nat]
  \cup {TestEntry(log, t) : log \in TestLogs, t \in 1..MaxTime}

Pairs == Addresses \X Ports

LogsOK ==
  /\ arrived \in Seq([source : Collections, line : Line, timestamp : Nat])
  /\ normalizedLogs \in Seq(Entry)

WritersOK ==
  /\ loop \in [run : Nat, turn : 1..Len(Sources),
               last : [1..Len(Sources) -> Nat], batch : SUBSET (1..Len(arrived)),
               memory : SUBSET Pairs]
  /\ backfill \in [run : Nat, turn : 0..Len(Sources),
                   batch : SUBSET (1..Len(arrived)), memory : SUBSET Pairs]
  /\ parser \in [run : Nat, batch : SUBSET (1..Len(arrived))]

Episode == [done : BOOLEAN, total : Nat, fed : BOOLEAN]

TrainerOK ==
  /\ trainer \in [on : BOOLEAN, steps : Nat, total : Nat, fed : BOOLEAN,
                  finished : Episode]
  /\ decisions \subseteq [vector : {0, 1} \X {0, 1} \X {0, 1} \X {0, 1},
                            fed : BOOLEAN]
  /\ trainings \in Nat

(* Entries, memories and episodes keep their shapes; what a program is     *)
(* about to read exists.                                                   *)
TypeOK == LogsOK /\ WritersOK /\ TrainerOK

Entries == 1..Len(normalizedLogs)

(* The ports that the process which wrote entry k had seen with its        *)
(* address when it tagged it: the loop remembers after tagging, what it    *)
(* stored before; the back-fill before, and only lines of Cowrie.          *)
PortsBefore(k) ==
  LET e == normalizedLogs[k]
      counted == {j \in Entries :
                    LET f == normalizedLogs[j] IN
                    /\ f.by = e.by /\ f.run = e.run /\ f.ip = e.ip
                    /\ \/ e.by = "loop" /\ j < k
                       \/ /\ e.by = "backfill" /\ j <= k
                          /\ arrived[f.doc].source = "cowrie_logs"}
  IN {normalizedLogs[j].port : j \in counted} \cap Ports

(* An entry is tagged port_scan exactly when the process that wrote it has *)
(* stored more than PortLimit ports of its address, though the memory is   *)
(* kept apart from the entries and dies with the process.                  *)
PortScanIsEarned ==
  \A k \in Entries :
    LET e == normalizedLogs[k] IN
    "port_scan" \in e.tags <=>
      e.ip # "unknown" /\ Cardinality(PortsBefore(k)) > PortLimit

(* One run of one program writes at most one entry for a document: entries *)
(* double only because a program is run again or another one has been      *)
(* there, which none of them asks about.                                   *)
OncePerRun ==
  \A j, k \in Entries :
    LET e == normalizedLogs[j]
        f == normalizedLogs[k] IN
    e.by \in Programs /\ e.doc = f.doc /\ e.by = f.by /\ e.run = f.run => j = k

(* Whatever is among the newest entries, an address in them is worth at    *)
(* least one point: the penalty for coming back never eats up the bonus    *)
(* for coming, and only the half point for low activity is lost.           *)
EveryAddressPays ==
  \A S \in Recents(normalizedLogs) :
    Reward(normalizedLogs, S) >=
      2 * Cardinality(KnownAddresses(normalizedLogs, S)) - 1

(* A training whose last episode saw some address in every step, if only   *)
(* one and always the same, ends with all four plugins disabled: 64 half   *)
(* points are more than 20 points.                                         *)
FedTrainingDisables ==
  \A d \in decisions : d.fed => d.vector = <<1, 1, 1, 1>>
=============================================================================
