------------------------------ MODULE Telemetry ------------------------------
(***************************************************************************)
(* How a line of a honeypot's log reaches the predictor.  Forwarders copy  *)
(* lines into the honeypot's source collection, normalizer_loop.py moves   *)
(* the documents it finds there, in _id order, to normalized_logs, and     *)
(* predictor_loop.py looks, every LOOKBACK_SECONDS, at the logs whose      *)
(* timestamp is not before its last check.  One source collection stands   *)
(* for the five: the normalizer keeps a cursor of its own for each.        *)
(* A document gets its _id and its timestamp in the forwarder, and is      *)
(* inserted later; that is where the order of ids and of insertions part.  *)
(* What stands in a line as key=value replaces fields of the document that *)
(* the docker forwarder makes of it, _id and timestamp among them.         *)
(***************************************************************************)
EXTENDS Naturals, Sequences, FiniteSets

CONSTANTS
  Tailers,    \* cowrie_mongodb.py, honeytrap_mongodb.py: from the file's end
  Followers,  \* honeytrap_dockerlog_mongo.py: docker logs -f, from the start
  Texts,      \* what a line may give as its _id, numbered in order
  Lines,      \* the lines the honeypot logs
  Lookback,   \* LOOKBACK_SECONDS, in ticks
  MaxLines, MaxTime, MaxFaults, MaxCrashes   \* bounds

Forwarders == Tailers \cup Followers
None == 0

(* One more than the forwarders: a new process draws a new number.         *)
Ranks == 1..(Cardinality(Forwarders) + 1)

(* Whether extract_ip_port finds an address in the line, and whether the   *)
(* line sets raw_log (to something without it), timestamp, or _id.         *)
Line == [addressed : BOOLEAN, setsLog : BOOLEAN, setsTime : BOOLEAN,
         id : Texts \cup {None}]

ASSUME TelemetryAssumption ==
  /\ IsFiniteSet(Tailers) /\ IsFiniteSet(Followers)
  /\ Tailers \cap Followers = {}
  /\ Texts \subseteq Nat \ {None} /\ Lines \subseteq Line
  /\ Lookback \in Nat /\ MaxLines \in Nat /\ MaxTime \in Nat
  /\ MaxFaults \in Nat /\ MaxCrashes \in Nat

VARIABLES
  lines,       \* the honeypot's log
  forwarder,   \* [pos, rank, held]: how far it has read, what it inserts next
  source,      \* the source collection
  normalizer,  \* [pc, last, batch, held]: normalizer_loop.py
  normalized,  \* normalized_logs in insertion order
  predictor,   \* [pc, started, last, wake]: the check of predictor_loop.py
  now, made, faults, crashes, restarts,
  failed,      \* history: <<forwarder, line>> whose insert failed
  late,        \* history: inserted behind the normalizer's back
  noticed,     \* history: indexes in normalized that a check has counted
  looked       \* history: when the predictor's last completed check began

feedVars == <<lines, forwarder, source, made, failed, late>>
normalizerVars == <<normalizer, normalized, restarts>>
predictorVars == <<predictor, noticed, looked>>
vars == <<feedVars, normalizerVars, predictorVars, now, faults, crashes>>

(* An ObjectId: the second it was made in, a random number of the process  *)
(* that made it, a counter.  Texts, of second 0, sort before ObjectIds.    *)
Before(a, b) ==
  \/ a[1] < b[1]
  \/ a[1] = b[1] /\ a[2] < b[2]
  \/ a[1] = b[1] /\ a[2] = b[2] /\ a[3] < b[3]

NoId == <<0, 0, 0>>

IsText(id) == id[1] = 0

(* Whether {"_id": {"$gt": last}} selects the id: it compares values of    *)
(* one type only.  Without a last id everything is selected.               *)
Selects(last, id) ==
  last = NoId \/ (Before(last, id) /\ (IsText(last) <=> IsText(id)))

-----------------------------------------------------------------------------
(* Forwarders                                                              *)

Emit ==
  /\ Len(lines) < MaxLines
  /\ \E line \in Lines : lines' = Append(lines, line)
  /\ UNCHANGED <<forwarder, source, made, failed, late, normalizerVars,
                 predictorVars, now, faults, crashes>>

(* The document of the next line.  In the docker forwarder's the line's    *)
(* own keys come last: a timestamp is then a text, and no date.            *)
NewDoc(f) ==
  LET next == forwarder[f].pos + 1
      line == lines[next]
  IN [id |-> IF f \in Followers /\ line.id # None THEN <<0, 0, line.id>>
             ELSE <<now, forwarder[f].rank, made + 1>>,
      timestamp |-> now, dated |-> f \in Followers => ~line.setsTime,
      line |-> next, by |-> f,
      addressed |-> line.addressed /\ (f \in Followers => ~line.setsLog)]

(* A line is read and its document made.                                   *)
Read(f) ==
  /\ forwarder[f].held = {} /\ forwarder[f].pos < Len(lines)
  /\ forwarder' = [forwarder EXCEPT ![f] =
        [pos |-> forwarder[f].pos + 1, rank |-> forwarder[f].rank,
         held |-> {NewDoc(f)}]]
  /\ made' = made + 1
  /\ UNCHANGED <<lines, source, failed, late, normalizerVars, predictorVars,
                 now, faults, crashes>>

(* The query of the pass after this one still selects the id: the pass     *)
(* leaves last_ids at the last document of its batch.                      *)
Awaited(id) ==
  IF normalizer.batch = {} THEN Selects(normalizer.last, id)
  ELSE /\ \A b \in normalizer.batch : Before(b.id, id)
       /\ \E b \in normalizer.batch : IsText(b.id) <=> IsText(id)

Store(docs) ==
  /\ source' = source \cup docs
  /\ late' = late \cup {d \in docs : ~Awaited(d.id)}

(* The collection has a document of the _id already.                       *)
Taken(f) == \E d \in source, h \in forwarder[f].held : d.id = h.id

Insert(f) ==
  /\ forwarder[f].held # {} /\ ~Taken(f)
  /\ Store(forwarder[f].held)
  /\ forwarder' = [forwarder EXCEPT ![f].held = {}]
  /\ UNCHANGED <<lines, made, failed, normalizerVars, predictorVars, now,
                 faults, crashes>>

(* The process number of an ObjectId is drawn anew by every process.       *)
FreshRanks == Ranks \ {forwarder[g].rank : g \in Forwarders}

(* Mutant: the docker log is read with --tail 0.                           *)
StartAtEnd(f) == Len(lines)

(* Mutant: the tail does not seek to the end.                              *)
StartAtBeginning(f) == 0

StartOf(f) == IF f \in Tailers THEN Len(lines) ELSE 0

Restarted(f) ==
  \E r \in FreshRanks :
    forwarder' = [forwarder EXCEPT ![f] =
                    [pos |-> StartOf(f), rank |-> r, held |-> {}]]

(* insert_one raises: the _id is taken, or the database fails, whether or  *)
(* not the document arrived.  The docker forwarder goes on with the next   *)
(* line; the others end and are restarted.                                 *)
InsertFails(f) ==
  /\ forwarder[f].held # {}
  /\ \/ Taken(f) /\ faults' = faults
     \/ ~Taken(f) /\ faults < MaxFaults /\ faults' = faults + 1
  /\ \/ ~Taken(f) /\ Store(forwarder[f].held) /\ failed' = failed
     \/ /\ failed' = failed \cup {<<f, d.line>> : d \in forwarder[f].held}
        /\ UNCHANGED <<source, late>>
  /\ IF f \in Followers
     THEN forwarder' = [forwarder EXCEPT ![f].held = {}]
     ELSE Restarted(f)
  /\ UNCHANGED <<lines, made, normalizerVars, predictorVars, now, crashes>>

ForwarderCrash(f) ==
  /\ crashes < MaxCrashes
  /\ crashes' = crashes + 1
  /\ Restarted(f)
  /\ UNCHANGED <<lines, source, made, failed, late, normalizerVars,
                 predictorVars, now, faults>>

-----------------------------------------------------------------------------
(* Normalizer                                                              *)

Waiting == [pc |-> "poll", last |-> NoId, batch |-> {}, held |-> {}]

(* Mutant: $gte instead of $gt.                                            *)
UnreadFromLast ==
  {d \in source : d.id = normalizer.last \/ Selects(normalizer.last, d.id)}

Unread == {d \in source : Selects(normalizer.last, d.id)}

(* find(query).sort("_id", 1): the documents of one pass.  A pass without  *)
(* any does nothing and the loop sleeps.                                   *)
Fetch ==
  /\ normalizer.pc = "poll"
  /\ normalizer' = IF Unread = {} THEN normalizer
                   ELSE [normalizer EXCEPT !.pc = "take", !.batch = Unread]
  /\ UNCHANGED <<feedVars, normalized, restarts, predictorVars, now, faults,
                 crashes>>

(* Mutant: break instead of continue, one document per pass.               *)
PcAfterBreak(rest) == "poll"

PcAfter(rest) == IF rest = {} THEN "poll" ELSE "take"

(* The next document: last_ids moves first, one without address is passed. *)
Take ==
  /\ normalizer.pc = "take"
  /\ \E d \in normalizer.batch :
       /\ \A e \in normalizer.batch \ {d} : Before(d.id, e.id)
       /\ LET rest == normalizer.batch \ {d} IN
            normalizer' =
              IF d.addressed
              THEN [pc |-> "insert", last |-> d.id, batch |-> rest,
                    held |-> {d}]
              ELSE [pc |-> PcAfter(rest), last |-> d.id, batch |-> rest,
                    held |-> {}]
  /\ UNCHANGED <<feedVars, normalized, restarts, predictorVars, now, faults,
                 crashes>>

Normalize ==
  /\ normalizer.pc = "insert"
  /\ \E d \in normalizer.held :
       normalized' = Append(normalized,
         [id |-> d.id, timestamp |-> d.timestamp, dated |-> d.dated,
          looked |-> looked])
  /\ normalizer' = [normalizer EXCEPT !.pc = PcAfter(normalizer.batch),
                                      !.held = {}]
  /\ UNCHANGED <<feedVars, restarts, predictorVars, now, faults, crashes>>

(* Mutant: last_ids is kept across a restart.                              *)
NormalizerCrashKeepsLast ==
  /\ normalizer.pc # "poll" /\ crashes < MaxCrashes
  /\ crashes' = crashes + 1 /\ restarts' = restarts + 1
  /\ normalizer' = [Waiting EXCEPT !.last = normalizer.last]
  /\ UNCHANGED <<feedVars, normalized, predictorVars, now, faults>>

(* A database call raises: only Ctrl+C is caught.  last_ids is in memory,  *)
(* and the next process starts over from the first document.               *)
NormalizerCrash ==
  /\ crashes < MaxCrashes
  /\ crashes' = crashes + 1 /\ restarts' = restarts + 1
  /\ normalizer' = Waiting
  /\ UNCHANGED <<feedVars, normalized, predictorVars, now, faults>>

-----------------------------------------------------------------------------
(* The predictor's check, and time                                         *)

CheckStart ==
  /\ predictor.pc = "sleep" /\ predictor.wake <= now
  /\ predictor' = [predictor EXCEPT !.pc = "look", !.started = now]
  /\ UNCHANGED <<feedVars, normalizerVars, noticed, looked, now, faults, crashes>>

(* {"timestamp": {"$gte": since_time}} selects dates only.                 *)
InWindow ==
  {k \in 1..Len(normalized) :
     normalized[k].dated /\ normalized[k].timestamp >= predictor.last}

(* Mutant: last_check_time is the time at the end of the cycle.            *)
CheckEndLatest ==
  /\ predictor.pc = "look"
  /\ noticed' = noticed \cup InWindow
  /\ looked' = predictor.started
  /\ predictor' = [predictor EXCEPT !.pc = "sleep", !.last = now,
                                    !.wake = now + Lookback]
  /\ UNCHANGED <<feedVars, normalizerVars, now, faults, crashes>>

(* The query, and last_check_time = now at the end of the cycle.           *)
CheckEnd ==
  /\ predictor.pc = "look"
  /\ noticed' = noticed \cup InWindow
  /\ looked' = predictor.started
  /\ predictor' = [predictor EXCEPT !.pc = "sleep", !.last = predictor.started,
                                    !.wake = now + Lookback]
  /\ UNCHANGED <<feedVars, normalizerVars, now, faults, crashes>>

FirstCheck(t) ==
  [pc |-> "sleep", started |-> 0,
   last |-> IF t > Lookback THEN t - Lookback ELSE 0, wake |-> t]

PredictorCrash ==
  /\ crashes < MaxCrashes
  /\ crashes' = crashes + 1
  /\ predictor' = FirstCheck(now)
  /\ looked' = FirstCheck(now).last
  /\ UNCHANGED <<feedVars, normalizerVars, noticed, now, faults>>

Tick ==
  /\ now < MaxTime
  /\ now' = now + 1
  /\ UNCHANGED <<feedVars, normalizerVars, predictorVars, faults, crashes>>

-----------------------------------------------------------------------------
Init ==
  /\ lines = << >> /\ source = {} /\ normalized = << >>
  /\ \E rank \in [Forwarders -> Ranks] :
       /\ \A f, g \in Forwarders : f # g => rank[f] # rank[g]
       /\ forwarder = [f \in Forwarders |->
                         [pos |-> 0, rank |-> rank[f], held |-> {}]]
  /\ normalizer = Waiting
  /\ now = 1 /\ predictor = FirstCheck(1) /\ looked = FirstCheck(1).last
  /\ made = 0 /\ faults = 0 /\ crashes = 0 /\ restarts = 0
  /\ failed = {} /\ late = {} /\ noticed = {}

NormalizerNext == Fetch \/ Take \/ Normalize

Next ==
  \/ Emit
  \/ \E f \in Forwarders :
       Read(f) \/ Insert(f) \/ InsertFails(f) \/ ForwarderCrash(f)
  \/ NormalizerNext \/ NormalizerCrash
  \/ CheckStart \/ CheckEnd \/ PredictorCrash
  \/ Tick

Spec == Init /\ [][Next]_vars

(* normalizer_loop.py runs on, and is started again when it dies.          *)
FairSpec == Spec /\ WF_vars(NormalizerNext)

-----------------------------------------------------------------------------
(* Properties                                                              *)

Ids == Nat \X Nat \X Nat

SourceDoc ==
  [id : Ids, timestamp : Nat, dated : BOOLEAN, line : Nat, by : Forwarders,
   addressed : BOOLEAN]

ForwardersOK ==
  /\ lines \in Seq(Line)
  /\ forwarder \in [Forwarders -> [pos : Nat, rank : Nat,
                                   held : SUBSET SourceDoc]]
  /\ \A f \in Forwarders : forwarder[f].pos <= Len(lines)
  /\ source \subseteq SourceDoc /\ late \subseteq source
  /\ made \in Nat /\ failed \subseteq Forwarders \X Nat

NormalizerOK ==
  /\ normalizer \in [pc : {"poll", "take", "insert"}, last : Ids,
                     batch : SUBSET SourceDoc, held : SUBSET SourceDoc]
  /\ normalizer.batch \cup normalizer.held \subseteq source
  /\ (normalizer.pc = "insert") <=> (normalizer.held # {})
  /\ normalizer.pc = "poll" => normalizer.batch = {}
  /\ normalized \in Seq([id : Ids, timestamp : Nat, dated : BOOLEAN,
                        looked : Nat])
  /\ restarts \in Nat

PredictorOK ==
  /\ predictor \in [pc : {"sleep", "look"}, started : Nat, last : Nat,
                    wake : Nat]
  /\ noticed \subseteq 1..Len(normalized) /\ looked \in Nat
  /\ now \in Nat /\ faults \in Nat /\ crashes \in Nat

(* Forwarders, normalizer and predictor keep well-formed state; what the   *)
(* normalizer is working on is in the source collection.                   *)
TypeOK == ForwardersOK /\ NormalizerOK /\ PredictorOK

(* A forwarder that starts at the end of the file never stores a line a    *)
(* second time, however often it is restarted.                             *)
TailersNeverRepeat ==
  \A d, e \in source :
    d.by = e.by /\ d.by \in Tailers /\ d.line = e.line => d = e

(* The docker forwarder has stored, or is about to store, every line up to *)
(* where it has read, except those whose insert it gave up.                *)
FollowersSkipNothing ==
  \A f \in Followers : \A n \in 1..forwarder[f].pos :
    \/ \E d \in source \cup forwarder[f].held : d.by = f /\ d.line = n
    \/ <<f, n>> \in failed

Copies(d) == {k \in 1..Len(normalized) : normalized[k].id = d.id}

(* One process of the normalizer normalizes a document at most once.       *)
NormalizedOncePerRun ==
  \A d \in source : Cardinality(Copies(d)) <= 1 + restarts

Handled(d) == ~d.addressed \/ Copies(d) # {}

(* A document the cursor has passed is normalized, or being normalized, or *)
(* carries nothing to normalize, or was inserted where the cursor would    *)
(* not come by any more: behind it, or among ids of another type.          *)
PassedIsHandled ==
  \A d \in source :
    \/ Awaited(d.id)
    \/ d \in normalizer.batch \cup normalizer.held
    \/ Handled(d) \/ d \in late

(* A normalized log that no check can select any more has been counted,    *)
(* unless a check that began after the log's timestamp had ended before    *)
(* the log was normalized, or the line had put a text where the forwarder  *)
(* puts a date.  (A restart drops the window: crashes excuse.)             *)
MissedOnlyWhenLate ==
  crashes = 0 =>
  \A k \in 1..Len(normalized) :
    \/ normalized[k].timestamp >= predictor.last
    \/ k \in noticed
    \/ normalized[k].timestamp < normalized[k].looked
    \/ ~normalized[k].dated

(* A tail reads a line once, the docker forwarder once in each of its lives. *)
MaxMade ==
  MaxLines * (Cardinality(Tailers) + Cardinality(Followers) * (1 + MaxCrashes))

Numbered(text, n) == {d \in source : IsText(d.id) = text /\ d.id[3] = n}

(* Every document that reaches the source collection in time is normalized *)
(* in the end, or has nothing to normalize, though the normalizer may die  *)
(* between moving its cursor and inserting, and whoever chose the _id.     *)
EventuallyNormalized ==
  \A text \in BOOLEAN : \A n \in IF text THEN Texts ELSE 1..MaxMade :
    (\E d \in Numbered(text, n) : d \notin late) ~>
      (\E d \in Numbered(text, n) : Handled(d))
=============================================================================
