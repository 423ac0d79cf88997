--------------------------- MODULE LearningProofs ---------------------------
(***************************************************************************)
(* Proofs about Learning, for any lines, limits and lengths: what the      *)
(* memories of the two normalizers hold compared with what they stored,    *)
(* what one run of a program writes, what an address is worth, and what a  *)
(* training decides.                                                       *)
(***************************************************************************)
EXTENDS Learning, WellFoundedInduction, FiniteSetTheorems, SequenceTheorems,
        TLAPS

(* There is a least among some natural numbers.                            *)
LEMMA LeastNumber ==
  ASSUME NEW S \in SUBSET Nat, S # {}
  PROVE  \E x \in S : \A y \in S : x <= y
<1>1. PICK x \in S : \A y \in S : <<y, x>> \notin OpToRel(<, Nat)
  <2>1. S \subseteq Nat  OBVIOUS
  <2> QED  BY <2>1, NatLessThanWellFounded, WFMin, Zenon
<1>2. \A y \in S : ~(y < x)
  BY <1>1 DEF OpToRel
<1> QED  BY <1>2

(* So the foremost place of some places is one of them.                    *)
LEMMA ForemostIsOne ==
  ASSUME NEW S \in SUBSET Nat, S # {}
  PROVE  Foremost(S) \in S
BY LeastNumber DEF Foremost

LEMMA FirstsAreSome ==
  ASSUME NEW S
  PROVE  Firsts(S) \subseteq S
BY DEF Firsts

LEMMA MentionsOfALine ==
  ASSUME NEW line \in Line
  PROVE  /\ line.mentions \in Seq(Mention) /\ line.portWord \in PortValues
         /\ line.words \subseteq Words /\ line.field \in Found
         /\ line.keys \in Found
         /\ \A i \in 1..Len(line.mentions) :
              [ip |-> line.mentions[i].ip, port |-> line.mentions[i].port] \in Found
<1>1. line.mentions \in Seq(Mention) /\ line.portWord \in PortValues
      /\ line.words \subseteq Words /\ line.field \in Found /\ line.keys \in Found
  BY DEF Line, PortValues
<1>2. ASSUME NEW i \in 1..Len(line.mentions)
      PROVE  [ip |-> line.mentions[i].ip, port |-> line.mentions[i].port] \in Found
  <2>1. line.mentions[i] \in Mention
    BY <1>1, ElementOfSeq
  <2> QED  BY <2>1 DEF Mention, Found, PortValues
<1> QED  BY <1>1, <1>2

(* What the loop finds in a line are an address and a port, or "unknown".  *)
LEMMA LoopFinds ==
  ASSUME NEW line \in Line
  PROVE  LoopAddress(line) \in Found
<1> DEFINE n == Len(line.mentions)
           outside == {i \in Places(line, {"connection", "pair"}) :
                         line.mentions[i].ip \notin LoopIgnores}
           bracket == Places(line, {"bracket"})
<1>1. n \in Nat
  BY MentionsOfALine, LenProperties
<1>2. outside \subseteq 1..n /\ bracket \subseteq 1..n
  BY DEF Places
<1>3. outside \in SUBSET Nat /\ bracket \in SUBSET Nat
  BY <1>1, <1>2
<1>4. CASE outside # {}
  <2>1. Foremost(outside) \in 1..n
    BY <1>2, <1>3, <1>4, ForemostIsOne
  <2>2. LoopAddress(line) = [ip |-> line.mentions[Foremost(outside)].ip,
                             port |-> line.mentions[Foremost(outside)].port]
    BY <1>4 DEF LoopAddress
  <2> QED  BY <2>1, <2>2, MentionsOfALine
<1>5. CASE outside = {}
  <2>1. LoopAddress(line) =
          [ip |-> IF bracket = {} THEN "unknown"
                  ELSE line.mentions[Foremost(bracket)].ip,
           port |-> line.portWord]
    BY <1>5 DEF LoopAddress
  <2>2. bracket # {} => line.mentions[Foremost(bracket)].ip \in Addresses
    <3> SUFFICES ASSUME bracket # {}
                 PROVE  line.mentions[Foremost(bracket)].ip \in Addresses
      OBVIOUS
    <3>1. Foremost(bracket) \in 1..n
      BY <1>2, <1>3, ForemostIsOne
    <3> QED  BY <3>1, MentionsOfALine DEF Found
  <2>3. "unknown" \in Addresses /\ line.portWord \in PortValues
    BY MentionsOfALine DEF Addresses
  <2> QED  BY <2>1, <2>2, <2>3 DEF Found
<1> QED  BY <1>4, <1>5

LEMMA NowhereIsFound == Nowhere \in Found
BY DEF Nowhere, Found, Addresses, PortValues

(* And so is what parse_any_ip_port finds.                                 *)
LEMMA ParserFinds ==
  ASSUME NEW line \in Line
  PROVE  ParsedAddress(line) \in Found
<1> DEFINE n == Len(line.mentions)
           places == Attempts(line)
           outside == {k \in 1..4 : \E i \in places[k] :
                         line.mentions[i].ip \notin BackfillIgnores}
           hit == line.mentions[Foremost(places[Foremost(outside)])]
<1>1. n \in Nat /\ line.mentions \in Seq(Mention)
  BY MentionsOfALine, LenProperties
<1>2. \A k \in 1..4 : places[k] \subseteq 1..n
  BY FirstsAreSome DEF Attempts, Places
<1>3. CASE outside # {}
  <2>1. Foremost(outside) \in outside
    <3>1. outside \in SUBSET Nat  OBVIOUS
    <3> QED  BY <3>1, <1>3, ForemostIsOne
  <2>2. places[Foremost(outside)] # {} /\ places[Foremost(outside)] \in SUBSET Nat
    <3>1. PICK k \in 1..4 : k = Foremost(outside)
      BY <2>1
    <3>2. places[k] \subseteq 1..n /\ places[k] # {}
      BY <2>1, <3>1, <1>2
    <3>3. 1..n \subseteq Nat
      BY <1>1
    <3> HIDE DEF places, outside, n
    <3> QED  BY <3>1, <3>2, <3>3
  <2>3. Foremost(places[Foremost(outside)]) \in 1..n
    BY <2>1, <2>2, <1>2, ForemostIsOne
  <2>4. ParsedAddress(line) = [ip |-> hit.ip, port |-> hit.port]
    BY <1>3 DEF ParsedAddress
  <2> QED  BY <2>3, <2>4, MentionsOfALine
<1>4. CASE outside = {}
  <2>1. ParsedAddress(line) =
          IF line.mentions # << >> /\ line.mentions[1].ip \notin BackfillIgnores
          THEN [ip |-> line.mentions[1].ip, port |-> line.portWord]
          ELSE Nowhere
    BY <1>4 DEF ParsedAddress
  <2>2. line.mentions # << >> =>
          [ip |-> line.mentions[1].ip, port |-> line.portWord] \in Found
    <3> SUFFICES ASSUME line.mentions # << >>
                 PROVE  [ip |-> line.mentions[1].ip, port |-> line.portWord]
                          \in Found
      OBVIOUS
    <3>1. 1 \in 1..n
      BY <1>1, EmptySeq
    <3> QED  BY <3>1, MentionsOfALine DEF Found
  <2> QED  BY <2>1, <2>2, NowhereIsFound
<1> QED  BY <1>3, <1>4

LEMMA BackfillFinds ==
  ASSUME NEW line \in Line, NEW c \in Collections
  PROVE  BackfillAddress(c, line) \in Found
<1>1. ParsedAddress(line) \in Found /\ line.field \in Found /\ Nowhere \in Found
  BY ParserFinds, MentionsOfALine, NowhereIsFound
<1>2. "80" \in PortValues
  BY ScoringAssumption DEF PortValues
<1>3. CASE c = "nodepot_logs"
  <2>1. BackfillAddress(c, line) =
          [ip |-> IF line.field.ip # "unknown" THEN line.field.ip
                  ELSE ParsedAddress(line).ip, port |-> "80"]
    BY <1>3 DEF BackfillAddress
  <2> QED  BY <1>1, <1>2, <2>1 DEF Found
<1>4. CASE c \in {"honeypy_logs", "honeytrap_logs"}
  BY <1>1, <1>4 DEF BackfillAddress
<1>5. CASE c = "conpot_logs"
  BY <1>1, <1>5 DEF BackfillAddress
<1>6. CASE c = "cowrie_logs"
  BY <1>1, <1>6 DEF BackfillAddress
<1> QED  BY <1>3, <1>4, <1>5, <1>6 DEF Collections

LEMMA TagsAreTags ==
  ASSUME NEW line \in Line, NEW ip, NEW memory
  PROVE  TagsOf(line, ip, memory) \subseteq Tags
BY DEF TagsOf, Tags

LEMMA RememberedPairs ==
  ASSUME NEW memory \in SUBSET Pairs, NEW found \in Found
  PROVE  Remembered(memory, found) \in SUBSET Pairs
BY DEF Remembered, Pairs, Found

-----------------------------------------------------------------------------
(* Types                                                                   *)

Doc == [source : Collections, line : Line, timestamp : Nat]

LEMMA DocsAreDocs ==
  ASSUME LogsOK, NEW d \in 1..Len(arrived)
  PROVE  arrived[d] \in Doc /\ arrived[d].line \in Line
         /\ arrived[d].source \in Collections /\ arrived[d].timestamp \in Nat
<1>1. arrived[d] \in Doc
  BY ElementOfSeq DEF LogsOK, Doc
<1> QED  BY <1>1 DEF Doc

LEMMA LengthsAreNumbers ==
  ASSUME LogsOK
  PROVE  Len(arrived) \in Nat /\ Len(normalizedLogs) \in Nat
BY LenProperties DEF LogsOK

LEMMA SourcesAreCollections ==
  ASSUME NEW i \in 1..Len(Sources)
  PROVE  Sources[i] \in Collections
BY LearningAssumption, ElementOfSeq

LEMMA TurnsExist ==
  /\ Len(Sources) \in Nat /\ 1 \in 1..Len(Sources)
  /\ \A t \in 1..Len(Sources) : NextTurn(t) \in 1..Len(Sources)
<1>1. Len(Sources) \in Nat /\ Len(Sources) # 0
  BY LearningAssumption, LenProperties, EmptySeq
<1> QED  BY <1>1 DEF NextTurn

LEMMA StoreKeepsTypes ==
  ASSUME LogsOK, UNCHANGED arrived, NEW d \in 1..Len(arrived),
         NEW by \in Programs, NEW run \in Nat, NEW found \in Found,
         NEW tags \in SUBSET Tags, Store(d, by, run, found, tags)
  PROVE  LogsOK'
<1> DEFINE e == [doc |-> d, by |-> by, run |-> run, ip |-> found.ip,
                 port |-> found.port, tags |-> tags,
                 timestamp |-> arrived[d].timestamp]
<1>1. e \in Entry
  BY DocsAreDocs DEF Entry, Found
<1>2. normalizedLogs' = Append(normalizedLogs, e)
  BY DEF Store
<1>3. Entry' = Entry
  BY DEF Entry
<1> HIDE DEF e
<1>4. normalizedLogs' \in Seq(Entry)
  BY <1>1, <1>2, AppendProperties DEF LogsOK
<1> QED  BY <1>3, <1>4 DEF LogsOK

LEMMA SimulateKeepsTypes ==
  ASSUME TypeOK, Simulate
  PROVE  TypeOK'
<1>1. PICK log \in TestLogs, t \in 1..MaxTime :
        normalizedLogs' = Append(normalizedLogs, TestEntry(log, t))
  BY DEF Simulate
<1>2. TestEntry(log, t) \in Entry /\ Entry' = Entry
  BY DEF Entry, Simulate
<1>3. normalizedLogs' \in Seq(Entry)
  BY <1>1, <1>2, AppendProperties DEF TypeOK, LogsOK
<1>4. LogsOK'
  BY <1>2, <1>3 DEF TypeOK, LogsOK, Simulate
<1>5. WritersOK' /\ TrainerOK'
  BY DEF TypeOK, WritersOK, TrainerOK, Simulate, writerVars, trainerVars, Pairs,
     Episode
<1> QED  BY <1>4, <1>5 DEF TypeOK

LEMMA TypeOKInit == Init => TypeOK
<1> SUFFICES ASSUME Init PROVE TypeOK
  OBVIOUS
<1>1. LogsOK
  BY EmptySeq DEF Init, LogsOK
<1>2. WritersOK
  BY TurnsExist DEF Init, WritersOK, FreshLoop
<1>3. TrainerOK
  BY DEF Init, TrainerOK, FreshTrainer, NoEpisode, Episode
<1> QED  BY <1>1, <1>2, <1>3 DEF TypeOK

LEMMA ArriveKeepsTypes ==
  ASSUME TypeOK, Arrive
  PROVE  TypeOK'
<1>1. PICK i \in 1..Len(Sources), t \in 1..MaxTime :
        \E l \in LinesOf[Sources[i]] :
          arrived' = Append(arrived, [source |-> Sources[i], line |-> l,
                                      timestamp |-> t])
  BY DEF Arrive
<1>2. PICK l \in LinesOf[Sources[i]] :
        arrived' = Append(arrived, [source |-> Sources[i], line |-> l,
                                    timestamp |-> t])
  BY <1>1
<1> DEFINE doc == [source |-> Sources[i], line |-> l, timestamp |-> t]
<1>3. doc \in Doc
  BY LearningAssumption, SourcesAreCollections DEF Doc
<1>4. arrived \in Seq(Doc) /\ arrived' = Append(arrived, doc)
  BY <1>2 DEF TypeOK, LogsOK, Doc
<1> HIDE DEF doc
<1>5. arrived' \in Seq(Doc) /\ Len(arrived') = Len(arrived) + 1
  BY <1>3, <1>4, AppendProperties
<1>6. Len(arrived) \in Nat
  BY LengthsAreNumbers DEF TypeOK
<1>7. 1..Len(arrived) \subseteq 1..Len(arrived')
  BY <1>5, <1>6
<1>8. Entry \subseteq Entry'
  BY <1>7 DEF Entry
<1>9. normalizedLogs \in Seq(Entry')
  BY <1>8, SeqMonotonic DEF TypeOK, LogsOK
<1>10. LogsOK'
  BY <1>5, <1>9 DEF LogsOK, Doc, Arrive
<1>11. WritersOK'
  <2>1. /\ loop.batch \subseteq 1..Len(arrived')
        /\ backfill.batch \subseteq 1..Len(arrived')
        /\ parser.batch \subseteq 1..Len(arrived')
    BY <1>7 DEF TypeOK, WritersOK
  <2> QED  BY <2>1 DEF TypeOK, WritersOK, Arrive, writerVars, Pairs
<1>12. TrainerOK'
  BY DEF TypeOK, TrainerOK, Arrive, trainerVars, Episode
<1> QED  BY <1>10, <1>11, <1>12 DEF TypeOK

(* Every action but Arrive leaves the documents alone; those that do not   *)
(* store leave the entries alone too.                                      *)
LEMMA NothingStored ==
  ASSUME LogsOK, UNCHANGED <<arrived, normalizedLogs>>
  PROVE  LogsOK'
BY DEF LogsOK, Entry

LEMMA TrainerUntouched ==
  ASSUME TrainerOK, UNCHANGED trainerVars
  PROVE  TrainerOK'
BY DEF TrainerOK, trainerVars, Episode

LEMMA DocsOfAreDocs ==
  ASSUME NEW c
  PROVE  DocsOf(c) \subseteq 1..Len(arrived)
BY DEF DocsOf

LEMMA LoopKeepsTypes ==
  ASSUME TypeOK, LoopFind \/ LoopTake \/ LoopRestart
  PROVE  TypeOK'
<1> USE DEF TypeOK
<1>1. CASE LoopFind
  <2> DEFINE unread == {d \in DocsOf(Sources[loop.turn]) : d > loop.last[loop.turn]}
  <2>1. unread \subseteq 1..Len(arrived)
    BY DocsOfAreDocs
  <2>2. loop' = IF unread = {} THEN [loop EXCEPT !.turn = NextTurn(loop.turn)]
                ELSE [loop EXCEPT !.batch = unread]
    BY <1>1 DEF LoopFind
  <2> HIDE DEF unread
  <2>3. WritersOK'
    BY <1>1, <2>1, <2>2, TurnsExist DEF WritersOK, LoopFind, Pairs
  <2> QED  BY <1>1, <2>3, NothingStored, TrainerUntouched DEF LoopFind
<1>2. CASE LoopRestart
  <2>1. WritersOK'
    <3>1. PICK run \in Nat : run = loop.run + 1
      BY DEF WritersOK
    <3>2. /\ loop'.run = run /\ loop'.turn = 1 /\ loop'.batch = {}
          /\ loop'.last = [i \in 1..Len(Sources) |-> 0] /\ loop'.memory = {}
          /\ loop' = [run |-> loop'.run, turn |-> loop'.turn, last |-> loop'.last,
                      batch |-> loop'.batch, memory |-> loop'.memory]
      BY <1>2, <3>1 DEF LoopRestart, FreshLoop
    <3> QED  BY <1>2, <3>2, TurnsExist DEF WritersOK, LoopRestart, Pairs
  <2> QED  BY <1>2, <2>1, NothingStored, TrainerUntouched DEF LoopRestart
<1>3. CASE LoopTake
  <2>1. PICK d \in loop.batch :
          LET line == arrived[d].line
              found == LoopAddress(line)
          IN IF found = Nowhere
             THEN LoopPassed(d, loop.memory) /\ UNCHANGED normalizedLogs
             ELSE /\ Store(d, "loop", loop.run, found,
                           TagsOf(line, found.ip, loop.memory))
                  /\ LoopPassed(d, Remembered(loop.memory, found))
    BY <1>3 DEF LoopTake
  <2>2. d \in 1..Len(arrived) /\ loop.memory \in SUBSET Pairs /\ loop.run \in Nat
        /\ d \in Nat
    BY LengthsAreNumbers DEF WritersOK
  <2>3. arrived[d].line \in Line
    BY <2>2, DocsAreDocs
  <2>4. PICK found \in Found : found = LoopAddress(arrived[d].line)
    BY <2>3, LoopFinds
  <2>5. ASSUME NEW memory \in SUBSET Pairs, LoopPassed(d, memory)
        PROVE  WritersOK'
    BY <1>3, <2>2, <2>5, TurnsExist DEF WritersOK, LoopPassed, LoopTake, Pairs
  <2>6. WritersOK'
    <3>1. Remembered(loop.memory, found) \in SUBSET Pairs
      BY <2>2, RememberedPairs
    <3> QED  BY <2>1, <2>2, <2>4, <2>5, <3>1
  <2>7. LogsOK'
    <3>1. UNCHANGED arrived
      BY <1>3 DEF LoopTake
    <3>2. CASE found = Nowhere
      BY <2>1, <2>4, <3>1, <3>2, NothingStored
    <3>3. CASE found # Nowhere
      <4>1. PICK tags \in SUBSET Tags :
              tags = TagsOf(arrived[d].line, found.ip, loop.memory)
        BY <2>3, TagsAreTags
      <4>2. Store(d, "loop", loop.run, found, tags)
        BY <2>1, <2>4, <3>3, <4>1
      <4>3. "loop" \in Programs
        BY DEF Programs
      <4> QED  BY <2>2, <3>1, <4>2, <4>3, StoreKeepsTypes
    <3> QED  BY <3>2, <3>3
  <2> QED  BY <1>3, <2>6, <2>7, TrainerUntouched DEF LoopTake
<1> QED  BY <1>1, <1>2, <1>3

LEMMA BackfillKeepsTypes ==
  ASSUME TypeOK, BackfillStart \/ BackfillTurn \/ BackfillTake \/ BackfillDies
  PROVE  TypeOK'
<1> USE DEF TypeOK
<1>1. ASSUME NEW t \in 0..Len(Sources), NEW memory \in SUBSET Pairs
      PROVE  BackfillAt(t, memory) \in
               [run : Nat, turn : 0..Len(Sources),
                batch : SUBSET (1..Len(arrived)), memory : SUBSET Pairs]
  BY DocsOfAreDocs DEF BackfillAt, WritersOK
<1>2. {} \in SUBSET Pairs /\ backfill.memory \in SUBSET Pairs
      /\ 0 \in 0..Len(Sources) /\ 1 \in 0..Len(Sources)
  BY TurnsExist DEF WritersOK
<1>3. ASSUME UNCHANGED <<arrived, loop, parser>>,
             backfill' \in [run : Nat, turn : 0..Len(Sources),
                            batch : SUBSET (1..Len(arrived)),
                            memory : SUBSET Pairs]
      PROVE  WritersOK'
  BY <1>3 DEF WritersOK, Pairs
<1>4. CASE BackfillStart
  <2>1. PICK b \in [run : Nat, turn : 0..Len(Sources),
                    batch : SUBSET (1..Len(arrived)), memory : SUBSET Pairs] :
          b = BackfillAt(1, {})
    BY <1>1, <1>2
  <2>2. backfill' = [b EXCEPT !.run = backfill.run + 1] /\ backfill.run \in Nat
    BY <1>4, <2>1 DEF BackfillStart, WritersOK
  <2>3. WritersOK'
    BY <1>3, <1>4, <2>2 DEF BackfillStart
  <2> QED  BY <1>4, <2>3, NothingStored, TrainerUntouched DEF BackfillStart
<1>5. CASE BackfillTurn
  <2>1. PICK t \in 0..Len(Sources) :
          t = IF backfill.turn < Len(Sources) THEN backfill.turn + 1 ELSE 0
    BY TurnsExist DEF WritersOK
  <2>2. WritersOK'
    BY <1>1, <1>2, <1>3, <1>5, <2>1 DEF BackfillTurn
  <2> QED  BY <1>5, <2>2, NothingStored, TrainerUntouched DEF BackfillTurn
<1>6. CASE BackfillDies
  <2>1. WritersOK'
    BY <1>1, <1>2, <1>3, <1>6 DEF BackfillDies
  <2> QED  BY <1>6, <2>1, NothingStored, TrainerUntouched DEF BackfillDies
<1>7. CASE BackfillTake
  <2>1. PICK d \in backfill.batch :
          LET line == arrived[d].line
              found == BackfillAddress(arrived[d].source, line)
              memory == BackfillMemory(d, found)
          IN IF arrived[d].source = "honeytrap_logs" /\ "heartbeat" \in line.words
             THEN /\ backfill' = [backfill EXCEPT !.batch = backfill.batch \ {d}]
                  /\ UNCHANGED normalizedLogs
             ELSE /\ Store(d, "backfill", backfill.run, found,
                           TagsOf(line, found.ip, memory))
                  /\ backfill' = [backfill EXCEPT !.batch = backfill.batch \ {d},
                                                  !.memory = memory]
    BY <1>7 DEF BackfillTake
  <2>2. d \in 1..Len(arrived) /\ backfill.run \in Nat
    BY DEF WritersOK
  <2>3. arrived[d].line \in Line /\ arrived[d].source \in Collections
    BY <2>2, DocsAreDocs
  <2>4. PICK found \in Found :
          found = BackfillAddress(arrived[d].source, arrived[d].line)
    BY <2>3, BackfillFinds
  <2>5. PICK memory \in SUBSET Pairs : memory = BackfillMemory(d, found)
    BY <1>2, RememberedPairs DEF BackfillMemory
  <2>6. PICK tags \in SUBSET Tags : tags = TagsOf(arrived[d].line, found.ip, memory)
    BY <2>3, TagsAreTags
  <2>7. UNCHANGED <<arrived, loop, parser>> /\ UNCHANGED trainerVars
    BY <1>7 DEF BackfillTake
  <2>8. \/ /\ backfill' = [backfill EXCEPT !.batch = backfill.batch \ {d}]
           /\ UNCHANGED normalizedLogs
        \/ /\ Store(d, "backfill", backfill.run, found, tags)
           /\ backfill' = [backfill EXCEPT !.batch = backfill.batch \ {d},
                                           !.memory = memory]
    BY <2>1, <2>4, <2>5, <2>6
  <2>9. WritersOK'
    BY <1>3, <2>7, <2>8 DEF WritersOK
  <2>10. LogsOK'
    <3>1. "backfill" \in Programs
      BY DEF Programs
    <3> QED  BY <2>2, <2>7, <2>8, <3>1, NothingStored, StoreKeepsTypes
  <2> QED  BY <2>7, <2>9, <2>10, TrainerUntouched
<1> QED  BY <1>4, <1>5, <1>6, <1>7

LEMMA ParserKeepsTypes ==
  ASSUME TypeOK, ParserStart \/ ParserTake \/ ParserDies
  PROVE  TypeOK'
<1> USE DEF TypeOK
<1>1. CASE ParserStart
  <2>1. WritersOK'
    BY <1>1, DocsOfAreDocs DEF ParserStart, WritersOK, Pairs
  <2> QED  BY <1>1, <2>1, NothingStored, TrainerUntouched DEF ParserStart
<1>2. CASE ParserDies
  <2>1. WritersOK'
    BY <1>2 DEF ParserDies, WritersOK, Pairs
  <2> QED  BY <1>2, <2>1, NothingStored, TrainerUntouched DEF ParserDies
<1>3. CASE ParserTake
  <2>1. PICK d \in parser.batch :
          /\ parser' = [parser EXCEPT !.batch = parser.batch \ {d}]
          /\ IF arrived[d].line.keys.ip \in ParserIgnores
             THEN UNCHANGED normalizedLogs
             ELSE Store(d, "parser", parser.run, arrived[d].line.keys, {})
    BY <1>3 DEF ParserTake
  <2>2. d \in 1..Len(arrived) /\ parser.run \in Nat
    BY DEF WritersOK
  <2>3. PICK keys \in Found : keys = arrived[d].line.keys
    BY <2>2, DocsAreDocs, MentionsOfALine
  <2>4. WritersOK'
    BY <1>3, <2>1 DEF ParserTake, WritersOK, Pairs
  <2>5. LogsOK'
    <3>1. "parser" \in Programs /\ {} \in SUBSET Tags /\ UNCHANGED arrived
      BY <1>3 DEF Programs, ParserTake
    <3>2. UNCHANGED normalizedLogs \/ Store(d, "parser", parser.run, keys, {})
      BY <2>1, <2>3
    <3> QED  BY <2>2, <3>1, <3>2, NothingStored, StoreKeepsTypes
  <2> QED  BY <1>3, <2>4, <2>5, TrainerUntouched DEF ParserTake
<1> QED  BY <1>1, <1>2, <1>3

-----------------------------------------------------------------------------
(* Rewards                                                                 *)

LEMMA FiniteAddresses == IsFiniteSet(Addresses) /\ IsFiniteSet(PortValues)
<1>1. IsFiniteSet({"management", "honeytrap", "honeypot", "local", "unknown", ""})
      /\ IsFiniteSet({"unknown", "None"})
  <2>1. ASSUME NEW x, NEW y
        PROVE  IsFiniteSet({x, y})
    <3>1. {x, y} = {x} \cup {y}
      OBVIOUS
    <3>2. IsFiniteSet({x}) /\ IsFiniteSet({y})
      BY FS_Singleton, Zenon
    <3>3. IsFiniteSet({x} \cup {y})
      BY <3>2, FS_Union, Zenon
    <3> QED  BY <3>1, <3>3
  <2>2. IsFiniteSet({"management", "honeytrap"} \cup
                    ({"honeypot", "local"} \cup {"unknown", ""}))
    BY <2>1, FS_Union
  <2>3. {"management", "honeytrap", "honeypot", "local", "unknown", ""} =
          {"management", "honeytrap"} \cup
          ({"honeypot", "local"} \cup {"unknown", ""})
    OBVIOUS
  <2> QED  BY <2>1, <2>2, <2>3, Zenon
<1>2. IsFiniteSet(Attackers \cup {"management", "honeytrap", "honeypot", "local",
                                  "unknown", ""})
      /\ IsFiniteSet(Ports \cup {"unknown", "None"})
  BY <1>1, ScoringAssumption, FS_Union
<1>3. Addresses = Attackers \cup {"management", "honeytrap", "honeypot", "local",
                                  "unknown", ""}
  BY DEF Addresses, OwnHosts
<1> QED  BY <1>2, <1>3 DEF PortValues

LEMMA EntriesAreEntries ==
  ASSUME LogsOK, NEW k \in 1..Len(normalizedLogs)
  PROVE  /\ normalizedLogs[k].ip \in Addresses
         /\ normalizedLogs[k].port \in PortValues
         /\ normalizedLogs[k].run \in Nat
         /\ normalizedLogs[k].by \in Programs \cup {"simulator"}
         /\ normalizedLogs[k].by \in Programs =>
              normalizedLogs[k].doc \in 1..Len(arrived)
         /\ normalizedLogs[k].by = "simulator" => "port_scan" \notin normalizedLogs[k].tags
<1> DEFINE e == normalizedLogs[k]
<1>1. e \in Entry
  BY ElementOfSeq DEF LogsOK
<1> HIDE DEF e
<1>2. CASE e \in [doc : 1..Len(arrived), by : Programs, run : Nat,
                  ip : Addresses, port : PortValues, tags : SUBSET Tags,
                  timestamp : Nat]
  BY <1>2 DEF e, Programs
<1>3. ASSUME NEW log \in TestLogs, NEW t \in 1..MaxTime, e = TestEntry(log, t)
      PROVE  /\ e.ip \in Addresses /\ e.port \in PortValues /\ e.run \in Nat
             /\ e.by = "simulator" /\ "port_scan" \notin e.tags
  <2>1. log.ip \in Attackers /\ log.port \in Ports /\ "port_scan" \notin log.tags
    BY LearningAssumption
  <2> QED  BY <1>3, <2>1 DEF TestEntry, Addresses, PortValues
<1>4. "simulator" \notin Programs
  BY DEF Programs
<1> QED  BY <1>1, <1>2, <1>3, <1>4 DEF Entry, e

(* An address among some entries is worth a point, less half a point for   *)
(* all of them: there are no more repeated addresses than addresses.       *)
LEMMA RewardOfAddresses ==
  ASSUME LogsOK, NEW S \in SUBSET (1..Len(normalizedLogs))
  PROVE  /\ Reward(normalizedLogs, S) \in Nat
         /\ Cardinality(KnownAddresses(normalizedLogs, S)) \in Nat
         /\ Reward(normalizedLogs, S) >=
              2 * Cardinality(KnownAddresses(normalizedLogs, S)) - 1
         /\ KnownAddresses(normalizedLogs, S) # {} =>
              Cardinality(KnownAddresses(normalizedLogs, S)) >= 1
<1> DEFINE known == Known(normalizedLogs, S)
           addresses == KnownAddresses(normalizedLogs, S)
           ports == {normalizedLogs[i].port : i \in known} \ {"unknown"}
           bonus == Bonus(normalizedLogs, S)
           repeated == Repeated(normalizedLogs, S)
           low == IF Cardinality(S) < LowActivity THEN 1 ELSE 0
<1>1. IsFiniteSet(S) /\ Cardinality(S) \in Nat
  <2>1. Len(normalizedLogs) \in Nat
    BY LengthsAreNumbers
  <2>2. IsFiniteSet(1..Len(normalizedLogs))
    BY <2>1, FS_Interval
  <2> QED  BY <2>2, FS_Subset, FS_CardinalityType
<1>2. \A i \in S : normalizedLogs[i].ip \in Addresses
                   /\ normalizedLogs[i].port \in PortValues
  BY EntriesAreEntries
<1>3. known \subseteq S
  BY DEF Known
<1>4. addresses \subseteq Addresses /\ ports \subseteq PortValues
  BY <1>2, <1>3 DEF KnownAddresses
<1>5. IsFiniteSet(addresses) /\ Cardinality(addresses) \in Nat
      /\ Cardinality(ports) \in Nat
  BY <1>4, FiniteAddresses, FS_Subset, FS_CardinalityType
<1>6. Cardinality(repeated) \in Nat /\ Cardinality(repeated) <= Cardinality(addresses)
  <2>1. repeated \in SUBSET addresses
    BY DEF Repeated
  <2> HIDE DEF repeated, addresses
  <2> QED  BY <1>5, <2>1, FS_Subset, FS_CardinalityType
<1>7. Cardinality(bonus) \in Nat
  <2>1. bonus \in SUBSET S
    BY <1>3 DEF Bonus, Tagged
  <2> HIDE DEF bonus
  <2> QED  BY <1>1, <2>1, FS_Subset, FS_CardinalityType
<1>8. low \in {0, 1}
  OBVIOUS
<1>9. addresses # {} => Cardinality(addresses) >= 1
  <2> HIDE DEF addresses
  <2>1. addresses # {} => Cardinality(addresses) # 0
    BY <1>5, FS_EmptySet
  <2> QED  BY <1>5, <2>1
<1>10. Reward(normalizedLogs, S) =
         NonNegative(4 * Cardinality(addresses) + Cardinality(ports)
                     + 2 * Cardinality(bonus) - 2 * Cardinality(repeated) - low)
  BY DEF Reward
<1> HIDE DEF addresses, ports, bonus, repeated, low
<1>11. /\ Reward(normalizedLogs, S) \in Nat
       /\ Reward(normalizedLogs, S) >= 2 * Cardinality(addresses) - 1
  BY <1>5, <1>6, <1>7, <1>8, <1>10 DEF NonNegative
<1> QED  BY <1>5, <1>9, <1>11 DEF addresses

LEMMA RecentsAreEntries ==
  ASSUME NEW S \in Recents(normalizedLogs)
  PROVE  S \in SUBSET (1..Len(normalizedLogs))
BY DEF Recents

LEMMA CappedIsNatural ==
  ASSUME NEW n \in Nat
  PROVE  Capped(n) \in Nat
<1>1. High \in Nat
  BY ScoringAssumption
<1> QED  BY <1>1 DEF Capped

LEMMA TrainerKeepsTypes ==
  ASSUME TypeOK, TrainStart \/ TrainStep \/ TrainEnd
  PROVE  TypeOK'
<1> USE DEF TypeOK
<1>1. LogsOK' /\ WritersOK'
  BY NothingStored DEF TrainStart, TrainStep, TrainEnd, writerVars, WritersOK, Pairs
<1>2. NoEpisode \in Episode
  BY DEF NoEpisode, Episode
<1>3. CASE TrainStart
  BY <1>1, <1>2, <1>3 DEF TrainStart, TrainerOK, FreshTrainer, Episode
<1>4. CASE TrainEnd
  <2>1. DecisionFor(trainer.finished.total) \in
          {0, 1} \X {0, 1} \X {0, 1} \X {0, 1}
    BY DEF DecisionFor
  <2>2. trainer.finished.fed \in BOOLEAN
    BY DEF TrainerOK, Episode
  <2> QED  BY <1>1, <1>2, <1>4, <2>1, <2>2 DEF TrainEnd, TrainerOK, FreshTrainer, Episode
<1>5. CASE TrainStep
  <2>1. PICK S \in Recents(normalizedLogs) :
          LET total == Capped(trainer.total + Reward(normalizedLogs, S))
              fed == trainer.fed /\ KnownAddresses(normalizedLogs, S) # {}
          IN trainer' =
               IF trainer.steps + 1 >= MaxSteps
               THEN [FreshTrainer(TRUE) EXCEPT
                       !.finished = [done |-> TRUE, total |-> total, fed |-> fed]]
               ELSE [trainer EXCEPT !.steps = trainer.steps + 1,
                                    !.total = total, !.fed = fed]
    BY <1>5 DEF TrainStep
  <2>2. PICK total \in Nat : total = Capped(trainer.total + Reward(normalizedLogs, S))
    <3>1. Reward(normalizedLogs, S) \in Nat
      BY RecentsAreEntries, RewardOfAddresses
    <3>2. trainer.total + Reward(normalizedLogs, S) \in Nat
      BY <3>1 DEF TrainerOK
    <3> QED  BY <3>2, CappedIsNatural
  <2>3. PICK fed \in BOOLEAN :
          fed = (trainer.fed /\ KnownAddresses(normalizedLogs, S) # {})
    OBVIOUS
  <2>4. trainer' =
          IF trainer.steps + 1 >= MaxSteps
          THEN [FreshTrainer(TRUE) EXCEPT
                  !.finished = [done |-> TRUE, total |-> total, fed |-> fed]]
          ELSE [trainer EXCEPT !.steps = trainer.steps + 1,
                               !.total = total, !.fed = fed]
    BY <2>1, <2>2, <2>3, Zenon
  <2>5. PICK e \in Episode : e = [done |-> TRUE, total |-> total, fed |-> fed]
    BY DEF Episode
  <2>6. trainer' \in [on : BOOLEAN, steps : Nat, total : Nat, fed : BOOLEAN,
                     finished : Episode]
    <3>1. CASE trainer.steps + 1 >= MaxSteps
      <4>1. trainer' = [FreshTrainer(TRUE) EXCEPT !.finished = e]
        BY <2>4, <2>5, <3>1
      <4> QED  BY <1>2, <4>1 DEF FreshTrainer
    <3>2. CASE ~(trainer.steps + 1 >= MaxSteps)
      <4>1. PICK n \in Nat : n = trainer.steps + 1
        BY DEF TrainerOK
      <4>2. trainer' = [trainer EXCEPT !.steps = n, !.total = total, !.fed = fed]
        BY <2>4, <3>2, <4>1
      <4> QED  BY <4>2 DEF TrainerOK
    <3> QED  BY <3>1, <3>2
  <2>7. TrainerOK'
    BY <1>5, <2>6 DEF TrainStep, TrainerOK, Episode
  <2> QED  BY <1>1, <2>7
<1> QED  BY <1>3, <1>4, <1>5

(* Entries, memories and episodes keep their shapes, whatever is logged    *)
(* and whoever dies.                                                       *)
THEOREM TypeCorrect == Spec => []TypeOK
<1>1. TypeOK /\ [Next]_vars => TypeOK'
  <2> SUFFICES ASSUME TypeOK, [Next]_vars PROVE TypeOK'
    OBVIOUS
  <2>1. CASE Arrive
    BY <2>1, ArriveKeepsTypes
  <2>2. CASE LoopFind \/ LoopTake \/ LoopRestart
    BY <2>2, LoopKeepsTypes
  <2>3. CASE BackfillStart \/ BackfillTurn \/ BackfillTake \/ BackfillDies
    BY <2>3, BackfillKeepsTypes
  <2>4. CASE ParserStart \/ ParserTake \/ ParserDies
    BY <2>4, ParserKeepsTypes
  <2>5. CASE TrainStart \/ TrainStep \/ TrainEnd
    BY <2>5, TrainerKeepsTypes
  <2>7. CASE Simulate
    BY <2>7, SimulateKeepsTypes
  <2>6. CASE UNCHANGED vars
    <3>1. LogsOK' /\ TrainerOK'
      BY <2>6, NothingStored, TrainerUntouched DEF TypeOK, vars
    <3>2. WritersOK'
      BY <2>6 DEF TypeOK, WritersOK, vars, writerVars, Pairs
    <3> QED  BY <3>1, <3>2 DEF TypeOK
  <2> QED  BY <2>1, <2>2, <2>3, <2>4, <2>5, <2>6, <2>7 DEF Next
<1> QED  BY <1>1, TypeOKInit, PTL DEF Spec

-----------------------------------------------------------------------------
(* What the properties rest on                                             *)

(* Every step of an episode that saw an address gained half a point; the   *)
(* episode that is over had more than 2 * High steps.                      *)
FedPays ==
  /\ trainer.steps < MaxSteps
  /\ trainer.fed => trainer.total >= trainer.steps \/ trainer.total > 2 * High
  /\ trainer.finished.fed => trainer.finished.total > 2 * High

LEMMA RewardsAreBounded ==
  ASSUME LogsOK, NEW S \in Recents(normalizedLogs)
  PROVE  /\ Reward(normalizedLogs, S) \in Nat
         /\ KnownAddresses(normalizedLogs, S) # {} => Reward(normalizedLogs, S) >= 1
<1>1. S \in SUBSET (1..Len(normalizedLogs))
  BY RecentsAreEntries
<1> QED  BY <1>1, RewardOfAddresses

LEMMA FedPaysInit == Init => FedPays
<1>1. 0 < MaxSteps
  <2>1. MaxSteps \in Nat /\ High \in Nat /\ MaxSteps > 2 * High
    BY LearningAssumption, ScoringAssumption
  <2> QED  BY <2>1
<1>2. Init => /\ trainer.steps = 0 /\ trainer.total = 0
              /\ trainer.finished.fed = FALSE
  BY DEF Init, FreshTrainer, NoEpisode
<1> QED  BY <1>1, <1>2 DEF FedPays

LEMMA FedPaysStep ==
  ASSUME TypeOK, FedPays, [Next]_vars
  PROVE  FedPays'
<1>0. MaxSteps \in Nat /\ High \in Nat /\ MaxSteps > 2 * High
  BY LearningAssumption, ScoringAssumption
<1>1. CASE TrainStart \/ TrainEnd
  BY <1>0, <1>1 DEF TrainStart, TrainEnd, FedPays, FreshTrainer, NoEpisode
<1>2. CASE TrainStep
  <2>1. PICK S \in Recents(normalizedLogs) :
          LET total == Capped(trainer.total + Reward(normalizedLogs, S))
              fed == trainer.fed /\ KnownAddresses(normalizedLogs, S) # {}
          IN trainer' =
               IF trainer.steps + 1 >= MaxSteps
               THEN [FreshTrainer(TRUE) EXCEPT
                       !.finished = [done |-> TRUE, total |-> total, fed |-> fed]]
               ELSE [trainer EXCEPT !.steps = trainer.steps + 1,
                                    !.total = total, !.fed = fed]
    BY <1>2 DEF TrainStep
  <2>2. PICK reward \in Nat : reward = Reward(normalizedLogs, S)
    BY RewardsAreBounded DEF TypeOK
  <2>3. PICK fed \in BOOLEAN :
          fed = (trainer.fed /\ KnownAddresses(normalizedLogs, S) # {})
    OBVIOUS
  <2>4. trainer.steps \in Nat /\ trainer.total \in Nat
    BY DEF TypeOK, TrainerOK
  <2>5. PICK steps \in Nat, before \in Nat :
          steps = trainer.steps /\ before = trainer.total
    BY <2>4
  <2>6. PICK total \in Nat : total = Capped(before + reward)
    BY <2>2, CappedIsNatural
  <2>7. fed => total >= steps + 1 \/ total > 2 * High
    <3>1. fed => reward >= 1
      BY <2>2, <2>3, RewardsAreBounded DEF TypeOK
    <3>2. fed => before >= steps \/ before > 2 * High
      BY <2>3, <2>5 DEF FedPays
    <3> QED  BY <1>0, <2>2, <2>5, <2>6, <3>1, <3>2 DEF Capped
  <2>8. trainer' =
          IF steps + 1 >= MaxSteps
          THEN [FreshTrainer(TRUE) EXCEPT
                  !.finished = [done |-> TRUE, total |-> total, fed |-> fed]]
          ELSE [trainer EXCEPT !.steps = steps + 1, !.total = total, !.fed = fed]
    BY <2>1, <2>2, <2>3, <2>5, <2>6, Zenon
  <2>9. CASE steps + 1 >= MaxSteps
    <3>1. /\ trainer'.steps = 0 /\ trainer'.total = 0
          /\ trainer'.finished = [done |-> TRUE, total |-> total, fed |-> fed]
      BY <2>8, <2>9 DEF FreshTrainer
    <3>2. fed => total > 2 * High
      BY <1>0, <2>5, <2>6, <2>7, <2>9
    <3> QED  BY <1>0, <3>1, <3>2 DEF FedPays
  <2>10. CASE ~(steps + 1 >= MaxSteps)
    <3>1. trainer \in [on : BOOLEAN, steps : Nat, total : Nat, fed : BOOLEAN,
                       finished : Episode]
      BY DEF TypeOK, TrainerOK
    <3>2. /\ trainer'.steps = steps + 1 /\ trainer'.total = total
          /\ trainer'.fed = fed /\ trainer'.finished = trainer.finished
      BY <2>8, <2>10, <3>1
    <3> QED  BY <1>0, <2>5, <2>6, <2>7, <2>10, <3>2 DEF FedPays
  <2> QED  BY <2>9, <2>10
<1>3. CASE UNCHANGED trainer
  BY <1>3 DEF FedPays
<1> QED
  BY <1>1, <1>2, <1>3 DEF Next, Arrive, Simulate, LoopFind, LoopTake, LoopRestart,
     BackfillStart, BackfillTurn, BackfillTake, BackfillDies, ParserStart,
     ParserTake, ParserDies, trainerVars, vars

(* FedTrainingDisables, for any thresholds and any length of an episode    *)
(* that gives more than the higher one in half points: a training whose    *)
(* last episode always saw some address disables all four plugins.         *)
THEOREM FedTrainings == Spec => []FedTrainingDisables
<1>1. Init => FedTrainingDisables
  BY DEF Init, FedTrainingDisables
<1>2. FedPays /\ FedTrainingDisables /\ [Next]_vars => FedTrainingDisables'
  <2> SUFFICES ASSUME FedPays, FedTrainingDisables, [Next]_vars
               PROVE  FedTrainingDisables'
    OBVIOUS
  <2>1. CASE TrainEnd
    <3>1. PICK decided : decided = [vector |-> DecisionFor(trainer.finished.total),
                                    fed |-> trainer.finished.fed]
      OBVIOUS
    <3>2. decided.fed => decided.vector = <<1, 1, 1, 1>>
      BY <3>1 DEF FedPays, DecisionFor
    <3>3. decisions' = decisions \cup {decided}
      BY <2>1, <3>1 DEF TrainEnd
    <3> QED  BY <3>2, <3>3 DEF FedTrainingDisables
  <2>2. CASE UNCHANGED decisions
    BY <2>2 DEF FedTrainingDisables
  <2> QED
    BY <2>1, <2>2 DEF Next, Arrive, Simulate, LoopFind, LoopTake, LoopRestart,
       BackfillStart, BackfillTurn, BackfillTake, BackfillDies, ParserStart,
       ParserTake, ParserDies, TrainStart, TrainStep, trainerVars, vars
<1> QED
  BY <1>1, <1>2, TypeCorrect, FedPaysInit, FedPaysStep, PTL DEF Spec

(* EveryAddressPays, for any limits and any entries: an address among the  *)
(* newest entries is worth at least a point, less the half point for low   *)
(* activity.                                                               *)
THEOREM AddressesPay == Spec => []EveryAddressPays
<1>1. TypeOK => EveryAddressPays
  BY RecentsAreEntries, RewardOfAddresses DEF TypeOK, EveryAddressPays
<1> QED  BY <1>1, TypeCorrect, PTL

-----------------------------------------------------------------------------
(* What is stored                                                          *)

LEMMA StoredEntry ==
  ASSUME LogsOK, NEW d, NEW by, NEW run, NEW found, NEW tags,
         Store(d, by, run, found, tags)
  PROVE  /\ Len(normalizedLogs) \in Nat
         /\ Len(normalizedLogs') = Len(normalizedLogs) + 1
         /\ \A k \in 1..Len(normalizedLogs) : normalizedLogs'[k] = normalizedLogs[k]
         /\ normalizedLogs'[Len(normalizedLogs) + 1] =
              [doc |-> d, by |-> by, run |-> run, ip |-> found.ip,
               port |-> found.port, tags |-> tags,
               timestamp |-> arrived[d].timestamp]
<1> DEFINE e == [doc |-> d, by |-> by, run |-> run, ip |-> found.ip,
                 port |-> found.port, tags |-> tags,
                 timestamp |-> arrived[d].timestamp]
<1>1. normalizedLogs' = Append(normalizedLogs, e)
  BY DEF Store
<1>2. normalizedLogs \in Seq(Entry)
  BY DEF LogsOK
<1> HIDE DEF e
<1>3. /\ Len(normalizedLogs) \in Nat
      /\ Len(normalizedLogs') = Len(normalizedLogs) + 1
      /\ \A k \in 1..Len(normalizedLogs) : normalizedLogs'[k] = normalizedLogs[k]
      /\ normalizedLogs'[Len(normalizedLogs) + 1] = e
  BY <1>1, <1>2
<1> QED  BY <1>3 DEF e

LEMMA LoopTakes ==
  ASSUME TypeOK, LoopTake
  PROVE  \E d \in loop.batch, found \in Found :
           /\ First(d, loop.batch) /\ found = LoopAddress(arrived[d].line)
           /\ \/ LoopPassed(d, loop.memory) /\ UNCHANGED normalizedLogs
              \/ /\ Store(d, "loop", loop.run, found,
                          TagsOf(arrived[d].line, found.ip, loop.memory))
                 /\ LoopPassed(d, Remembered(loop.memory, found))
<1>1. PICK d \in loop.batch :
        /\ First(d, loop.batch)
        /\ LET line == arrived[d].line
               found == LoopAddress(line)
           IN IF found = Nowhere
              THEN LoopPassed(d, loop.memory) /\ UNCHANGED normalizedLogs
              ELSE /\ Store(d, "loop", loop.run, found,
                            TagsOf(line, found.ip, loop.memory))
                   /\ LoopPassed(d, Remembered(loop.memory, found))
  BY DEF LoopTake
<1>2. LoopAddress(arrived[d].line) \in Found
  BY LoopFinds, DocsAreDocs DEF TypeOK, WritersOK
<1> QED  BY <1>1, <1>2

LEMMA BackfillTakes ==
  ASSUME TypeOK, BackfillTake
  PROVE  \E d \in backfill.batch, found \in Found :
           \/ /\ backfill' = [backfill EXCEPT !.batch = backfill.batch \ {d}]
              /\ UNCHANGED normalizedLogs
           \/ /\ Store(d, "backfill", backfill.run, found,
                       TagsOf(arrived[d].line, found.ip, BackfillMemory(d, found)))
              /\ backfill' = [backfill EXCEPT !.batch = backfill.batch \ {d},
                                              !.memory = BackfillMemory(d, found)]
<1>1. PICK d \in backfill.batch :
        LET line == arrived[d].line
            found == BackfillAddress(arrived[d].source, line)
            memory == BackfillMemory(d, found)
        IN IF arrived[d].source = "honeytrap_logs" /\ "heartbeat" \in line.words
           THEN /\ backfill' = [backfill EXCEPT !.batch = backfill.batch \ {d}]
                /\ UNCHANGED normalizedLogs
           ELSE /\ Store(d, "backfill", backfill.run, found,
                         TagsOf(line, found.ip, memory))
                /\ backfill' = [backfill EXCEPT !.batch = backfill.batch \ {d},
                                                !.memory = memory]
  BY DEF BackfillTake
<1>2. BackfillAddress(arrived[d].source, arrived[d].line) \in Found
  BY BackfillFinds, DocsAreDocs DEF TypeOK, WritersOK
<1> QED  BY <1>1, <1>2

LEMMA ParserTakes ==
  ASSUME TypeOK, ParserTake
  PROVE  \E d \in parser.batch, found \in Found :
           /\ parser' = [parser EXCEPT !.batch = parser.batch \ {d}]
           /\ UNCHANGED normalizedLogs \/ Store(d, "parser", parser.run, found, {})
<1>1. PICK d \in parser.batch :
        /\ parser' = [parser EXCEPT !.batch = parser.batch \ {d}]
        /\ IF arrived[d].line.keys.ip \in ParserIgnores
           THEN UNCHANGED normalizedLogs
           ELSE Store(d, "parser", parser.run, arrived[d].line.keys, {})
  BY DEF ParserTake
<1>2. arrived[d].line.keys \in Found
  BY MentionsOfALine, DocsAreDocs DEF TypeOK, WritersOK
<1> QED  BY <1>1, <1>2

LEMMA TestIsStored ==
  ASSUME LogsOK, Simulate
  PROVE  /\ Len(normalizedLogs) \in Nat
         /\ Len(normalizedLogs') = Len(normalizedLogs) + 1
         /\ \A k \in 1..Len(normalizedLogs) : normalizedLogs'[k] = normalizedLogs[k]
         /\ normalizedLogs'[Len(normalizedLogs) + 1].by = "simulator"
         /\ normalizedLogs'[Len(normalizedLogs) + 1].run = 0
         /\ "port_scan" \notin normalizedLogs'[Len(normalizedLogs) + 1].tags
<1>1. PICK log \in TestLogs, t \in 1..MaxTime :
        normalizedLogs' = Append(normalizedLogs, TestEntry(log, t))
  BY DEF Simulate
<1>2. normalizedLogs \in Seq(Entry) /\ "port_scan" \notin log.tags
  BY LearningAssumption DEF LogsOK
<1> DEFINE e == TestEntry(log, t)
<1>3. e.by = "simulator" /\ e.run = 0 /\ e.tags = log.tags
  BY DEF TestEntry
<1> HIDE DEF e
<1>4. normalizedLogs' = Append(normalizedLogs, e)
  BY <1>1 DEF e
<1>5. /\ Len(normalizedLogs) \in Nat
      /\ Len(normalizedLogs') = Len(normalizedLogs) + 1
      /\ \A k \in 1..Len(normalizedLogs) : normalizedLogs'[k] = normalizedLogs[k]
      /\ normalizedLogs'[Len(normalizedLogs) + 1] = e
  BY <1>2, <1>4
<1> QED  BY <1>2, <1>3, <1>5

(* Only the three programs and the test logs store anything.               *)
LEMMA OnlyTakesStore ==
  ASSUME [Next]_vars, ~LoopTake, ~BackfillTake, ~ParserTake, ~Simulate
  PROVE  UNCHANGED normalizedLogs
BY DEF Next, Arrive, LoopFind, LoopRestart, BackfillStart, BackfillTurn,
   BackfillDies, ParserStart, ParserDies, TrainStart, TrainStep, TrainEnd,
   trainerVars, writerVars, vars

LEMMA TagsWritten ==
  ASSUME NEW line \in Line, NEW ip, NEW memory
  PROVE  "port_scan" \in TagsOf(line, ip, memory) <=>
           ip # "unknown" /\ Cardinality(PortsWith(memory, ip)) > PortLimit
<1>1. line.words \subseteq Words
  BY MentionsOfALine
<1> QED  BY <1>1 DEF TagsOf, Words, Tags

(* The entries that a run of a program has stored.                         *)
Stored(by, run) ==
  {k \in Entries : normalizedLogs[k].by = by /\ normalizedLogs[k].run = run}

SourceOf(k) == arrived[normalizedLogs[k].doc].source

RunsSoFar ==
  \A k \in Entries :
    normalizedLogs[k].run <=
      CASE normalizedLogs[k].by = "loop" -> loop.run
        [] normalizedLogs[k].by = "backfill" -> backfill.run
        [] OTHER -> parser.run

(* The loop's batch lies past its cursor, what it stored does not.         *)
LoopAhead ==
  /\ \A d \in loop.batch :
       arrived[d].source = Sources[loop.turn] /\ d > loop.last[loop.turn]
  /\ \A k \in Stored("loop", loop.run), i \in 1..Len(Sources) :
       SourceOf(k) = Sources[i] => normalizedLogs[k].doc <= loop.last[i]

(* The back-fill has stored only what is not in its batch, from the        *)
(* collections it has come to.                                             *)
BackfillAhead ==
  /\ backfill.turn = 0 => backfill.batch = {}
  /\ \A d \in backfill.batch : arrived[d].source = Sources[backfill.turn]
  /\ backfill.turn # 0 =>
       \A k \in Stored("backfill", backfill.run) :
         /\ normalizedLogs[k].doc \notin backfill.batch
         /\ \E i \in 1..backfill.turn : SourceOf(k) = Sources[i]

ParserAhead ==
  \A k \in Stored("parser", parser.run) :
    normalizedLogs[k].doc \notin parser.batch

Kept(k) == <<normalizedLogs[k].ip, normalizedLogs[k].port>>

Memorable(k) ==
  normalizedLogs[k].ip # "unknown" /\ normalizedLogs[k].port \in Ports

(* A memory holds what its process has stored; the back-fill's, what it    *)
(* has stored of Cowrie.                                                   *)
LoopRemembers ==
  loop.memory = {Kept(k) : k \in {j \in Stored("loop", loop.run) : Memorable(j)}}

CowrieStored ==
  {k \in Stored("backfill", backfill.run) : SourceOf(k) = "cowrie_logs"}

BackfillRemembers ==
  backfill.turn # 0 =>
    backfill.memory = {Kept(k) : k \in {j \in CowrieStored : Memorable(j)}}

-----------------------------------------------------------------------------
(* What a step leaves as it was                                            *)

LEMMA DocsStay ==
  ASSUME TypeOK, [Next]_vars
  PROVE  /\ Len(arrived) \in Nat /\ Len(arrived') \in Nat
         /\ Len(arrived) <= Len(arrived')
         /\ \A d \in 1..Len(arrived) : arrived'[d] = arrived[d]
<1>1. CASE Arrive
  <2>1. PICK i \in 1..Len(Sources), t \in 1..MaxTime :
          \E l \in LinesOf[Sources[i]] :
            arrived' = Append(arrived, [source |-> Sources[i], line |-> l,
                                        timestamp |-> t])
    BY <1>1 DEF Arrive
  <2>2. PICK doc : arrived' = Append(arrived, doc)
    BY <2>1
  <2>3. arrived \in Seq(Doc)
    BY DEF TypeOK, LogsOK, Doc
  <2> QED  BY <2>2, <2>3
<1>2. CASE UNCHANGED arrived
  BY <1>2, LengthsAreNumbers DEF TypeOK
<1> QED
  BY <1>1, <1>2 DEF Next, Simulate, LoopFind, LoopTake, LoopRestart,
     BackfillStart, BackfillTurn, BackfillTake, BackfillDies, ParserStart, ParserTake,
     ParserDies, TrainStart, TrainStep, TrainEnd, vars

(* An entry that is new is the last one, and of the program that took a    *)
(* document.                                                               *)
LEMMA NewEntry ==
  ASSUME TypeOK, [Next]_vars, NEW k \in Entries', k \notin Entries
  PROVE  /\ k = Len(normalizedLogs) + 1
         /\ \A j \in Entries' : j \in Entries \/ j = k
         /\ \/ /\ LoopTake /\ First(normalizedLogs'[k].doc, loop.batch)
               /\ normalizedLogs'[k].by = "loop"
               /\ normalizedLogs'[k].run = loop.run
            \/ /\ BackfillTake /\ normalizedLogs'[k].doc \in backfill.batch
               /\ normalizedLogs'[k].doc \notin backfill'.batch
               /\ normalizedLogs'[k].by = "backfill"
               /\ normalizedLogs'[k].run = backfill.run
            \/ /\ ParserTake /\ normalizedLogs'[k].doc \in parser.batch
               /\ normalizedLogs'[k].doc \notin parser'.batch
               /\ normalizedLogs'[k].by = "parser"
               /\ normalizedLogs'[k].run = parser.run
            \/ /\ Simulate /\ normalizedLogs'[k].by = "simulator"
               /\ normalizedLogs'[k].run = 0
               /\ "port_scan" \notin normalizedLogs'[k].tags
<1>1. normalizedLogs' # normalizedLogs
  BY DEF Entries
<1>2. ASSUME NEW d, NEW by, NEW run, NEW found, NEW tags,
             Store(d, by, run, found, tags)
      PROVE  /\ k = Len(normalizedLogs) + 1
             /\ \A j \in Entries' : j \in Entries \/ j = k
             /\ normalizedLogs'[k].doc = d /\ normalizedLogs'[k].by = by
             /\ normalizedLogs'[k].run = run
  <2> DEFINE n == Len(normalizedLogs)
  <2>1. /\ n \in Nat /\ Len(normalizedLogs') = n + 1
        /\ normalizedLogs'[n + 1] =
             [doc |-> d, by |-> by, run |-> run, ip |-> found.ip,
              port |-> found.port, tags |-> tags,
              timestamp |-> arrived[d].timestamp]
    BY <1>2, StoredEntry DEF TypeOK
  <2>2. k = n + 1 /\ \A j \in Entries' : j \in Entries \/ j = k
    BY <2>1 DEF Entries
  <2> QED  BY <2>1, <2>2
<1>3. CASE LoopTake
  <2>1. PICK d \in loop.batch, found \in Found :
          /\ First(d, loop.batch)
          /\ Store(d, "loop", loop.run, found,
                   TagsOf(arrived[d].line, found.ip, loop.memory))
    BY <1>1, <1>3, LoopTakes
  <2> QED  BY <1>2, <1>3, <2>1
<1>4. CASE BackfillTake
  <2>1. PICK d \in backfill.batch, found \in Found :
          /\ Store(d, "backfill", backfill.run, found,
                   TagsOf(arrived[d].line, found.ip, BackfillMemory(d, found)))
          /\ backfill' = [backfill EXCEPT !.batch = backfill.batch \ {d},
                                          !.memory = BackfillMemory(d, found)]
    BY <1>1, <1>4, BackfillTakes
  <2>2. d \notin backfill'.batch
    BY <2>1 DEF TypeOK, WritersOK
  <2> QED  BY <1>2, <1>4, <2>1, <2>2
<1>5. CASE ParserTake
  <2>1. PICK d \in parser.batch, found \in Found :
          /\ parser' = [parser EXCEPT !.batch = parser.batch \ {d}]
          /\ Store(d, "parser", parser.run, found, {})
    BY <1>1, <1>5, ParserTakes
  <2>2. d \notin parser'.batch
    BY <2>1 DEF TypeOK, WritersOK
  <2> QED  BY <1>2, <1>5, <2>1, <2>2
<1>6. CASE Simulate
  BY <1>6, TestIsStored DEF TypeOK, Entries
<1> QED  BY <1>1, <1>3, <1>4, <1>5, <1>6, OnlyTakesStore

LEMMA EntriesStay ==
  ASSUME TypeOK, [Next]_vars
  PROVE  /\ \A k \in Entries : /\ k \in Entries'
                               /\ normalizedLogs'[k] = normalizedLogs[k]
                               /\ normalizedLogs[k].run \in Nat
         /\ \A k \in Entries : normalizedLogs[k].by \in Programs =>
              /\ normalizedLogs[k].doc \in 1..Len(arrived)
              /\ SourceOf(k)' = SourceOf(k)
<1>1. \A k \in Entries : /\ k \in Entries'
                         /\ normalizedLogs'[k] = normalizedLogs[k]
  <2>1. ASSUME NEW d, NEW by, NEW run, NEW found, NEW tags,
               Store(d, by, run, found, tags)
        PROVE  \A k \in Entries : /\ k \in Entries'
                                  /\ normalizedLogs'[k] = normalizedLogs[k]
    <3>1. /\ Len(normalizedLogs) \in Nat
          /\ Len(normalizedLogs') = Len(normalizedLogs) + 1
          /\ \A k \in 1..Len(normalizedLogs) :
               normalizedLogs'[k] = normalizedLogs[k]
      BY <2>1, StoredEntry DEF TypeOK
    <3> QED  BY <3>1 DEF Entries
  <2>2. CASE UNCHANGED normalizedLogs
    BY <2>2 DEF Entries
  <2>3. LoopTake => \E d, found, tags :
          UNCHANGED normalizedLogs \/ Store(d, "loop", loop.run, found, tags)
    BY LoopTakes
  <2>4. BackfillTake => \E d, found, tags :
          UNCHANGED normalizedLogs \/ Store(d, "backfill", backfill.run, found, tags)
    BY BackfillTakes
  <2>5. ParserTake => \E d, found, tags :
          UNCHANGED normalizedLogs \/ Store(d, "parser", parser.run, found, tags)
    BY ParserTakes
  <2>6. CASE Simulate
    BY <2>6, TestIsStored DEF TypeOK, Entries
  <2> QED  BY <2>1, <2>2, <2>3, <2>4, <2>5, <2>6, OnlyTakesStore
<1>2. \A k \in Entries :
        /\ normalizedLogs[k].run \in Nat
        /\ normalizedLogs[k].by \in Programs =>
             normalizedLogs[k].doc \in 1..Len(arrived)
  BY EntriesAreEntries DEF TypeOK, Entries
<1>3. \A k \in Entries : normalizedLogs[k].by \in Programs =>
        SourceOf(k)' = SourceOf(k)
  BY <1>1, <1>2, DocsStay DEF SourceOf
<1> QED  BY <1>1, <1>2, <1>3

-----------------------------------------------------------------------------
(* Once per run                                                            *)

(* A step that does not take a document stores nothing; a run that ends is *)
(* followed by one with a higher number.                                   *)
LEMMA RunsGrow ==
  ASSUME TypeOK, [Next]_vars
  PROVE  /\ loop.run \in Nat /\ loop'.run \in Nat /\ loop.run <= loop'.run
         /\ backfill.run \in Nat /\ backfill'.run \in Nat
         /\ backfill.run <= backfill'.run
         /\ parser.run \in Nat /\ parser'.run \in Nat /\ parser.run <= parser'.run
         /\ loop'.run # loop.run => LoopRestart
         /\ backfill'.run # backfill.run => BackfillStart
         /\ parser'.run # parser.run => ParserStart
<1>1. loop.run \in Nat /\ backfill.run \in Nat /\ parser.run \in Nat
  BY DEF TypeOK, WritersOK
<1>2. /\ loop'.run \in {loop.run, loop.run + 1}
      /\ loop'.run # loop.run => LoopRestart
  <2>1. CASE LoopFind
    BY <2>1 DEF LoopFind, TypeOK, WritersOK
  <2>2. CASE LoopTake
    BY <2>2, LoopTakes DEF LoopPassed
  <2>3. CASE LoopRestart
    BY <2>3 DEF LoopRestart, FreshLoop
  <2>4. CASE UNCHANGED loop
    BY <2>4
  <2> QED
    BY <2>1, <2>2, <2>3, <2>4 DEF Next, Arrive, Simulate, BackfillStart, BackfillTurn,
       BackfillTake, BackfillDies, ParserStart, ParserTake, ParserDies,
       TrainStart, TrainStep, TrainEnd, writerVars, vars
<1>3. /\ backfill'.run \in {backfill.run, backfill.run + 1}
      /\ backfill'.run # backfill.run => BackfillStart
  <2>1. CASE BackfillStart
    BY <2>1 DEF BackfillStart, BackfillAt
  <2>2. CASE BackfillTurn \/ BackfillDies
    BY <2>2 DEF BackfillTurn, BackfillDies, BackfillAt
  <2>3. CASE BackfillTake
    BY <2>3, BackfillTakes DEF TypeOK, WritersOK
  <2>4. CASE UNCHANGED backfill
    BY <2>4
  <2> QED
    BY <2>1, <2>2, <2>3, <2>4 DEF Next, Arrive, Simulate, LoopFind, LoopTake, LoopRestart,
       ParserStart, ParserTake, ParserDies, TrainStart, TrainStep, TrainEnd,
       writerVars, vars
<1>4. /\ parser'.run \in {parser.run, parser.run + 1}
      /\ parser'.run # parser.run => ParserStart
  <2>1. CASE ParserStart
    BY <2>1 DEF ParserStart
  <2>2. CASE ParserTake \/ ParserDies
    BY <2>2 DEF ParserTake, ParserDies, TypeOK, WritersOK
  <2>3. CASE UNCHANGED parser
    BY <2>3
  <2> QED
    BY <2>1, <2>2, <2>3 DEF Next, Arrive, Simulate, LoopFind, LoopTake, LoopRestart,
       BackfillStart, BackfillTurn, BackfillTake, BackfillDies, TrainStart,
       TrainStep, TrainEnd, writerVars, vars
<1> QED  BY <1>1, <1>2, <1>3, <1>4

LEMMA RunsSoFarStep ==
  ASSUME TypeOK, RunsSoFar, [Next]_vars
  PROVE  RunsSoFar'
<1> SUFFICES ASSUME NEW k \in Entries'
             PROVE  normalizedLogs'[k].run <=
                      CASE normalizedLogs'[k].by = "loop" -> loop'.run
                        [] normalizedLogs'[k].by = "backfill" -> backfill'.run
                        [] OTHER -> parser'.run
  BY DEF RunsSoFar
<1>1. CASE k \in Entries
  <2>1. normalizedLogs'[k] = normalizedLogs[k] /\ normalizedLogs[k].run \in Nat
    BY <1>1, EntriesStay
  <2>2. PICK run \in Nat, by \in {normalizedLogs[k].by} :
          run = normalizedLogs[k].run /\ by = normalizedLogs[k].by
    BY <2>1
  <2>3. run <= CASE by = "loop" -> loop.run
                 [] by = "backfill" -> backfill.run
                 [] OTHER -> parser.run
    BY <1>1, <2>2 DEF RunsSoFar
  <2>4. CASE by = "loop"
    BY <2>1, <2>2, <2>3, <2>4, RunsGrow
  <2>5. CASE by = "backfill"
    BY <2>1, <2>2, <2>3, <2>5, RunsGrow
  <2>6. CASE by # "loop" /\ by # "backfill"
    BY <2>1, <2>2, <2>3, <2>6, RunsGrow
  <2> QED  BY <2>4, <2>5, <2>6
<1>2. CASE k \notin Entries
  BY <1>2, NewEntry, RunsGrow
<1> QED  BY <1>1, <1>2

(* So a run that begins has stored nothing.                                *)
LEMMA FreshRuns ==
  ASSUME TypeOK, RunsSoFar, [Next]_vars, NEW k \in Entries
  PROVE  /\ normalizedLogs[k].by = "loop" /\ LoopRestart =>
              normalizedLogs[k].run # loop'.run
         /\ normalizedLogs[k].by = "backfill" /\ BackfillStart =>
              normalizedLogs[k].run # backfill'.run
         /\ normalizedLogs[k].by = "parser" /\ ParserStart =>
              normalizedLogs[k].run # parser'.run
<1>1. PICK run \in Nat, by \in {normalizedLogs[k].by} :
        run = normalizedLogs[k].run /\ by = normalizedLogs[k].by
  BY EntriesStay
<1>2. /\ by = "loop" => run <= loop.run
      /\ by = "backfill" => run <= backfill.run
      /\ by = "parser" => run <= parser.run
  BY <1>1 DEF RunsSoFar
<1>3. LoopRestart => loop'.run = loop.run + 1
  BY DEF LoopRestart, FreshLoop
<1>4. BackfillStart => backfill'.run = backfill.run + 1
  BY DEF BackfillStart, BackfillAt
<1>5. ParserStart => parser'.run = parser.run + 1
  BY DEF ParserStart
<1> QED  BY <1>1, <1>2, <1>3, <1>4, <1>5, RunsGrow

LEMMA LoopAheadStep ==
  ASSUME TypeOK, RunsSoFar, LoopAhead, [Next]_vars
  PROVE  LoopAhead'
<1>0. /\ loop.turn \in 1..Len(Sources) /\ loop.batch \subseteq 1..Len(arrived)
      /\ loop.last \in [1..Len(Sources) -> Nat] /\ Len(arrived) \in Nat
  BY DocsStay DEF TypeOK, WritersOK
<1>1. CASE LoopTake
  <2>0. PICK d \in loop.batch :
          First(d, loop.batch) /\ \E memory : LoopPassed(d, memory)
    BY <1>1, LoopTakes
  <2>1. PICK memory : First(d, loop.batch) /\ LoopPassed(d, memory)
    BY <2>0
  <2>2. /\ loop'.last = [loop.last EXCEPT ![loop.turn] = d]
        /\ loop'.batch = loop.batch \ {d} /\ loop'.run = loop.run
        /\ loop.batch # {d} => loop'.turn = loop.turn
    BY <2>1 DEF LoopPassed
  <2>3. d \in Nat /\ arrived[d].source = Sources[loop.turn]
        /\ d > loop.last[loop.turn] /\ loop'.last[loop.turn] = d
    BY <1>0, <2>2 DEF LoopAhead
  <2>4. ASSUME NEW e \in loop'.batch
        PROVE  /\ arrived'[e].source = Sources[loop'.turn]
               /\ e > loop'.last[loop'.turn]
    <3>1. e \in loop.batch /\ e # d /\ e \in Nat /\ d <= e /\ loop'.turn = loop.turn
      BY <1>0, <2>1, <2>2, <2>4 DEF First
    <3> QED  BY <1>0, <2>3, <3>1, DocsStay DEF LoopAhead
  <2>5. ASSUME NEW k \in Stored("loop", loop.run)', NEW i \in 1..Len(Sources),
               SourceOf(k)' = Sources[i]
        PROVE  normalizedLogs'[k].doc <= loop'.last[i]
    <3>1. CASE k \in Entries
      <4>1. /\ k \in Stored("loop", loop.run) /\ SourceOf(k) = Sources[i]
            /\ normalizedLogs'[k] = normalizedLogs[k]
            /\ normalizedLogs[k].doc \in Nat
        BY <1>0, <2>2, <2>5, <3>1, EntriesStay DEF Stored, Programs
      <4>2. normalizedLogs[k].doc <= loop.last[i]
        BY <4>1 DEF LoopAhead
      <4>3. loop.last[i] <= loop'.last[i] /\ loop.last[i] \in Nat
            /\ loop'.last[i] \in Nat
        BY <1>0, <2>2, <2>3
      <4>4. PICK doc \in Nat, x \in Nat, y \in Nat :
              doc = normalizedLogs[k].doc /\ x = loop.last[i] /\ y = loop'.last[i]
        BY <4>1, <4>3
      <4> QED  BY <4>1, <4>2, <4>3, <4>4
    <3>2. CASE k \notin Entries
      <4>1. k \in Entries' /\ normalizedLogs'[k].by = "loop"
        BY <2>5 DEF Stored
      <4>2. First(normalizedLogs'[k].doc, loop.batch)
        BY <3>2, <4>1, NewEntry
      <4>3. normalizedLogs'[k].doc = d
        BY <1>0, <2>1, <4>2 DEF First
      <4>4. SourceOf(k)' = Sources[loop.turn]
        BY <1>0, <2>3, <4>3, DocsStay DEF SourceOf
      <4>5. i = loop.turn
        BY <1>0, <2>5, <4>4, LearningAssumption
      <4> QED  BY <2>3, <4>3, <4>5
    <3> QED  BY <3>1, <3>2
  <2> QED  BY <2>4, <2>5 DEF LoopAhead
<1>2. CASE ~LoopTake
  <2>1. ASSUME NEW k \in Stored("loop", loop.run)'
        PROVE  /\ k \in Stored("loop", loop.run) /\ ~LoopRestart
               /\ normalizedLogs'[k] = normalizedLogs[k]
               /\ SourceOf(k)' = SourceOf(k)
    <3>1. k \in Entries'
      BY DEF Stored
    <3>2. k \in Entries
      BY <1>2, <2>1, <3>1, NewEntry DEF Stored
    <3>3. normalizedLogs'[k] = normalizedLogs[k] /\ SourceOf(k)' = SourceOf(k)
      BY <2>1, <3>2, EntriesStay DEF Stored, Programs
    <3>4. ~LoopRestart
      BY <2>1, <3>2, <3>3, FreshRuns DEF Stored
    <3>5. loop'.run = loop.run
      BY <3>4, RunsGrow
    <3> QED  BY <2>1, <3>2, <3>3, <3>4, <3>5 DEF Stored
  <2>2. CASE LoopFind
    <3>1. loop'.last = loop.last
      BY <2>2 DEF LoopFind, TypeOK, WritersOK
    <3>2. \A d \in loop'.batch : /\ arrived'[d].source = Sources[loop'.turn]
                                 /\ d > loop'.last[loop'.turn]
      BY <2>2 DEF LoopFind, TypeOK, WritersOK, DocsOf
    <3> QED  BY <2>1, <3>1, <3>2 DEF LoopAhead
  <2>3. CASE LoopRestart
    <3>1. loop'.batch = {}
      BY <2>3 DEF LoopRestart, FreshLoop
    <3> QED  BY <2>1, <2>3, <3>1 DEF LoopAhead
  <2>4. CASE UNCHANGED loop
    <3>1. \A d \in loop.batch : arrived'[d] = arrived[d]
      BY <1>0, DocsStay
    <3> QED  BY <2>1, <2>4, <3>1 DEF LoopAhead
  <2> QED
    BY <1>2, <2>2, <2>3, <2>4 DEF Next, Arrive, Simulate, BackfillStart, BackfillTurn,
       BackfillTake, BackfillDies, ParserStart, ParserTake, ParserDies,
       TrainStart, TrainStep, TrainEnd, writerVars, vars
<1> QED  BY <1>1, <1>2

LEMMA BackfillAheadStep ==
  ASSUME TypeOK, RunsSoFar, BackfillAhead, [Next]_vars
  PROVE  BackfillAhead'
<1>0. /\ backfill.turn \in 0..Len(Sources) /\ backfill.batch \subseteq 1..Len(arrived)
      /\ Len(arrived) \in Nat /\ Len(Sources) \in Nat
  BY DocsStay, TurnsExist DEF TypeOK, WritersOK
<1>1. CASE BackfillTake
  <2>1. PICK d \in backfill.batch :
          /\ backfill'.batch = backfill.batch \ {d}
          /\ backfill'.turn = backfill.turn /\ backfill'.run = backfill.run
    BY <1>1, BackfillTakes DEF TypeOK, WritersOK
  <2>2. /\ backfill.turn \in 1..Len(Sources)
        /\ \A e \in backfill.batch : arrived'[e].source = Sources[backfill.turn]
    BY <1>0, <2>1, DocsStay DEF BackfillAhead
  <2>3. ASSUME NEW k \in Stored("backfill", backfill.run)'
        PROVE  /\ normalizedLogs'[k].doc \notin backfill'.batch
               /\ \E i \in 1..backfill.turn : SourceOf(k)' = Sources[i]
    <3>1. CASE k \in Entries
      <4>1. k \in Stored("backfill", backfill.run)
            /\ normalizedLogs'[k] = normalizedLogs[k] /\ SourceOf(k)' = SourceOf(k)
        BY <2>1, <2>3, <3>1, EntriesStay DEF Stored, Programs
      <4> QED  BY <2>1, <2>2, <4>1 DEF BackfillAhead
    <3>2. CASE k \notin Entries
      <4>1. k \in Entries' /\ normalizedLogs'[k].by = "backfill"
        BY <2>3 DEF Stored
      <4>2. /\ normalizedLogs'[k].doc \in backfill.batch
            /\ normalizedLogs'[k].doc \notin backfill'.batch
        BY <3>2, <4>1, NewEntry
      <4>3. SourceOf(k)' = Sources[backfill.turn]
        BY <2>2, <4>2 DEF SourceOf
      <4> QED  BY <2>2, <4>2, <4>3
    <3> QED  BY <3>1, <3>2
  <2> QED  BY <2>1, <2>2, <2>3 DEF BackfillAhead
<1>2. CASE ~BackfillTake
  <2>1. ASSUME NEW k \in Stored("backfill", backfill.run)'
        PROVE  /\ k \in Stored("backfill", backfill.run) /\ ~BackfillStart
               /\ normalizedLogs'[k] = normalizedLogs[k]
               /\ SourceOf(k)' = SourceOf(k)
    <3>1. k \in Entries'
      BY DEF Stored
    <3>2. k \in Entries
      BY <1>2, <2>1, <3>1, NewEntry DEF Stored
    <3>3. normalizedLogs'[k] = normalizedLogs[k] /\ SourceOf(k)' = SourceOf(k)
      BY <2>1, <3>2, EntriesStay DEF Stored, Programs
    <3>4. ~BackfillStart
      BY <2>1, <3>2, <3>3, FreshRuns DEF Stored
    <3>5. backfill'.run = backfill.run
      BY <3>4, RunsGrow
    <3> QED  BY <2>1, <3>2, <3>3, <3>4, <3>5 DEF Stored
  <2>2. CASE BackfillStart
    <3>1. backfill'.turn = 1 /\ backfill'.batch = DocsOf(Sources[1])
      BY <2>2 DEF BackfillStart, BackfillAt
    <3>2. \A e \in backfill'.batch : arrived'[e].source = Sources[backfill'.turn]
      BY <2>2, <3>1 DEF BackfillStart, DocsOf
    <3> QED  BY <2>1, <2>2, <3>1, <3>2 DEF BackfillAhead
  <2>3. CASE BackfillDies
    <3>1. backfill'.turn = 0 /\ backfill'.batch = {}
      BY <2>3 DEF BackfillDies, BackfillAt
    <3> QED  BY <3>1 DEF BackfillAhead
  <2>4. CASE BackfillTurn
    <3>1. PICK t \in 1..Len(Sources) : t = backfill.turn
      BY <1>0, <2>4 DEF BackfillTurn
    <3>2. CASE t < Len(Sources)
      <4>1. /\ backfill'.turn = t + 1 /\ backfill'.run = backfill.run
            /\ backfill'.batch = DocsOf(Sources[t + 1])
        BY <1>0, <2>4, <3>1, <3>2 DEF BackfillTurn, BackfillAt
      <4>2. t + 1 \in 1..Len(Sources)
        BY <1>0, <3>2
      <4>3. UNCHANGED arrived
        BY <2>4 DEF BackfillTurn
      <4>4. \A e \in backfill'.batch : arrived'[e].source = Sources[t + 1]
        BY <4>1, <4>3 DEF DocsOf
      <4>5. ASSUME NEW k \in Stored("backfill", backfill.run)'
            PROVE  /\ normalizedLogs'[k].doc \notin backfill'.batch
                   /\ \E i \in 1..(t + 1) : SourceOf(k)' = Sources[i]
        <5>1. PICK i \in 1..t : SourceOf(k)' = Sources[i]
          BY <2>1, <3>1, <4>5 DEF BackfillAhead
        <5>2. i \in 1..Len(Sources) /\ i # t + 1 /\ i \in 1..(t + 1)
          BY <1>0, <5>1
        <5>3. Sources[i] # Sources[t + 1]
          BY <4>2, <5>2, LearningAssumption
        <5>4. normalizedLogs'[k].doc \notin backfill'.batch
          BY <4>4, <5>1, <5>3 DEF SourceOf
        <5> QED  BY <5>1, <5>2, <5>4
      <4> QED  BY <4>1, <4>4, <4>5 DEF BackfillAhead
    <3>3. CASE ~(t < Len(Sources))
      <4>1. backfill'.turn = 0 /\ backfill'.batch = {}
        BY <2>4, <3>1, <3>3 DEF BackfillTurn, BackfillAt
      <4> QED  BY <4>1 DEF BackfillAhead
    <3> QED  BY <3>2, <3>3
  <2>5. CASE UNCHANGED backfill
    <3>1. \A d \in backfill.batch : arrived'[d] = arrived[d]
      BY <1>0, DocsStay
    <3> QED  BY <2>1, <2>5, <3>1 DEF BackfillAhead
  <2> QED
    BY <1>2, <2>2, <2>3, <2>4, <2>5 DEF Next, Arrive, Simulate, LoopFind, LoopTake,
       LoopRestart, ParserStart, ParserTake, ParserDies, TrainStart, TrainStep,
       TrainEnd, writerVars, vars
<1> QED  BY <1>1, <1>2

LEMMA ParserAheadStep ==
  ASSUME TypeOK, RunsSoFar, ParserAhead, [Next]_vars
  PROVE  ParserAhead'
<1> SUFFICES ASSUME NEW k \in Stored("parser", parser.run)'
             PROVE  normalizedLogs'[k].doc \notin parser'.batch
  BY DEF ParserAhead
<1>1. k \in Entries' /\ normalizedLogs'[k].by = "parser"
  BY DEF Stored
<1>2. CASE k \notin Entries
  BY <1>1, <1>2, NewEntry
<1>3. CASE k \in Entries
  <2>1. normalizedLogs'[k] = normalizedLogs[k]
    BY <1>3, EntriesStay
  <2>2. ~ParserStart
    BY <1>3, <2>1, FreshRuns DEF Stored
  <2>3. k \in Stored("parser", parser.run)
    BY <1>3, <2>1, <2>2, RunsGrow DEF Stored
  <2>4. parser'.batch \subseteq parser.batch
    <3>1. CASE ParserTake \/ ParserDies
      BY <3>1 DEF ParserTake, ParserDies, TypeOK, WritersOK
    <3>2. CASE UNCHANGED parser
      BY <3>2
    <3> QED
      BY <2>2, <3>1, <3>2 DEF Next, Arrive, Simulate, LoopFind, LoopTake, LoopRestart,
         BackfillStart, BackfillTurn, BackfillTake, BackfillDies, TrainStart,
         TrainStep, TrainEnd, writerVars, vars
  <2> QED  BY <2>1, <2>3, <2>4 DEF ParserAhead
<1> QED  BY <1>2, <1>3

Ahead == RunsSoFar /\ LoopAhead /\ BackfillAhead /\ ParserAhead

LEMMA AheadInvariant == Spec => []Ahead
<1>1. Init => Ahead
  BY DEF Init, Ahead, RunsSoFar, LoopAhead, BackfillAhead, ParserAhead, Stored,
     Entries, FreshLoop
<1>2. TypeOK /\ Ahead /\ [Next]_vars => Ahead'
  BY RunsSoFarStep, LoopAheadStep, BackfillAheadStep, ParserAheadStep DEF Ahead
<1> QED  BY <1>1, <1>2, TypeCorrect, PTL DEF Spec

(* What is about to be stored has not been stored by this run.             *)
LEMMA TakenForTheFirstTime ==
  ASSUME TypeOK, Ahead, [Next]_vars,
         NEW k \in Entries', k \notin Entries, NEW j \in Entries,
         normalizedLogs'[k].by \in Programs
  PROVE  ~(/\ normalizedLogs'[j].doc = normalizedLogs'[k].doc
           /\ normalizedLogs'[j].by = normalizedLogs'[k].by
           /\ normalizedLogs'[j].run = normalizedLogs'[k].run)
<1> SUFFICES ASSUME normalizedLogs[j].doc = normalizedLogs'[k].doc,
                    normalizedLogs[j].by = normalizedLogs'[k].by,
                    normalizedLogs[j].run = normalizedLogs'[k].run
             PROVE  FALSE
  BY EntriesStay
<1>1. CASE /\ First(normalizedLogs'[k].doc, loop.batch)
           /\ normalizedLogs'[k].by = "loop" /\ normalizedLogs'[k].run = loop.run
  <2>1. j \in Stored("loop", loop.run)
    BY <1>1 DEF Stored
  <2>2. PICK d \in loop.batch : d = normalizedLogs[j].doc
    BY <1>1 DEF First
  <2>3. /\ loop.turn \in 1..Len(Sources) /\ d \in Nat
        /\ loop.last[loop.turn] \in Nat
    BY DocsStay DEF TypeOK, WritersOK
  <2>4. SourceOf(j) = Sources[loop.turn] /\ d > loop.last[loop.turn]
    BY <2>2 DEF Ahead, LoopAhead, SourceOf
  <2>5. d <= loop.last[loop.turn]
    BY <2>1, <2>2, <2>3, <2>4 DEF Ahead, LoopAhead
  <2> QED  BY <2>3, <2>4, <2>5
<1>2. CASE /\ normalizedLogs'[k].doc \in backfill.batch
           /\ normalizedLogs'[k].by = "backfill"
           /\ normalizedLogs'[k].run = backfill.run
  <2>1. j \in Stored("backfill", backfill.run)
    BY <1>2 DEF Stored
  <2> QED  BY <1>2, <2>1 DEF Ahead, BackfillAhead
<1>3. CASE /\ normalizedLogs'[k].doc \in parser.batch
           /\ normalizedLogs'[k].by = "parser"
           /\ normalizedLogs'[k].run = parser.run
  <2>1. j \in Stored("parser", parser.run)
    BY <1>3 DEF Stored
  <2> QED  BY <1>3, <2>1 DEF Ahead, ParserAhead
<1> QED  BY <1>1, <1>2, <1>3, NewEntry DEF Programs

(* OncePerRun, for any collections and any number of runs: no run of a     *)
(* program writes two entries for one document.                            *)
THEOREM OnceARun == Spec => []OncePerRun
<1>1. Init => OncePerRun
  BY DEF Init, OncePerRun, Entries
<1>2. TypeOK /\ Ahead /\ OncePerRun /\ [Next]_vars => OncePerRun'
  <2> SUFFICES ASSUME TypeOK, Ahead, OncePerRun, [Next]_vars,
                      NEW j \in Entries', NEW k \in Entries',
                      normalizedLogs'[j].by \in Programs,
                      normalizedLogs'[j].doc = normalizedLogs'[k].doc,
                      normalizedLogs'[j].by = normalizedLogs'[k].by,
                      normalizedLogs'[j].run = normalizedLogs'[k].run
               PROVE  j = k
    BY DEF OncePerRun
  <2>1. CASE j \in Entries /\ k \in Entries
    BY <2>1, EntriesStay DEF OncePerRun
  <2>2. CASE j \in Entries /\ k \notin Entries
    BY <2>2, TakenForTheFirstTime
  <2>3. CASE j \notin Entries /\ k \in Entries
    BY <2>3, TakenForTheFirstTime
  <2>4. CASE j \notin Entries /\ k \notin Entries
    BY <2>4, NewEntry DEF Programs
  <2> QED  BY <2>1, <2>2, <2>3, <2>4
<1> QED  BY <1>1, <1>2, TypeCorrect, AheadInvariant, PTL DEF Spec

-----------------------------------------------------------------------------
(* Memories                                                                *)

LEMMA LoopStored ==
  ASSUME TypeOK, RunsSoFar, [Next]_vars, ~LoopTake
  PROVE  Stored("loop", loop.run)' =
           IF LoopRestart THEN {} ELSE Stored("loop", loop.run)
<1>1. ASSUME NEW k \in Stored("loop", loop.run)'
      PROVE  k \in Stored("loop", loop.run) /\ ~LoopRestart
  <2>1. k \in Entries'
    BY DEF Stored
  <2>2. k \in Entries
    BY <1>1, <2>1, NewEntry DEF Stored
  <2>3. normalizedLogs'[k] = normalizedLogs[k]
    BY <2>2, EntriesStay
  <2>4. ~LoopRestart
    BY <1>1, <2>2, <2>3, FreshRuns DEF Stored
  <2> QED  BY <1>1, <2>2, <2>3, <2>4, RunsGrow DEF Stored
<1>2. ~LoopRestart => Stored("loop", loop.run) \subseteq Stored("loop", loop.run)'
  BY EntriesStay, RunsGrow DEF Stored
<1> QED  BY <1>1, <1>2

LEMMA BackfillStored ==
  ASSUME TypeOK, RunsSoFar, [Next]_vars, ~BackfillTake
  PROVE  Stored("backfill", backfill.run)' =
           IF BackfillStart THEN {} ELSE Stored("backfill", backfill.run)
<1>1. ASSUME NEW k \in Stored("backfill", backfill.run)'
      PROVE  k \in Stored("backfill", backfill.run) /\ ~BackfillStart
  <2>1. k \in Entries'
    BY DEF Stored
  <2>2. k \in Entries
    BY <1>1, <2>1, NewEntry DEF Stored
  <2>3. normalizedLogs'[k] = normalizedLogs[k]
    BY <2>2, EntriesStay
  <2>4. ~BackfillStart
    BY <1>1, <2>2, <2>3, FreshRuns DEF Stored
  <2> QED  BY <1>1, <2>2, <2>3, <2>4, RunsGrow DEF Stored
<1>2. ~BackfillStart =>
        Stored("backfill", backfill.run) \subseteq Stored("backfill", backfill.run)'
  BY EntriesStay, RunsGrow DEF Stored
<1> QED  BY <1>1, <1>2

LEMMA EntriesKept ==
  ASSUME TypeOK, [Next]_vars, NEW k \in Entries
  PROVE  /\ Kept(k)' = Kept(k) /\ Memorable(k)' = Memorable(k)
         /\ normalizedLogs[k].by \in Programs => SourceOf(k)' = SourceOf(k)
BY EntriesStay DEF Kept, Memorable

(* A memory with one more entry in it.                                     *)
LEMMA OneMoreRemembered ==
  ASSUME LogsOK, NEW d, NEW by, NEW run, NEW found, NEW tags,
         Store(d, by, run, found, tags), NEW S \in SUBSET Entries
  PROVE  {Kept(k)' : k \in {j \in S \cup {Len(normalizedLogs) + 1} : Memorable(j)'}}
           = Remembered({Kept(k) : k \in {j \in S : Memorable(j)}}, found)
<1> DEFINE n == Len(normalizedLogs)
<1>1. /\ n \in Nat
      /\ \A k \in 1..n : normalizedLogs'[k] = normalizedLogs[k]
      /\ normalizedLogs'[n + 1] =
           [doc |-> d, by |-> by, run |-> run, ip |-> found.ip,
            port |-> found.port, tags |-> tags,
            timestamp |-> arrived[d].timestamp]
  BY StoredEntry
<1>2. \A k \in S : Kept(k)' = Kept(k) /\ Memorable(k)' = Memorable(k)
  BY <1>1 DEF Kept, Memorable, Entries
<1>3. PICK m : m = n + 1
  OBVIOUS
<1>4. normalizedLogs'[m].ip = found.ip /\ normalizedLogs'[m].port = found.port
  BY <1>1, <1>3
<1>5. /\ Kept(m)' = <<found.ip, found.port>>
      /\ Memorable(m)' = (found.ip # "unknown" /\ found.port \in Ports)
  BY <1>4 DEF Kept, Memorable
<1>6. {Kept(k)' : k \in {j \in S \cup {m} : Memorable(j)'}}
        = Remembered({Kept(k) : k \in {j \in S : Memorable(j)}}, found)
  <2>1. {j \in S \cup {m} : Memorable(j)'} =
          {j \in S : Memorable(j)}
          \cup (IF found.ip # "unknown" /\ found.port \in Ports THEN {m} ELSE {})
    BY <1>2, <1>5
  <2> DEFINE T == {j \in S : Memorable(j)}
  <2>2. \A k \in T : Kept(k)' = Kept(k)
    BY <1>2
  <2> HIDE DEF T
  <2>3. CASE found.ip # "unknown" /\ found.port \in Ports
    <3>1. {Kept(k)' : k \in T \cup {m}} =
            {Kept(k) : k \in T} \cup {<<found.ip, found.port>>}
      BY <1>5, <2>2
    <3> QED  BY <2>1, <2>3, <3>1 DEF Remembered, T
  <2>4. CASE ~(found.ip # "unknown" /\ found.port \in Ports)
    <3>1. {Kept(k)' : k \in T} = {Kept(k) : k \in T}
      BY <2>2
    <3> QED  BY <2>1, <2>4, <3>1 DEF Remembered, T
  <2> QED  BY <2>3, <2>4
<1> QED  BY <1>3, <1>6

LEMMA LoopRemembersStep ==
  ASSUME TypeOK, RunsSoFar, LoopRemembers, [Next]_vars
  PROVE  LoopRemembers'
<1> DEFINE stored == Stored("loop", loop.run)
<1>1. CASE LoopTake
  <2>1. PICK d \in loop.batch, found \in Found :
          \/ LoopPassed(d, loop.memory) /\ UNCHANGED normalizedLogs
          \/ /\ Store(d, "loop", loop.run, found,
                      TagsOf(arrived[d].line, found.ip, loop.memory))
             /\ LoopPassed(d, Remembered(loop.memory, found))
    BY <1>1, LoopTakes
  <2>2. CASE LoopPassed(d, loop.memory) /\ UNCHANGED normalizedLogs
    <3>1. loop'.run = loop.run /\ loop'.memory = loop.memory
      BY <2>2 DEF LoopPassed
    <3> QED
      BY <2>2, <3>1 DEF LoopRemembers, Stored, Entries, Kept, Memorable
  <2>3. CASE /\ Store(d, "loop", loop.run, found,
                      TagsOf(arrived[d].line, found.ip, loop.memory))
             /\ LoopPassed(d, Remembered(loop.memory, found))
    <3>1. loop'.run = loop.run /\ loop'.memory = Remembered(loop.memory, found)
      BY <2>3 DEF LoopPassed
    <3>2. Stored("loop", loop.run)' = stored \cup {Len(normalizedLogs) + 1}
      <4>1. PICK tags : tags = TagsOf(arrived[d].line, found.ip, loop.memory)
        OBVIOUS
      <4>2. /\ Len(normalizedLogs) \in Nat
            /\ Len(normalizedLogs') = Len(normalizedLogs) + 1
            /\ \A k \in 1..Len(normalizedLogs) :
                 normalizedLogs'[k] = normalizedLogs[k]
            /\ normalizedLogs'[Len(normalizedLogs) + 1] =
                 [doc |-> d, by |-> "loop", run |-> loop.run, ip |-> found.ip,
                  port |-> found.port, tags |-> tags,
                  timestamp |-> arrived[d].timestamp]
        BY <2>3, <4>1, StoredEntry DEF TypeOK
      <4> QED  BY <3>1, <4>2 DEF Stored, Entries
    <3>3. stored \in SUBSET Entries
      BY DEF Stored
    <3>4. {Kept(k)' : k \in {j \in stored \cup {Len(normalizedLogs) + 1} :
                               Memorable(j)'}}
            = Remembered({Kept(k) : k \in {j \in stored : Memorable(j)}}, found)
      <4> HIDE DEF stored
      <4> QED  BY <2>3, <3>3, OneMoreRemembered DEF TypeOK
    <3>5. loop.memory = {Kept(k) : k \in {j \in stored : Memorable(j)}}
      BY DEF LoopRemembers
    <3> HIDE DEF stored
    <3> QED  BY <3>1, <3>2, <3>4, <3>5 DEF LoopRemembers
  <2> QED  BY <2>1, <2>2, <2>3
<1>2. CASE LoopRestart
  <2>1. loop'.memory = {} /\ ~LoopTake
    <3>1. loop'.memory = {} /\ loop'.run = loop.run + 1
      BY <1>2 DEF LoopRestart, FreshLoop
    <3>2. LoopTake => loop'.run = loop.run
      BY LoopTakes DEF LoopPassed
    <3> QED  BY <3>1, <3>2 DEF TypeOK, WritersOK
  <2> QED  BY <1>2, <2>1, LoopStored DEF LoopRemembers
<1>3. CASE ~LoopTake /\ ~LoopRestart
  <2>1. loop'.memory = loop.memory
    <3>1. CASE LoopFind
      BY <3>1 DEF LoopFind, TypeOK, WritersOK
    <3>2. CASE UNCHANGED loop
      BY <3>2
    <3> QED
      BY <1>3, <3>1, <3>2 DEF Next, Arrive, Simulate, BackfillStart, BackfillTurn,
         BackfillTake, BackfillDies, ParserStart, ParserTake, ParserDies,
         TrainStart, TrainStep, TrainEnd, writerVars, vars
  <2>2. Stored("loop", loop.run)' = stored
    BY <1>3, LoopStored
  <2>3. \A k \in stored : Kept(k)' = Kept(k) /\ Memorable(k)' = Memorable(k)
    BY EntriesKept DEF Stored
  <2> HIDE DEF stored
  <2>4. {Kept(k)' : k \in {j \in stored : Memorable(j)'}} =
          {Kept(k) : k \in {j \in stored : Memorable(j)}}
    BY <2>3
  <2> QED  BY <2>1, <2>2, <2>4 DEF LoopRemembers, stored
<1> QED  BY <1>1, <1>2, <1>3

LEMMA BackfillRemembersStep ==
  ASSUME TypeOK, RunsSoFar, BackfillRemembers, [Next]_vars
  PROVE  BackfillRemembers'
<1> SUFFICES ASSUME backfill'.turn # 0
             PROVE  backfill'.memory =
                      {Kept(k)' : k \in {j \in CowrieStored' : Memorable(j)'}}
  BY DEF BackfillRemembers
<1> DEFINE stored == CowrieStored
<1>1. stored \in SUBSET Entries
  BY DEF CowrieStored, Stored
<1>2. {Kept(k)' : k \in {j \in stored : Memorable(j)'}} =
        {Kept(k) : k \in {j \in stored : Memorable(j)}}
  <2>1. \A k \in stored : Kept(k)' = Kept(k) /\ Memorable(k)' = Memorable(k)
    BY <1>1, EntriesKept
  <2> HIDE DEF stored
  <2> QED  BY <2>1
<1>3. CASE BackfillTake
  <2>1. PICK d \in backfill.batch, found \in Found :
          \/ /\ backfill' = [backfill EXCEPT !.batch = backfill.batch \ {d}]
             /\ UNCHANGED normalizedLogs
          \/ /\ Store(d, "backfill", backfill.run, found,
                      TagsOf(arrived[d].line, found.ip, BackfillMemory(d, found)))
             /\ backfill' = [backfill EXCEPT !.batch = backfill.batch \ {d},
                                             !.memory = BackfillMemory(d, found)]
    BY <1>3, BackfillTakes
  <2>2. UNCHANGED arrived
    BY <1>3 DEF BackfillTake
  <2>3. backfill'.turn = backfill.turn /\ backfill'.run = backfill.run
    BY <2>1 DEF TypeOK, WritersOK
  <2>4. backfill.memory = {Kept(k) : k \in {j \in stored : Memorable(j)}}
    BY <2>3 DEF BackfillRemembers
  <2>5. CASE /\ backfill' = [backfill EXCEPT !.batch = backfill.batch \ {d}]
             /\ UNCHANGED normalizedLogs
    <3>1. backfill'.memory = backfill.memory
      BY <2>5 DEF TypeOK, WritersOK
    <3>2. CowrieStored' = stored
      BY <2>2, <2>3, <2>5 DEF CowrieStored, Stored, Entries, SourceOf
    <3> HIDE DEF stored
    <3> QED  BY <1>2, <2>4, <3>1, <3>2
  <2>6. CASE /\ Store(d, "backfill", backfill.run, found,
                      TagsOf(arrived[d].line, found.ip, BackfillMemory(d, found)))
             /\ backfill' = [backfill EXCEPT !.batch = backfill.batch \ {d},
                                             !.memory = BackfillMemory(d, found)]
    <3>1. backfill'.memory = BackfillMemory(d, found)
      BY <2>6 DEF TypeOK, WritersOK
    <3>2. PICK m : m = Len(normalizedLogs) + 1
      OBVIOUS
    <3>3. PICK tags :
            tags = TagsOf(arrived[d].line, found.ip, BackfillMemory(d, found))
      OBVIOUS
    <3>4. Store(d, "backfill", backfill.run, found, tags)
      BY <2>6, <3>3
    <3>5. /\ Len(normalizedLogs) \in Nat
          /\ Len(normalizedLogs') = Len(normalizedLogs) + 1
          /\ \A k \in 1..Len(normalizedLogs) : normalizedLogs'[k] = normalizedLogs[k]
          /\ normalizedLogs'[m] =
               [doc |-> d, by |-> "backfill", run |-> backfill.run,
                ip |-> found.ip, port |-> found.port, tags |-> tags,
                timestamp |-> arrived[d].timestamp]
      BY <3>2, <3>4, StoredEntry DEF TypeOK
    <3>6. /\ normalizedLogs'[m].doc = d /\ normalizedLogs'[m].by = "backfill"
          /\ normalizedLogs'[m].run = backfill.run
      BY <3>5
    <3>7. CowrieStored' =
            stored \cup (IF arrived[d].source = "cowrie_logs" THEN {m} ELSE {})
      <4>1. \A k : k \in Entries' <=> k \in Entries \/ k = m
        BY <3>2, <3>5 DEF Entries
      <4>2. \A k \in Entries : normalizedLogs'[k] = normalizedLogs[k]
        BY <3>5 DEF Entries
      <4> QED  BY <2>2, <2>3, <3>6, <4>1, <4>2 DEF CowrieStored, Stored, SourceOf
    <3>8. {Kept(k)' : k \in {j \in stored \cup {m} : Memorable(j)'}}
            = Remembered({Kept(k) : k \in {j \in stored : Memorable(j)}}, found)
      <4> HIDE DEF stored
      <4> QED  BY <1>1, <3>2, <3>4, OneMoreRemembered DEF TypeOK
    <3> HIDE DEF stored
    <3>9. CASE arrived[d].source = "cowrie_logs"
      BY <2>4, <3>1, <3>7, <3>8, <3>9 DEF BackfillMemory
    <3>10. CASE arrived[d].source # "cowrie_logs"
      BY <1>2, <2>4, <3>1, <3>7, <3>10 DEF BackfillMemory
    <3> QED  BY <3>9, <3>10
  <2> QED  BY <2>1, <2>5, <2>6
<1>4. CASE BackfillStart
  <2>1. backfill'.memory = {} /\ ~BackfillTake
    <3>1. backfill'.memory = {} /\ backfill'.run = backfill.run + 1
      BY <1>4 DEF BackfillStart, BackfillAt
    <3>2. BackfillTake => backfill'.run = backfill.run
      BY BackfillTakes DEF TypeOK, WritersOK
    <3> QED  BY <3>1, <3>2 DEF TypeOK, WritersOK
  <2>2. CowrieStored' = {}
    BY <1>4, <2>1, BackfillStored DEF CowrieStored
  <2> QED  BY <2>1, <2>2
<1>5. CASE ~BackfillTake /\ ~BackfillStart
  <2>1. backfill'.memory = backfill.memory /\ backfill.turn # 0
    <3>1. CASE BackfillTurn
      BY <3>1 DEF BackfillTurn, BackfillAt
    <3>2. CASE BackfillDies
      BY <3>2 DEF BackfillDies, BackfillAt
    <3>3. CASE UNCHANGED backfill
      BY <3>3
    <3> QED
      BY <1>5, <3>1, <3>2, <3>3 DEF Next, Arrive, Simulate, LoopFind, LoopTake,
         LoopRestart, ParserStart, ParserTake, ParserDies, TrainStart,
         TrainStep, TrainEnd, writerVars, vars
  <2>2. Stored("backfill", backfill.run)' = Stored("backfill", backfill.run)
    BY <1>5, BackfillStored
  <2>3. \A k \in Stored("backfill", backfill.run) : SourceOf(k)' = SourceOf(k)
    BY EntriesStay DEF Stored, Programs
  <2>4. CowrieStored' = stored
    BY <2>2, <2>3 DEF CowrieStored
  <2>5. backfill.memory = {Kept(k) : k \in {j \in stored : Memorable(j)}}
    BY <2>1 DEF BackfillRemembers
  <2> HIDE DEF stored
  <2> QED  BY <1>2, <2>1, <2>4, <2>5
<1> QED  BY <1>3, <1>4, <1>5

(* The ports of an address in a memory that kept what was memorable of     *)
(* some pairs.                                                             *)
LEMMA PortsOfMemory ==
  ASSUME NEW kept, NEW ip, ip # "unknown", NEW memory,
         \A m : m \in memory <=> m \in kept /\ m[1] # "unknown" /\ m[2] \in Ports
  PROVE  PortsWith(memory, ip) = {m[2] : m \in {n \in kept : n[1] = ip}} \cap Ports
BY DEF PortsWith

(* What PortsBefore counts with entry k.                                   *)
CountedWith(k) ==
  LET e == normalizedLogs[k] IN
  {j \in Entries :
     LET f == normalizedLogs[j] IN
     /\ f.by = e.by /\ f.run = e.run /\ f.ip = e.ip
     /\ \/ e.by = "loop" /\ j < k
        \/ /\ e.by = "backfill" /\ j <= k
           /\ arrived[f.doc].source = "cowrie_logs"}

LEMMA PortsCounted ==
  ASSUME NEW k
  PROVE  PortsBefore(k) = {normalizedLogs[j].port : j \in CountedWith(k)} \cap Ports
BY DEF PortsBefore, CountedWith

(* What was counted with an entry when it was stored is counted for ever.  *)
LEMMA PortsStay ==
  ASSUME TypeOK, [Next]_vars, NEW k \in Entries
  PROVE  PortsBefore(k)' = PortsBefore(k)
<1>1. CountedWith(k)' = CountedWith(k)
  <2>1. ASSUME NEW j \in Entries', j \notin Entries
        PROVE  j > k /\ ~(j <= k) /\ ~(j < k)
    <3>1. j = Len(normalizedLogs) + 1 /\ Len(normalizedLogs) \in Nat
      BY <2>1, NewEntry, LengthsAreNumbers DEF TypeOK
    <3> QED  BY <3>1 DEF Entries
  <2>2. \A j \in Entries : /\ j \in Entries'
                           /\ normalizedLogs'[j] = normalizedLogs[j]
                           /\ normalizedLogs[j].by = "backfill" =>
                                arrived'[normalizedLogs[j].doc].source =
                                  arrived[normalizedLogs[j].doc].source
    BY EntriesStay DEF SourceOf, Programs
  <2>3. ASSUME NEW j \in CountedWith(k)'
        PROVE  j \in CountedWith(k)
    BY <2>1, <2>2, <2>3 DEF CountedWith
  <2>4. ASSUME NEW j \in CountedWith(k)
        PROVE  j \in CountedWith(k)'
    BY <2>2, <2>4 DEF CountedWith
  <2> QED  BY <2>3, <2>4
<1>2. \A j \in CountedWith(k) : normalizedLogs'[j] = normalizedLogs[j]
  BY EntriesStay DEF CountedWith
<1>3. PortsBefore(k)' =
        {normalizedLogs'[j].port : j \in CountedWith(k)'} \cap Ports
  BY DEF PortsBefore, CountedWith
<1>4. {normalizedLogs'[j].port : j \in CountedWith(k)} =
        {normalizedLogs[j].port : j \in CountedWith(k)}
  BY <1>2
<1> QED  BY <1>1, <1>3, <1>4, PortsCounted

(* The loop tags an entry by what it stored before.                        *)
LEMMA LoopCounts ==
  ASSUME TypeOK, LoopRemembers, [Next]_vars, NEW d, NEW found, NEW tags,
         Store(d, "loop", loop.run, found, tags), found.ip # "unknown",
         NEW k, k = Len(normalizedLogs) + 1
  PROVE  PortsBefore(k)' = PortsWith(loop.memory, found.ip)
<1> DEFINE stored == Stored("loop", loop.run)
           seen == {j \in stored : normalizedLogs[j].ip = found.ip}
<1>1. /\ Len(normalizedLogs) \in Nat
      /\ Len(normalizedLogs') = Len(normalizedLogs) + 1
      /\ \A j \in 1..Len(normalizedLogs) : normalizedLogs'[j] = normalizedLogs[j]
      /\ normalizedLogs'[k] =
           [doc |-> d, by |-> "loop", run |-> loop.run, ip |-> found.ip,
            port |-> found.port, tags |-> tags,
            timestamp |-> arrived[d].timestamp]
  BY StoredEntry DEF TypeOK
<1>2. /\ normalizedLogs'[k].by = "loop" /\ normalizedLogs'[k].run = loop.run
      /\ normalizedLogs'[k].ip = found.ip
  BY <1>1
<1>3. CountedWith(k)' = seen
  <2>1. \A j : j \in Entries' /\ j < k <=> j \in Entries
    BY <1>1 DEF Entries
  <2>2. \A j \in Entries : normalizedLogs'[j] = normalizedLogs[j]
    BY <1>1 DEF Entries
  <2>3. ASSUME NEW j \in CountedWith(k)'
        PROVE  j \in seen
    BY <1>2, <2>1, <2>2, <2>3 DEF CountedWith, Stored
  <2>4. ASSUME NEW j \in seen
        PROVE  j \in CountedWith(k)'
    BY <1>2, <2>1, <2>2, <2>4 DEF CountedWith, Stored
  <2> QED  BY <2>3, <2>4
<1>4. \A j \in seen : normalizedLogs'[j] = normalizedLogs[j]
  BY <1>1 DEF Stored, Entries
<1>5. PortsBefore(k)' =
        {normalizedLogs'[j].port : j \in CountedWith(k)'} \cap Ports
  BY DEF PortsBefore, CountedWith
<1>6. PICK kept : kept = {Kept(j) : j \in stored}
  OBVIOUS
<1>7. \A m : m \in loop.memory <=>
               m \in kept /\ m[1] # "unknown" /\ m[2] \in Ports
  BY <1>6 DEF LoopRemembers, Kept, Memorable
<1> HIDE DEF stored
<1>8. {m[2] : m \in {n \in kept : n[1] = found.ip}} =
        {normalizedLogs[j].port : j \in seen}
  <2>1. ASSUME NEW m \in kept, m[1] = found.ip
        PROVE  m[2] \in {normalizedLogs[j].port : j \in seen}
    <3>1. PICK j \in stored : m = Kept(j)
      BY <1>6
    <3> QED  BY <2>1, <3>1 DEF Kept
  <2>2. ASSUME NEW j \in seen
        PROVE  Kept(j) \in kept /\ Kept(j)[1] = found.ip
               /\ Kept(j)[2] = normalizedLogs[j].port
    BY <1>6 DEF Kept
  <2> QED  BY <2>1, <2>2
<1>9. {normalizedLogs'[j].port : j \in seen} = {normalizedLogs[j].port : j \in seen}
  BY <1>4
<1>10. PortsWith(loop.memory, found.ip) =
         {m[2] : m \in {n \in kept : n[1] = found.ip}} \cap Ports
  BY <1>7, PortsOfMemory
<1> QED  BY <1>3, <1>5, <1>8, <1>9, <1>10

(* The back-fill tags an entry by what it has stored of Cowrie with it.    *)
LEMMA BackfillCounts ==
  ASSUME TypeOK, BackfillRemembers', [Next]_vars, NEW d, NEW found, NEW tags,
         Store(d, "backfill", backfill.run, found, tags), found.ip # "unknown",
         backfill'.run = backfill.run, backfill'.turn # 0,
         NEW k, k = Len(normalizedLogs) + 1
  PROVE  PortsBefore(k)' = PortsWith(backfill'.memory, found.ip)
<1> DEFINE log == normalizedLogs'
           stored == CowrieStored'
           seen == {j \in stored : log[j].ip = found.ip}
<1>1. /\ Len(normalizedLogs) \in Nat
      /\ Len(normalizedLogs') = Len(normalizedLogs) + 1
      /\ normalizedLogs'[k] =
           [doc |-> d, by |-> "backfill", run |-> backfill.run, ip |-> found.ip,
            port |-> found.port, tags |-> tags,
            timestamp |-> arrived[d].timestamp]
  BY StoredEntry DEF TypeOK
<1>2. /\ log[k].by = "backfill" /\ log[k].run = backfill.run
      /\ log[k].ip = found.ip
  BY <1>1
<1>3. CountedWith(k)' = seen
  <2>1. \A j \in Entries' : j <= k
    BY <1>1 DEF Entries
  <2>2. ASSUME NEW j \in CountedWith(k)'
        PROVE  j \in seen
    BY <1>2, <2>1, <2>2 DEF CountedWith, CowrieStored, Stored, SourceOf
  <2>3. ASSUME NEW j \in seen
        PROVE  j \in CountedWith(k)'
    BY <1>2, <2>1, <2>3 DEF CountedWith, CowrieStored, Stored, SourceOf
  <2> QED  BY <2>2, <2>3
<1>4. PortsBefore(k)' = {log[j].port : j \in CountedWith(k)'} \cap Ports
  BY DEF PortsBefore, CountedWith
<1>5. PICK kept : kept = {<<log[j].ip, log[j].port>> : j \in stored}
  OBVIOUS
<1>6. \A m : m \in backfill'.memory <=>
               m \in kept /\ m[1] # "unknown" /\ m[2] \in Ports
  BY <1>5 DEF BackfillRemembers, Kept, Memorable
<1> HIDE DEF stored, log
<1>7. {m[2] : m \in {n \in kept : n[1] = found.ip}} = {log[j].port : j \in seen}
  <2>1. ASSUME NEW m \in kept, m[1] = found.ip
        PROVE  m[2] \in {log[j].port : j \in seen}
    <3>1. PICK j \in stored : m = <<log[j].ip, log[j].port>>
      BY <1>5
    <3> QED  BY <2>1, <3>1
  <2>2. ASSUME NEW j \in seen
        PROVE  <<found.ip, log[j].port>> \in kept
    BY <1>5
  <2>3. ASSUME NEW j \in seen
        PROVE  log[j].port \in {m[2] : m \in {n \in kept : n[1] = found.ip}}
    <3>1. PICK m : m = <<found.ip, log[j].port>>
      OBVIOUS
    <3>2. m \in kept /\ m[1] = found.ip /\ m[2] = log[j].port
      BY <2>2, <2>3, <3>1
    <3> QED  BY <3>2
  <2> QED  BY <2>1, <2>3
<1>8. PortsWith(backfill'.memory, found.ip) =
        {m[2] : m \in {n \in kept : n[1] = found.ip}} \cap Ports
  BY <1>6, PortsOfMemory
<1> QED  BY <1>3, <1>4, <1>7, <1>8

Earned(k) ==
  "port_scan" \in normalizedLogs[k].tags <=>
    normalizedLogs[k].ip # "unknown" /\ Cardinality(PortsBefore(k)) > PortLimit

AllEarned == \A k \in Entries : Earned(k)

LEMMA NewEntryEarned ==
  ASSUME TypeOK, Ahead, LoopRemembers, BackfillRemembers, [Next]_vars,
         NEW k \in Entries', k \notin Entries
  PROVE  Earned(k)'
<1>0. k = Len(normalizedLogs) + 1 /\ normalizedLogs' # normalizedLogs
  BY NewEntry DEF Entries
<1>1. ASSUME NEW d, NEW by, NEW run, NEW found, NEW tags,
             Store(d, by, run, found, tags)
      PROVE  /\ normalizedLogs'[k].tags = tags /\ normalizedLogs'[k].ip = found.ip
             /\ normalizedLogs'[k].by = by
  <2>1. normalizedLogs'[k] =
          [doc |-> d, by |-> by, run |-> run, ip |-> found.ip,
           port |-> found.port, tags |-> tags,
           timestamp |-> arrived[d].timestamp]
    BY <1>0, <1>1, StoredEntry DEF TypeOK
  <2> QED  BY <2>1
<1>2. CASE LoopTake
  <2>1. PICK d \in loop.batch, found \in Found :
          Store(d, "loop", loop.run, found,
                TagsOf(arrived[d].line, found.ip, loop.memory))
    BY <1>0, <1>2, LoopTakes
  <2>2. PICK tags : tags = TagsOf(arrived[d].line, found.ip, loop.memory)
    OBVIOUS
  <2>3. "port_scan" \in tags <=>
          found.ip # "unknown"
          /\ Cardinality(PortsWith(loop.memory, found.ip)) > PortLimit
    BY <2>2, DocsAreDocs, TagsWritten DEF TypeOK, WritersOK
  <2>4. Store(d, "loop", loop.run, found, tags)
    BY <2>1, <2>2
  <2>5. found.ip # "unknown" => PortsBefore(k)' = PortsWith(loop.memory, found.ip)
    BY <1>0, <2>4, LoopCounts
  <2>6. normalizedLogs'[k].tags = tags /\ normalizedLogs'[k].ip = found.ip
    BY <1>1, <2>4
  <2> QED  BY <2>3, <2>5, <2>6 DEF Earned
<1>3. CASE BackfillTake
  <2>1. PICK d \in backfill.batch, found \in Found :
          /\ Store(d, "backfill", backfill.run, found,
                   TagsOf(arrived[d].line, found.ip, BackfillMemory(d, found)))
          /\ backfill' = [backfill EXCEPT !.batch = backfill.batch \ {d},
                                          !.memory = BackfillMemory(d, found)]
    BY <1>0, <1>3, BackfillTakes
  <2>2. PICK memory : memory = BackfillMemory(d, found)
    OBVIOUS
  <2>3. PICK tags : tags = TagsOf(arrived[d].line, found.ip, memory)
    OBVIOUS
  <2>4. "port_scan" \in tags <=>
          found.ip # "unknown"
          /\ Cardinality(PortsWith(memory, found.ip)) > PortLimit
    BY <2>3, DocsAreDocs, TagsWritten DEF TypeOK, WritersOK
  <2>5. Store(d, "backfill", backfill.run, found, tags)
    BY <2>1, <2>2, <2>3
  <2>6. /\ backfill'.memory = memory /\ backfill'.run = backfill.run
        /\ backfill'.turn = backfill.turn /\ backfill.turn # 0
    BY <2>1, <2>2 DEF TypeOK, WritersOK, Ahead, BackfillAhead
  <2>7. BackfillRemembers'
    BY BackfillRemembersStep DEF Ahead
  <2>8. found.ip # "unknown" => PortsBefore(k)' = PortsWith(memory, found.ip)
    <3>1. found.ip # "unknown" =>
            PortsBefore(k)' = PortsWith(backfill'.memory, found.ip)
      BY <1>0, <2>5, <2>6, <2>7, BackfillCounts
    <3> QED  BY <2>6, <3>1
  <2>9. normalizedLogs'[k].tags = tags /\ normalizedLogs'[k].ip = found.ip
    BY <1>1, <2>5
  <2> QED  BY <2>4, <2>8, <2>9 DEF Earned
<1>4. CASE ParserTake
  <2>1. PICK d \in parser.batch, found \in Found :
          Store(d, "parser", parser.run, found, {})
    BY <1>0, <1>4, ParserTakes
  <2>2. normalizedLogs'[k].tags = {} /\ normalizedLogs'[k].by = "parser"
    BY <1>1, <2>1
  <2>3. ~(Cardinality(PortsBefore(k)') > PortLimit)
    <3>1. PortsBefore(k)' = {}
      BY <2>2 DEF PortsBefore
    <3>2. Cardinality({}) = 0
      BY FS_EmptySet
    <3>3. PortLimit \in Nat
      BY ScoringAssumption
    <3>4. ~(Cardinality({}) > PortLimit)
      BY <3>2, <3>3
    <3> QED  BY <3>1, <3>4
  <2> QED  BY <2>2, <2>3 DEF Earned
<1>5. CASE Simulate
  <2>1. PICK log \in TestLogs, t \in 1..MaxTime :
          normalizedLogs' = Append(normalizedLogs, TestEntry(log, t))
    BY <1>5 DEF Simulate
  <2>2. normalizedLogs'[k] = TestEntry(log, t)
    BY <1>0, <2>1, NewEntry, LengthsAreNumbers DEF TypeOK, LogsOK
  <2>3. /\ "port_scan" \notin normalizedLogs'[k].tags
        /\ normalizedLogs'[k].by = "simulator"
    BY <2>2, LearningAssumption DEF TestEntry
  <2>4. ~(Cardinality(PortsBefore(k)') > PortLimit)
    <3>1. PortsBefore(k)' = {}
      BY <2>3 DEF PortsBefore
    <3>2. Cardinality({}) = 0
      BY FS_EmptySet
    <3>3. PortLimit \in Nat
      BY ScoringAssumption
    <3>4. ~(Cardinality({}) > PortLimit)
      BY <3>2, <3>3
    <3> QED  BY <3>1, <3>4
  <2> QED  BY <2>3, <2>4 DEF Earned
<1> QED  BY <1>0, <1>2, <1>3, <1>4, <1>5, OnlyTakesStore

(* PortScanIsEarned, for any limit and any lines: an entry is tagged       *)
(* port_scan exactly when its process has stored more ports of its address *)
(* than the limit.                                                         *)
THEOREM PortScans == Spec => []PortScanIsEarned
<1>1. Init => LoopRemembers /\ BackfillRemembers /\ AllEarned
  BY DEF Init, LoopRemembers, BackfillRemembers, AllEarned, Stored,
     Entries, FreshLoop
<1>2. TypeOK /\ Ahead /\ LoopRemembers /\ BackfillRemembers /\ [Next]_vars
        => LoopRemembers' /\ BackfillRemembers'
  BY LoopRemembersStep, BackfillRemembersStep DEF Ahead
<1>3. TypeOK /\ Ahead /\ LoopRemembers /\ BackfillRemembers /\ AllEarned
      /\ [Next]_vars
        => AllEarned'
  <2> SUFFICES ASSUME TypeOK, Ahead, LoopRemembers, BackfillRemembers,
                      AllEarned, [Next]_vars, NEW k \in Entries'
               PROVE  Earned(k)'
    BY DEF AllEarned
  <2>1. CASE k \notin Entries
    BY <2>1, NewEntryEarned
  <2>2. CASE k \in Entries
    <3>1. Earned(k)
      BY <2>2 DEF AllEarned
    <3>2. normalizedLogs'[k] = normalizedLogs[k] /\ PortsBefore(k)' = PortsBefore(k)
      BY <2>2, EntriesStay, PortsStay
    <3> QED  BY <3>1, <3>2 DEF Earned
  <2> QED  BY <2>1, <2>2
<1>4. AllEarned => PortScanIsEarned
  BY DEF AllEarned, Earned, PortScanIsEarned
<1> QED  BY <1>1, <1>2, <1>3, <1>4, TypeCorrect, AheadInvariant, PTL DEF Spec

=============================================================================
