------------------------------- MODULE Scoring -------------------------------
(***************************************************************************)
(* What three programs make of a document of a source collection, and what *)
(* the learner makes of what they wrote.  normalizer_loop.py,              *)
(* normalized_logs.py (the back-fill) and parse_honeytrap_logs.py all      *)
(* write to normalized_logs, each with rules of its own;                   *)
(* adapt_trap_env.py reads the newest RecentLimit entries.                 *)
(* A line is what the programs can find in it: addresses in the order and  *)
(* the form they stand in, the number after "port", and the words that     *)
(* decide about tags.  Rewards are counted in halves.                      *)
(***************************************************************************)
EXTENDS Integers, Sequences, FiniteSets

CONSTANTS
  Attackers,     \* addresses from outside
  Ports,         \* port numbers
  PortLimit,     \* 10: more ports than this are a scan
  RecentLimit,   \* 50: entries the learner reads
  LowActivity,   \* 5: fewer entries cost half a point
  Low, High      \* 10 and 20: thresholds of train_sb3.py

(* normalized_logs' five sources.                                          *)
Collections == {"cowrie_logs", "honeypy_logs", "honeytrap_logs",
                "conpot_logs", "nodepot_logs"}

(* The hosts of the system: .135, .138, .136/.137/.139; and the wildcard.  *)
OwnHosts == {"management", "honeytrap", "honeypot"}
LoopIgnores == OwnHosts
BackfillIgnores == {"honeytrap", "honeypot", "local"}
ParserIgnores == {"management", "honeytrap"}

(* An address that is not there is "unknown" to all but the parser of      *)
(* Honeytrap's logs, which writes "" and, for a port, None.                *)
Addresses == Attackers \cup OwnHosts \cup {"local", "unknown", ""}
PortValues == Ports \cup {"unknown", "None"}

(* Of the tags, those that count for the reward, and port_scan.            *)
Tags == {"nmap", "ssh_brute", "login_attempt", "port_scan"}
Words == {"nmap", "ssh_brute", "login_attempt", "heartbeat", "noise"}
Forms == {"connection", "pair", "tuple", "bracket", "prose"}

(* "field" is what honeypots log under ip, src_ip and src_port, "keys"     *)
(* what is logged under source-ip and source-port.                         *)
Found == [ip : Addresses, port : PortValues]
Mention == [form : Forms, ip : Addresses \ {"unknown", ""}, port : Ports]
Line == [mentions : Seq(Mention), portWord : Ports \cup {"unknown"},
         words : SUBSET Words, field : Found, keys : Found]

ASSUME ScoringAssumption ==
  /\ IsFiniteSet(Attackers) /\ IsFiniteSet(Ports)
  /\ "80" \in Ports /\ Ports \cap {"unknown", "None"} = {}
  /\ Attackers \cap (OwnHosts \cup {"local", "unknown", ""}) = {}
  /\ PortLimit \in Nat /\ RecentLimit \in Nat /\ LowActivity \in Nat
  /\ Low \in Nat /\ High \in Nat /\ Low <= High

-----------------------------------------------------------------------------
(* Addresses                                                               *)

Places(line, forms) ==
  {i \in 1..Len(line.mentions) : line.mentions[i].form \in forms}

Firsts(S) == {i \in S : \A j \in S : i <= j}

Foremost(S) == CHOOSE i \in S : \A j \in S : i <= j

Nowhere == [ip |-> "unknown", port |-> "unknown"]

(* extract_ip_port: the first a.b.c.d:n of another host, else the address  *)
(* in brackets, whoever's it is, and the port named in the text.           *)
LoopAddress(line) ==
  LET outside == {i \in Places(line, {"connection", "pair"}) :
                    line.mentions[i].ip \notin LoopIgnores}
      bracket == Places(line, {"bracket"})
  IN IF outside # {}
     THEN [ip |-> line.mentions[Foremost(outside)].ip,
           port |-> line.mentions[Foremost(outside)].port]
     ELSE [ip |-> IF bracket = {} THEN "unknown"
                  ELSE line.mentions[Foremost(bracket)].ip,
           port |-> line.portWord]

(* Where parse_any_ip_port's patterns match, in the order it tries them:   *)
(* both ends of a connection, the first tuple, the first pair (of which    *)
(* HoneyPy's FTP line is one).                                             *)
Attempts(line) ==
  LET ends == Places(line, {"connection"})
  IN <<Firsts(ends), Firsts(ends \ Firsts(ends)),
       Firsts(Places(line, {"tuple"})),
       Firsts(Places(line, {"connection", "pair"}))>>

(* parse_any_ip_port: the first match that is none of the ignored hosts,   *)
(* else the first address of the text, with the port named in it.          *)
ParsedAddress(line) ==
  LET outside == {n \in 1..4 : \E i \in Attempts(line)[n] :
                    line.mentions[i].ip \notin BackfillIgnores}
      hit == line.mentions[Foremost(Attempts(line)[Foremost(outside)])]
  IN IF outside # {} THEN [ip |-> hit.ip, port |-> hit.port]
     ELSE IF line.mentions # << >> /\ line.mentions[1].ip \notin BackfillIgnores
     THEN [ip |-> line.mentions[1].ip, port |-> line.portWord]
     ELSE Nowhere

(* normalize_nodepot, normalize_honeypy, normalize_honeytrap,              *)
(* normalize_conpot and the rest: which address the back-fill believes.    *)
BackfillAddress(collection, line) ==
  CASE collection = "nodepot_logs" ->
         [ip |-> IF line.field.ip # "unknown" THEN line.field.ip
                 ELSE ParsedAddress(line).ip, port |-> "80"]
    [] collection \in {"honeypy_logs", "honeytrap_logs"} ->
         IF line.field.ip \in BackfillIgnores \cup {"unknown"}
         THEN ParsedAddress(line) ELSE line.field
    [] collection = "conpot_logs" ->
         IF "noise" \in line.words THEN Nowhere ELSE ParsedAddress(line)
    [] OTHER -> ParsedAddress(line)

-----------------------------------------------------------------------------
(* Tags                                                                    *)

(* The ports seen with an address in a memory of <<address, port>>.        *)
PortsWith(memory, ip) == {m[2] : m \in {n \in memory : n[1] = ip}}

(* ip_to_ports[ip].add(port), for an address and a port that were found.   *)
Remembered(memory, found) ==
  IF found.ip # "unknown" /\ found.port \in Ports
  THEN memory \cup {<<found.ip, found.port>>} ELSE memory

(* generate_tags and tag_rules, as far as the learner reads them.          *)
TagsOf(line, ip, memory) ==
  (line.words \cap Tags)
  \cup (IF ip # "unknown" /\ Cardinality(PortsWith(memory, ip)) > PortLimit
        THEN {"port_scan"} ELSE {})

-----------------------------------------------------------------------------
(* The learner: over the set S of the entries of log that it has read      *)

(* find().sort("timestamp", -1).limit(50): entries of one time in any      *)
(* order.                                                                  *)
Recents(log) ==
  {S \in SUBSET (1..Len(log)) :
     /\ Cardinality(S) = IF Len(log) < RecentLimit THEN Len(log) ELSE RecentLimit
     /\ \A i \in S, j \in (1..Len(log)) \ S : log[i].timestamp >= log[j].timestamp}

Tagged(log, S, tags) == {i \in S : log[i].tags \cap tags # {}}

Known(log, S) == {i \in S : log[i].ip # "unknown"}
KnownAddresses(log, S) == {log[i].ip : i \in Known(log, S)}

(* Mutant: every entry of an address that came back counts, not the        *)
(* address.                                                                *)
RepeatedEntries(log, S) ==
  {i \in Known(log, S) :
     \E j \in Known(log, S) : i # j /\ log[i].ip = log[j].ip}

Repeated(log, S) ==
  {a \in KnownAddresses(log, S) :
     \E i, j \in Known(log, S) : i # j /\ log[i].ip = a /\ log[j].ip = a}

Bonus(log, S) ==
  Tagged(log, Known(log, S), {"nmap", "ssh_brute", "login_attempt"})

NonNegative(n) == IF n > 0 THEN n ELSE 0

(* _calculate_reward, in halves.                                           *)
Reward(log, S) ==
  NonNegative(4 * Cardinality(KnownAddresses(log, S))
              + Cardinality({log[i].port : i \in Known(log, S)} \ {"unknown"})
              + 2 * Cardinality(Bonus(log, S))
              - 2 * Cardinality(Repeated(log, S))
              - IF Cardinality(S) < LowActivity THEN 1 ELSE 0)

(* Mutant: the lower threshold is asked first.                             *)
DecisionLowFirst(total) ==
  IF total > 2 * Low THEN <<1, 0, 1, 0>>
  ELSE IF total > 2 * High THEN <<1, 1, 1, 1>> ELSE <<0, 0, 0, 0>>

(* train_sb3.py, after training: what the last episode's reward decides.   *)
DecisionFor(total) ==
  IF total > 2 * High THEN <<1, 1, 1, 1>>
  ELSE IF total > 2 * Low THEN <<1, 0, 1, 0>> ELSE <<0, 0, 0, 0>>
=============================================================================
