----------------------------- MODULE MCLearning -----------------------------
(* An instance of Learning for TLC: one attacker, what each program makes  *)
(* of his lines, and a test log.                                           *)
EXTENDS Learning, TLC

Absent == [ip |-> "unknown", port |-> "unknown"]
NoKeys == [ip |-> "", port |-> "None"]

Said(mentions, words) ==
  [mentions |-> mentions, portWord |-> "unknown", words |-> words,
   field |-> Absent, keys |-> NoKeys]

At(form, ip, port) == [form |-> form, ip |-> ip, port |-> port]

MCSources == <<"cowrie_logs", "honeytrap_logs">>

MCLinesOf ==
  [c \in Collections |->
     CASE c = "cowrie_logs" ->
            {Said(<<At("connection", "attacker", "80"),
                    At("connection", "honeypot", "2222")>>, {})}
       [] c = "honeytrap_logs" ->
            {[Said(<<At("prose", "attacker", "80")>>, {"nmap"})
                EXCEPT !.keys = [ip |-> "attacker", port |-> "2222"],
                       !.field = [ip |-> "attacker", port |-> "80"]]}
       [] OTHER -> {}]

MCTestLogs == {[ip |-> "attacker", port |-> "2222", tags |-> {"nmap"}]}
=============================================================================
