----------------------------- MODULE HandlerMap -----------------------------
(***************************************************************************)
(* The actuator's static tables: which honeypot a plugin of an action      *)
(* document is routed to (PLUGIN_HANDLER_MAP of main_actuator.py) and      *)
(* which plugins and actions that honeypot's handler accepts.              *)
(***************************************************************************)

Honeypots == {"cowrie", "honeypy", "honeytrap", "conpot", "nodepot-lite"}

(* PLUGIN_HANDLER_MAP read from the honeypot's side.  The dict literal has *)
(* two "http" keys; Python keeps the later one, so http is Conpot's.       *)
RoutedPlugins(h) ==
  CASE h = "cowrie"       -> {"telnet", "ssh"}
    [] h = "honeypy"      -> {"ftp"}
    [] h = "honeytrap"    -> {"tcp", "udp", "mysql", "honeytrap"}
    [] h = "conpot"       -> {"modbus", "enip", "s7comm", "ipmi", "snmp",
                              "bacnet", "http", "conpot"}
    [] h = "nodepot-lite" -> {"node-web"}

SupportedPlugins == UNION {RoutedPlugins(h) : h \in Honeypots}

HoneypotOf(p) == CHOOSE h \in Honeypots : p \in RoutedPlugins(h)

(* What each handler accepts: allowed_plugins, or HoneyPy's section table. *)
CowriePlugins == {"telnet", "ssh"}
HoneypyPlugins == {"ftp", "http", "echo", "motd"}
HoneytrapPlugins == {"tcp", "udp", "http", "mysql"}
ConpotPlugins == {"modbus", "enip", "s7comm", "ipmi", "snmp", "bacnet", "http"}
NodepotPlugins == {"node-web"}

AcceptedPlugins(h) ==
  CASE h = "cowrie"       -> CowriePlugins
    [] h = "honeypy"      -> HoneypyPlugins
    [] h = "honeytrap"    -> HoneytrapPlugins
    [] h = "conpot"       -> ConpotPlugins
    [] h = "nodepot-lite" -> NodepotPlugins

(* Which handlers know "restart_plugin" besides enable and disable.        *)
AcceptedActions(h) ==
  {"enable_plugin", "disable_plugin"} \cup
  (IF h \in {"honeytrap", "nodepot-lite"} THEN {"restart_plugin"} ELSE {})

(* The handler sends a command over ssh; otherwise it returns False with   *)
(* the command "N/A" and nothing reaches the honeypot.                     *)
HandlerSends(p, act) ==
  /\ p \in AcceptedPlugins(HoneypotOf(p))
  /\ act \in AcceptedActions(HoneypotOf(p))

(* StatusOf is the value update_plugin_state stores for an action.         *)
StatusOf(act) == IF act = "enable_plugin" THEN "enabled" ELSE "disabled"
=============================================================================
