---------------------------- MODULE MCControlLoop ----------------------------
(* Instances of ControlLoop for TLC: parts of the agent's plugin list.     *)
EXTENDS ControlLoop

Http == <<"http">>
RawTriggers == {"conpot", "echo"}
NoManual == {}
=============================================================================
