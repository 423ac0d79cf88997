----------------------------- MODULE MCTelemetry -----------------------------
(* An instance of Telemetry for TLC: lines with and without an address, and *)
(* lines that set each of the fields the programs downstream read.          *)
EXTENDS Telemetry, TLC

Ordinary == [addressed |-> TRUE, setsLog |-> FALSE, setsTime |-> FALSE,
             id |-> None]

MCLines == {Ordinary, [Ordinary EXCEPT !.setsLog = TRUE],
            [Ordinary EXCEPT !.setsTime = TRUE, !.id = 1]}
=============================================================================
