---------------------------- MODULE MCRunSignals ----------------------------
(* A run on either kind of thread, steered and stopped while it executes.    *)
EXTENDS RunSignals

AllFaults == {"crash", "stall", "ack", "death", "refuse", "denied",
              "blocked"}
BothThreads == {"plain", "subagent"}
=============================================================================
