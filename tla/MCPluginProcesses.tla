------------------------- MODULE MCPluginProcesses -------------------------
(* Values for the constants: a budget of each kind; one payload that fits. *)
EXTENDS PluginProcesses

MCBudgets == {[fuel |-> 0, timeout |-> 1], [fuel |-> 1, timeout |-> 2],
              [fuel |-> 2, timeout |-> 1]}
MCPayloads == {"short", "long"}
=============================================================================
