------------------------------ MODULE MCAgent ------------------------------
(* Values for the constants of Agent. *)
EXTENDS Agent, TLC

CONSTANTS console, standard, filtered

MCTokenOf == standard :> [kind |-> 1, isElevated |-> FALSE]
          @@ filtered :> [kind |-> 3, isElevated |-> FALSE]

Base == [Bin |-> TRUE, UpdateURL |-> TRUE, LaunchElevated |-> FALSE,
         DisableAutoElevate |-> FALSE, windows |-> TRUE, LocalSystem |-> TRUE,
         MinBackoff |-> 60, MaxBackoff |-> 60]

MCConfigs == {Base, [Base EXCEPT !.UpdateURL = FALSE, !.windows = FALSE], [Base EXCEPT !.Bin = FALSE]}
=============================================================================
