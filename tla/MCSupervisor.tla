---------------------------- MODULE MCSupervisor ----------------------------
(* Values for the constants of Supervisor. *)
EXTENDS Supervisor, TLC

CONSTANTS console, remote, standard, filtered, builtin

\* A standard user, an administrator under UAC, and an administrator whose
\* only token is the full one.
MCTokenOf == standard :> [kind |-> elevationDefault, isElevated |-> FALSE]
          @@ filtered :> [kind |-> elevationLimited, isElevated |-> FALSE]
          @@ builtin :> [kind |-> elevationDefault, isElevated |-> TRUE]

Base == [Bin |-> TRUE, UpdateURL |-> TRUE, LaunchElevated |-> FALSE,
         DisableAutoElevate |-> FALSE, windows |-> TRUE, LocalSystem |-> TRUE,
         MinBackoff |-> 0, MaxBackoff |-> 0]

\* The defaults; elevated, with bounds the wrong way round; no updates and no
\* elevation, with a back-off whose double is no duration; another platform;
\* no payload name; an account that may not ask for users' tokens.
MCConfigs ==
    {Base,
     [Base EXCEPT !.LaunchElevated = TRUE, !.MinBackoff = 5, !.MaxBackoff = 3],
     [Base EXCEPT !.UpdateURL = FALSE, !.DisableAutoElevate = TRUE,
                  !.MinBackoff = 40, !.MaxBackoff = 63],
     [Base EXCEPT !.windows = FALSE],
     [Base EXCEPT !.Bin = FALSE],
     [Base EXCEPT !.LocalSystem = FALSE]}
=============================================================================
