----------------------------- MODULE Elevation -----------------------------
(***************************************************************************)
(* elevation.go, and userToken of session_windows.go: which token a payload *)
(* is launched with.  A user is described by the token Windows hands out at *)
(* sign-in: its elevation type, and whether it carries administrator rights *)
(***************************************************************************)
EXTENDS Integers

elevationDefault == 1
elevationFull == 2
elevationLimited == 3

Token == [kind : elevationDefault..elevationLimited, isElevated : BOOLEAN]

\* Mutant: a token of the default type is taken for an administrator's.
ChooseGuessing(kind, tokenIsElevated) ==
    IF kind = elevationLimited THEN "withLinked" ELSE "withToken"

chooseElevation(kind, tokenIsElevated) ==
    CASE kind = elevationFull -> "withToken"
      [] kind = elevationLimited -> "withLinked"
      [] OTHER -> IF tokenIsElevated THEN "withToken" ELSE "impossible"

\* Mutant: DisableAutoElevate is not looked at.
AutoElevateAlways(err, alreadyElevated, disabled) ==
    err = "elevationRequired" /\ ~alreadyElevated

shouldAutoElevate(err, alreadyElevated, disabled) ==
    /\ ~alreadyElevated
    /\ ~disabled
    /\ err = "elevationRequired"

\* An elevated launch of this token has something to launch with.
HasElevated(tok) == chooseElevation(tok.kind, tok.isElevated) # "impossible"

\* Administrator rights of the token a launch ends up with: the linked half of
\* a split token has them.
LaunchesAsAdmin(tok, elevated) ==
    IF elevated /\ chooseElevation(tok.kind, tok.isElevated) = "withLinked"
    THEN TRUE ELSE tok.isElevated
=============================================================================
