------------------------------ MODULE QubeRuns ------------------------------
(***************************************************************************)
(* What qubesd promises about the runs of one qube, without saying how:    *)
(* a listed qube is booted only when its previous run is over AND dealt    *)
(* with, a run that is over is dealt with before anything else happens to  *)
(* it, and a qube that is not listed is never booted, except by a boot     *)
(* that was under way when a removal that asks no one unlisted the qube.   *)
(***************************************************************************)
EXTENDS Naturals

CONSTANT MaxRuns

VARIABLES
    phase,    \* "off", "up", or "ended": over, its handlers not finished
    count,    \* runs so far
    listed,   \* the qube exists for the users of qubesd
    torn      \* it was unlisted in the middle of a boot

absVars == <<phase, count, listed, torn>>

AbsInit == phase = "off" /\ count = 0 /\ listed = TRUE /\ torn = FALSE

Boot == /\ phase = "off" /\ listed /\ count < MaxRuns
        /\ phase' = "up" /\ count' = count + 1 /\ UNCHANGED <<listed, torn>>

(* A start that fails when its domain exists already, or that goes on for  *)
(* a qube torn away from it: nobody expects the end of that run.           *)
Misfire ==
    /\ phase = "off" /\ (listed \/ torn) /\ count < MaxRuns
    /\ phase' = "ended" /\ count' = count + 1 /\ UNCHANGED <<listed, torn>>

End == phase = "up" /\ phase' = "ended" /\ UNCHANGED <<count, listed, torn>>

(* The domain-stopped and domain-shutdown handlers of the run are through. *)
Handle == phase = "ended" /\ phase' = "off" /\ UNCHANGED <<count, listed, torn>>

Remove == /\ phase # "up"
          /\ listed' = FALSE /\ torn' \in {torn, TRUE}
          /\ UNCHANGED <<phase, count>>

(* qubesd restarts: a run that is over is no longer dealt with, unless the *)
(* domain still lingers; a removal that was not saved is undone, and a     *)
(* dying domain that was not fully gone is taken up again.                 *)
Restart == /\ phase' \in IF phase = "ended" THEN {"ended", "off"} ELSE {phase}
           /\ listed' \in {listed, TRUE}
           /\ torn' = (torn /\ ~listed')
           /\ UNCHANGED count

AbsNext == Boot \/ Misfire \/ End \/ Handle \/ Remove \/ Restart

AbsSpec == AbsInit /\ [][AbsNext]_absVars
=============================================================================
