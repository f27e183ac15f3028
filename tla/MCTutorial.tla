----------------------------- MODULE MCTutorial -----------------------------
(***************************************************************************)
(* The host side of the tutorial, for TLC: one supervised call of any      *)
(* runner, one whole run of any runner, the file system whose images       *)
(* fsck.py judges, or the lost-wakeup experiment.  The components that a   *)
(* behaviour is not about rest in a finished state, so the state spaces    *)
(* add up and do not multiply.                                             *)
(***************************************************************************)
EXTENDS Supervise, LabShapes, FsTree, SyncLab

SupIdle ==
    /\ sLab = "comm" /\ sKind = "cmd" /\ st = [m \in Members |-> "gone"]
    /\ sig = [m \in Members |-> "none"] /\ deaf = {} /\ code = "ok"
    /\ sPc = "done" /\ ret = "done" /\ why = "none" /\ intr = "none"
RunIdle ==
    /\ lab = "roundtrip" /\ staticOnly = TRUE
    /\ at = Len(RoundtripMain(TRUE)) + 1 /\ exc = "none" /\ noted = FALSE
    /\ raised = FALSE /\ tree = [Pristine EXCEPT !.built = TRUE] /\ applied = {}
    /\ temp = FALSE /\ facts = {"static"} /\ report = {} /\ left = FALSE
    /\ repo = [a \in Aspects |-> 0] /\ before = repo
    /\ faults = 0 /\ patchFault = FALSE

FsIdle == FsStart(<<>>, "off")
SyIdle == syMode = "fixed" /\ SyStart(<<>>, "off")

Init ==
    \/ SupInit /\ RunIdle /\ FsIdle /\ SyIdle
    \/ SupIdle /\ RunInit /\ FsIdle /\ SyIdle
    \/ SupIdle /\ RunIdle /\ FsInit /\ SyIdle
    \/ SupIdle /\ RunIdle /\ FsIdle /\ SyInit
Next ==
    \/ SupNext /\ UNCHANGED <<runVars, fsvars, syVars>>
    \/ RunNext /\ UNCHANGED <<supVars, fsvars, syVars>>
    \/ FsNext /\ UNCHANGED <<supVars, runVars, syVars>>
    \/ SyNext /\ UNCHANGED <<supVars, runVars, fsvars>>
Spec ==
    /\ Init /\ [][Next]_<<supVars, runVars, fsvars, syVars>>
    /\ SupFairness /\ RunFairness /\ SyFairness
=============================================================================
