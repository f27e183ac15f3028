------------------------------- MODULE LabRun -------------------------------
(***************************************************************************)
(* One run of a lab runner: its program from RunnerPrograms, executed with *)
(* Python's exception semantics, on a temporary export of the pinned       *)
(* source, while somebody may edit the shared repository.  Every call that *)
(* starts processes may fail, time out or be interrupted; which of those   *)
(* endings may leave processes behind is the contract MayLeave, which      *)
(* Supervise is checked to keep.                                           *)
(***************************************************************************)
EXTENDS RunnerStyles, RunnerPrograms, Naturals, FiniteSets

CONSTANT MaxFaults       \* failures, time-outs and interrupts in one run

ASSUME FaultsAssumption == MaxFaults \in Nat

VARIABLES
    lab, staticOnly,  \* the runner and its mode
    at,           \* the index of the next instruction
    exc,          \* the exception on its way out
    noted,        \* failures a cleanup has noted and not yet raised
    raised,       \* an exception was ever raised or noted
    tree,         \* the export: applied patches, build products, test-xv6.out
    applied,      \* the runner's own record of what it applied
    temp,         \* the temporary directory exists
    facts,        \* what the completed steps established
    report,       \* the facts the written report states ({}: none written)
    left,         \* a process started by the run goes on running
    repo, before, \* versions of the shared repository's aspects
    faults,       \* how many faults the run has met so far
    patchFault    \* one of them was an interrupt or hit git apply

runVars == <<lab, staticOnly, at, exc, noted, raised, tree, applied, temp, facts,
             report, left, repo, before, faults, patchFault>>

FullRun ==
    [add |-> AddMain(FALSE), boot |-> BootMain(FALSE),
     roundtrip |-> RoundtripMain(FALSE), comm |-> CommMain(FALSE),
     lifecycle |-> LifecycleMain(FALSE), sched |-> SchedMain(FALSE),
     vm |-> VmMain(FALSE), fs |-> FsMain(FALSE),
     device |-> DeviceMain(FALSE), persist |-> PersistMain(FALSE),
     recovery |-> RecoveryMain(FALSE), cow |-> CowMain(FALSE)]
StaticRun ==
    [add |-> AddMain(TRUE), boot |-> BootMain(TRUE),
     roundtrip |-> RoundtripMain(TRUE), comm |-> CommMain(TRUE),
     lifecycle |-> LifecycleMain(TRUE), sched |-> SchedMain(TRUE),
     vm |-> VmMain(TRUE), fs |-> FsMain(TRUE), device |-> DeviceMain(TRUE),
     persist |-> PersistMain(TRUE), recovery |-> RecoveryMain(TRUE),
     cow |-> CowMain(TRUE)]
Program(l, s) == IF s THEN StaticRun[l] ELSE FullRun[l]

FullReport ==
    [add |-> AddReport(FALSE), boot |-> BootReport(FALSE),
     roundtrip |-> RoundtripReport(FALSE), comm |-> CommReport(FALSE),
     lifecycle |-> LifecycleReport(FALSE), sched |-> SchedReport(FALSE),
     vm |-> VmReport(FALSE), fs |-> FsReport(FALSE),
     device |-> DeviceReport(FALSE), persist |-> PersistReport(FALSE),
     recovery |-> RecoveryReport(FALSE), cow |-> CowReport(FALSE)]
StaticReport ==
    [add |-> AddReport(TRUE), boot |-> BootReport(TRUE),
     roundtrip |-> RoundtripReport(TRUE), comm |-> CommReport(TRUE),
     lifecycle |-> LifecycleReport(TRUE), sched |-> SchedReport(TRUE),
     vm |-> VmReport(TRUE), fs |-> FsReport(TRUE),
     device |-> DeviceReport(TRUE), persist |-> PersistReport(TRUE),
     recovery |-> RecoveryReport(TRUE), cow |-> CowReport(TRUE)]
States(l, s) == IF s THEN StaticReport[l] ELSE FullReport[l]

Shared ==
    [add |-> AddShared, boot |-> BootShared, roundtrip |-> RoundtripShared,
     comm |-> CommShared, lifecycle |-> LifecycleShared,
     sched |-> SchedShared, vm |-> VmShared, fs |-> FsShared,
     device |-> DeviceShared, persist |-> PersistShared,
     recovery |-> PersistShared, cow |-> CowShared]

Runners == DOMAIN Shared

(* Where an exception raised at i lands: the finally of the innermost open  *)
(* try, or the exit of the temporary directory's with statement.            *)
Opens(p, i, j)  == Cardinality({k \in i..j : p[k].op \in {"try", "open"}})
Closes(p, i, j) == Cardinality({k \in i..j : p[k].op \in {"finally", "close"}})
Landing(p, i) ==
    LET here == {j \in (i + 1)..Len(p) :
                   /\ p[j].op \in {"finally", "close"}
                   /\ Opens(p, i + 1, j) = Closes(p, i + 1, j - 1)}
    IN  IF here = {} THEN Len(p) + 1 ELSE CHOOSE j \in here : \A k \in here : j <= k

(* Bugs to detect: an exception that ends the run where it is raised, and  *)
(* one that removes the temporary directory and skips every finally.       *)
HandlerExit == Len(Program(lab, staticOnly)) + 1
HandlerBare ==
    LET p    == Program(lab, staticOnly)
        here == {j \in (at + 1)..Len(p) : p[j].op = "close"}
    IN  IF here = {} THEN Len(p) + 1 ELSE CHOOSE j \in here : \A k \in here : j <= k

(* Where an exception raised by the instruction at hand lands. *)
Handler == Landing(Program(lab, staticOnly), at)

Instr    == Program(lab, staticOnly)[at]
Running  == at \in DOMAIN Program(lab, staticOnly)
Ended    == ~Running
Passed   == Ended /\ exc = "none"
Pristine == [patches |-> {}, built |-> FALSE, stray |-> FALSE]

RunInit ==
    /\ lab \in Runners /\ staticOnly \in BOOLEAN
    /\ at = 1 /\ exc = "none" /\ noted = FALSE /\ raised = FALSE
    /\ tree = Pristine /\ applied = {} /\ temp = FALSE
    /\ facts = {} /\ report = {} /\ left = FALSE
    /\ repo = [a \in Aspects |-> 0] /\ before = repo
    /\ faults = 0 /\ patchFault = FALSE

Keep == UNCHANGED <<lab, staticOnly, repo>>

(* A bug to detect: an exception that is caught and forgotten. *)
RaiseAtSwallowed(e) == raised' = TRUE /\ at' = at + 1 /\ UNCHANGED <<exc, noted>>

(* An exception leaves instruction at.  A soft instruction notes an error  *)
(* and goes on; nothing notes an interrupt.                                *)
RaiseAt(e) ==
    /\ raised' = TRUE
    /\ IF Instr.soft /\ e = "error"
       THEN noted' = TRUE /\ at' = at + 1 /\ UNCHANGED exc
       ELSE exc' = e /\ at' = Handler /\ UNCHANGED noted

----------------------------------------------------------------------------
(* The effect of an instruction that succeeds. *)
Effect(i) ==
    CASE i.op = "export"  -> Pristine
      [] i.op = "apply"   -> [tree EXCEPT !.patches = @ \cup i.set]
      [] i.op = "reverse" -> [tree EXCEPT !.patches = @ \ i.set]
      [] i.op \in {"build", "session", "driver"} -> [tree EXCEPT !.built = TRUE]
      [] i.op = "clean"   -> [tree EXCEPT !.built = FALSE]
      [] i.op = "unlink"  -> [tree EXCEPT !.stray = FALSE]
      [] OTHER            -> tree

(* The requirement it makes: git apply's context, the comparison with the  *)
(* snapshot or with the repository's first state, a guest with the patches *)
(* whose behaviour the transcript must show.                               *)
Requires(i) ==
    CASE i.op = "apply"    -> i.set \cap tree.patches = {}
      [] i.op = "reverse"  -> i.set \subseteq tree.patches
      [] i.op = "restored" -> tree = Pristine
      [] i.op = "after"    -> \A a \in Shared[lab] : repo[a] = before[a]
      [] i.op \in {"session", "driver"} -> tree.patches = i.set
      [] OTHER             -> TRUE

Marks == {"try", "finally", "end", "close"}
Skips(i) == ~(i.given \subseteq applied)

RunStep ==
    /\ Running
    /\ Instr.op \notin Marks
    /\ IF Skips(Instr)
       THEN /\ at' = at + 1
            /\ UNCHANGED <<exc, noted, raised, tree, applied, temp, facts,
                           report, before>>
       ELSE IF ~Requires(Instr)
       THEN /\ RaiseAt("error")
            /\ UNCHANGED <<tree, applied, temp, facts, report, before>>
       ELSE /\ at' = at + 1
            /\ tree' = Effect(Instr)
            /\ applied' = CASE Instr.op = "export" -> {}
                            [] Instr.op = "apply"  -> applied \cup Instr.set
                            [] OTHER               -> applied
            /\ temp' = (temp \/ Instr.op = "open")
            /\ facts' = facts \cup ({Instr.fact} \ {""})
            /\ report' = IF Instr.op = "report" THEN States(lab, staticOnly) ELSE report
            /\ before' = IF Instr.op = "before" THEN repo ELSE before
            /\ UNCHANGED <<exc, noted, raised>>
    /\ UNCHANGED <<left, faults, patchFault>> /\ Keep

(* A bug to detect: what a cleanup noted is dropped. *)
CarriedBare(i) == exc

(* The exception that leaves a marker. *)
Carried(i) == IF i.op = "end" /\ noted THEN "error" ELSE exc

(* The markers of blocks.  A cleanup that noted failures raises them at its *)
(* end; an exception that was on its way goes on.                           *)
RunMark ==
    /\ Running
    /\ Instr.op \in Marks
    /\ temp' = (temp /\ Instr.op # "close")
    /\ LET e == Carried(Instr)
       IN  /\ exc' = e
           /\ noted' = (noted /\ Instr.op # "end")
           /\ at' = IF e # "none" /\ Instr.op \in {"end", "close"}
                    THEN Handler ELSE at + 1
    /\ UNCHANGED <<raised, tree, applied, facts, report, left, before,
                   faults, patchFault>>
    /\ Keep

(* A call fails or is interrupted.  It may have done its work or not; a     *)
(* driver may leave its transcript file in the tree.                        *)
Kind(i) == IF i.op \in {"session", "driver"} THEN i.op ELSE "cmd"

RunFault(e) ==
    /\ Running
    /\ Instr.op \notin Marks \cup {"open", "unlink"}
    /\ ~Skips(Instr)
    /\ faults < MaxFaults
    /\ faults' = faults + 1
    /\ patchFault' = (patchFault \/ e = "interrupt" \/ Instr.op \in {"apply", "reverse"})
    /\ RaiseAt(e)
    /\ \E done \in {tree, Effect(Instr)}, out \in BOOLEAN :
         /\ out => Instr.op = "driver"
         /\ tree' = [done EXCEPT !.stray = @ \/ out]
    /\ left' \in {left} \cup (IF MayLeave(lab, Kind(Instr), e) THEN {TRUE} ELSE {})
    /\ UNCHANGED <<applied, temp, facts, report, before>> /\ Keep

(* Somebody edits the shared repository while the lab runs, before the run *)
(* compares it.                                                            *)
Edit(a) ==
    /\ Running
    /\ \A b \in Aspects : repo[b] = 0
    /\ "repo" \notin facts
    /\ repo' = [repo EXCEPT ![a] = 1]
    /\ UNCHANGED <<lab, staticOnly, at, exc, noted, raised, tree, applied, temp,
                   facts, report, left, before, faults, patchFault>>

RunNext == RunStep \/ RunMark \/ (\E e \in {"error", "interrupt"} : RunFault(e))
             \/ (\E a \in Aspects : Edit(a))

RunSpec == RunInit /\ [][RunNext]_runVars
RunFairness == WF_runVars(RunStep \/ RunMark)

----------------------------------------------------------------------------
Touched(aspects) == \E a \in aspects : repo[a] # before[a]
Established == {Program(lab, staticOnly)[i].fact : i \in DOMAIN Program(lab, staticOnly)}
                 \ {""}

RunTypeOK ==
    /\ lab \in Runners /\ staticOnly \in BOOLEAN
    /\ at \in 1..(Len(Program(lab, staticOnly)) + 1)
    /\ exc \in {"none", "error", "interrupt"}
    /\ {noted, raised, temp, left, patchFault} \subseteq BOOLEAN
    /\ DOMAIN tree = {"patches", "built", "stray"}
    /\ applied \subseteq (D \cup F \cup A \cup C \cup Audit)
    /\ facts \subseteq Established
    /\ {repo, before} \subseteq [Aspects -> {0, 1}]
    /\ faults \in 0..MaxFaults

(* A written report states only what a completed step established, and no  *)
(* process of the run was still running when it was written.  A run that   *)
(* fails leaves no report that could be taken for a verdict: the report is *)
(* the last step, except in persistence, where it precedes the comparison  *)
(* of the shared repository.                                               *)
ReportTruthful ==
    /\ report # {} => report \subseteq facts /\ (exc = "none" => ~left)
    /\ Ended /\ exc # "none" /\ lab # "persist" => report = {}

(* A run that exits with success did every step of its program, raised     *)
(* nothing on the way (no finally clause or cleanup swallowed a failure),  *)
(* left no process and no temporary directory behind, and did not overlook *)
(* an edit of what its comparison is for.  Every runner compares status    *)
(* and disk image, seven also the contents of the listed files;            *)
(* syscall-roundtrip compares nothing in its static mode.  (copy-on-write: *)
(* see DigestCoversFiles.)                                                 *)
HashesContents == {"comm", "sched", "vm", "fs", "device", "persist", "recovery"}
PassIsEarned ==
    /\ RunTypeOK
    /\ Passed =>
         /\ facts = Established
         /\ ~raised /\ ~noted
         /\ ~temp /\ ~left
         /\ ~(lab = "roundtrip" /\ staticOnly) => ~Touched({"status", "image"})
         /\ lab \in HashesContents => ~Touched({"index", "tracked", "untracked"})

(* What the docstring of copy-on-write's repo_state_digest promises: "Hash *)
(* index, status, and every tracked/untracked/ignored shared file".        *)
DigestCoversFiles ==
    Passed /\ lab = "cow" =>
      ~Touched({"index", "status", "tracked", "untracked", "ignored"})

(* The three runners whose cleanup is written to go on after a failure     *)
(* reverse every patch although builds, sessions, drivers and make clean   *)
(* itself failed on the way; only an interrupt, or a failure of git apply, *)
(* leaves one in the export.                                               *)
FailuresStillReverse ==
    Ended /\ lab \in {"persist", "recovery", "cow"} /\ ~patchFault
      => tree.patches = {}

(* Every run ends, and then its temporary directory is gone for good.      *)
RunEnds == <>[](Ended /\ ~temp)
=============================================================================
