--------------------------- MODULE RunnerPrograms ---------------------------
(***************************************************************************)
(* What each lab runner does, as a straight-line program with try/finally  *)
(* blocks, for a full run and for --static-only; what its report states;   *)
(* and which aspects of the shared repository its before/after comparison  *)
(* looks at.  LabRun executes the programs.                                *)
(*                                                                         *)
(* op      what the instruction does (see LabRun)                          *)
(* set     the patches it applies, reverses or expects in the tree         *)
(* given   it is skipped unless these patches have been recorded applied   *)
(* fact    what its success establishes                                    *)
(* soft    its failure is noted and raised only when the cleanup is over   *)
(***************************************************************************)
EXTENDS Sequences

Op(o)         == [op |-> o, set |-> {}, given |-> {}, fact |-> "", soft |-> FALSE]
Cmd           == Op("cmd")           \* a command with no lasting effect
Before        == Op("before")        \* record the state of the repository
After         == [Op("after") EXCEPT !.fact = "repo"]
Open          == Op("open")          \* with TemporaryDirectory
Close         == Op("close")
Export        == Op("export")        \* git archive into it, and snapshot
Try           == Op("try")
Finally       == Op("finally")
End           == Op("end")
Build         == Op("build")
Clean         == Op("clean")
Unlink        == [Op("unlink") EXCEPT !.soft = TRUE]    \* test-xv6.out
Report        == Op("report")
Check(f)      == [Op("check") EXCEPT !.fact = f]
Restored(f)   == [Op("restored") EXCEPT !.fact = f]
Apply(S)      == [Op("apply") EXCEPT !.set = S]
Reverse(S)    == [Op("reverse") EXCEPT !.set = S]
Undo(S)       == [Op("reverse") EXCEPT !.set = S, !.given = S]
Talk(S, f)    == [Op("session") EXCEPT !.set = S, !.fact = f]
Drive(S, f)   == [Op("driver") EXCEPT !.set = S, !.fact = f]
Soft(i)       == [i EXCEPT !.soft = TRUE]
Given(S, i)   == [i EXCEPT !.given = S]
When(c, prog) == IF c THEN prog ELSE <<>>

F == {"fixture"}

----------------------------------------------------------------------------
(* add-system-call: the dispatch entry is reversed for the boundary run. *)
D == {"dispatch", "handler"}
AddMain(static) ==
    <<Cmd, Before, Open, Export, Cmd, Apply(D), Check("static"), Build>>
    \o When(~static,
         <<Reverse({"dispatch"}), Check("undispatched"), Clean, Build,
           Talk({"handler"}, "boundary"),
           Apply({"dispatch"}), Clean, Build, Talk(D, "final"),
           Drive(D, "sysprobe"), Drive(D, "quick"), Drive(D, "full")>>)
    \o <<Clean, Reverse(D), Restored("restored"), Close, After>>
    \o When(~static, <<Report>>)
AddReport(static) == {"boundary", "final", "sysprobe", "quick", "full",
                      "restored", "repo"}

(* boot-traps-and-interrupts *)
BootMain(static) ==
    <<Cmd, Before, Open, Export, Check("baseline"), Build, Cmd, Apply(F),
      Check("static"), Build>>
    \o When(~static, <<Talk(F, "focused"), Drive(F, "quick"), Drive(F, "full")>>)
    \o <<Clean, Reverse(F), Restored("restored"), Close, After>>
    \o When(~static, <<Report>>)
BootReport(static) == {"static", "focused", "quick", "full", "restored", "repo"}

(* syscall-roundtrip: three exports, no patch. *)
RoundtripMain(static) ==
    <<Cmd, Before, Open, Export, Build, Check("static"), Close>>
    \o When(~static,
         <<Open, Export, Build, Check("static"), Talk({}, "normal"), Close,
           Open, Export, Build, Check("static"), Talk({}, "unknown"), Close,
           After, Report>>)
RoundtripReport(static) == {"static", "normal", "unknown", "repo"}

(* communication-and-io *)
CommMain(static) ==
    <<Cmd, Before, Open, Export, Cmd, Apply(F), Check("static"), Build>>
    \o IF static
       THEN <<Clean, Reverse(F), Restored("restored"), After, Close>>
       ELSE <<Build, Talk(F, "ioflow"), Drive(F, "quick"), Drive(F, "full"),
              Clean, Reverse(F), Restored("restored"), Close, After, Report>>
CommReport(static) == {"static", "ioflow", "quick", "full", "restored"}

(* process-lifecycle *)
LifecycleDynamic ==
    <<Talk(F, "lifecycle"), Drive(F, "quick"), Drive(F, "full")>>
LifecycleMain(static) ==
    <<Cmd, Before, Open, Export, Try, Cmd, Apply(F), Check("static"), Build>>
    \o When(~static, LifecycleDynamic)
    \o <<Finally, Clean, Undo(F), Clean, Restored("restored"), End, Close,
         After, Report>>
LifecycleReport(static) ==
    {"static", "restored"}
      \cup IF static THEN {} ELSE {"lifecycle", "quick", "full", "repo"}

(* scheduling-and-synchronization *)
SchedDynamic == <<Talk(F, "cases"), Drive(F, "quick"), Drive(F, "full")>>
SchedMain(static) ==
    <<Cmd, Before, Open, Export, Try, Cmd, Apply(F), Check("static"), Build>>
    \o When(~static, SchedDynamic)
    \o <<Finally, Clean, Undo(F), Clean, Restored("restored"), End, Close,
         After, Report>>
SchedReport(static) ==
    {"static"} \cup IF static THEN {} ELSE {"cases", "quick", "full", "restored"}

(* virtual-memory: the cleanup is conditional as a whole. *)
VmDynamic == <<Talk(F, "vmtrace"), Drive(F, "quick"), Drive(F, "full")>>
VmMain(static) ==
    <<Cmd, Before, Open, Export, Check("baseline"), Try, Apply(F),
      Check("static"), Build>>
    \o When(~static, VmDynamic)
    \o <<Finally, Given(F, Clean), Undo(F), Given(F, Restored("restored")), End,
         Close, After, Report>>
VmReport(static) ==
    {"static", "restored", "repo"}
      \cup IF static THEN {} ELSE {"vmtrace", "quick", "full"}

(* filesystem *)
FsMain(static) ==
    <<Cmd, Before, Open, Export, Check("anchors"), Cmd, Apply(F),
      Check("static"), Build>>
    \o IF static
       THEN <<Clean, Reverse(F), Restored("restored"), After, Close>>
       ELSE <<Build, Talk(F, "fstrace"), Drive(F, "quick"), Drive(F, "full"),
              Clean, Reverse(F), Restored("restored"), Close, After, Report>>
FsReport(static) == {"static", "fstrace", "quick", "full", "restored"}

(* device-io *)
DeviceMain(static) ==
    <<Cmd, Before, Open, Export, Cmd, Apply(F), Check("static"), Build>>
    \o IF static
       THEN <<Clean, Reverse(F), Restored("restored"), After, Close>>
       ELSE <<Build, Talk(F, "devtrace"), Drive(F, "quick"), Drive(F, "full"),
              Clean, Reverse(F), Restored("restored"), Close, After, Report>>
DeviceReport(static) == {"static", "devtrace", "quick", "full", "restored"}

(* persistence: ExportSession.cleanup notes its failures and goes on. *)
ExportSessionExit(patches) ==
    <<Finally, Soft(Clean), Unlink>> \o patches
      \o <<Soft(Restored("restored")), End>>
A == {"adapter"}
C == {"candidate"}
PersistStatic ==
    <<Export, Check("anchors"), Try, Build, Clean, Restored("native"),
      Apply(A), Apply(F), Check("static"), Build>>
    \o ExportSessionExit(<<Soft(Undo(F)), Soft(Undo(A))>>)
PersistDynamic ==
    <<Export, Check("scope"), Try, Apply(C), Apply(F), Check("sources"), Build,
      Talk(C \cup F, "tx"), Check("orderly"), Talk(C \cup F, "cases"),
      Talk(C \cup F, "panic"), Talk(C \cup F, "focused"),
      Clean, Drive(C \cup F, "quick"), Clean, Drive(C \cup F, "full")>>
    \o ExportSessionExit(<<Soft(Undo(F)), Soft(Undo(C))>>)
PersistMain(static) ==
    <<Check("self-test"), Before, Cmd, Open>> \o PersistStatic
    \o When(~static, PersistDynamic \o <<Report>>) \o <<Close, After>>
PersistReport(static) ==
    {"static", "tx", "orderly", "cases", "panic", "focused", "quick", "full",
     "restored"}

(* recovery: on top of persistence's host module. *)
RecoveryRegressions ==
    <<Talk(F \cup C, "focused"), Clean, Drive(F \cup C, "quick"),
      Clean, Drive(F \cup C, "full")>>
RecoveryMain(static) ==
    <<Before, Open, Export, Check("baseline"),
      Try, Build, Clean, Restored("native"), Apply(F), Check("static")>>
    \o When(~static, <<Apply(C), Check("candidate")>>)
    \o <<Build, Cmd, Check("fsck")>>
    \o When(~static,
         <<Talk(F \cup C, "crashes"), Talk(F \cup C, "tears")>>
         \o RecoveryRegressions)
    \o ExportSessionExit(When(~static, <<Soft(Undo(C))>>) \o <<Soft(Undo(F))>>)
    \o <<Close, After>> \o When(~static, <<Check("same candidate")>>) \o <<Report>>
RecoveryReport(static) ==
    {"fsck", "repo"}
      \cup IF static THEN {} ELSE {"crashes", "tears", "focused", "quick", "full"}

(* copy-on-write: the second half of the cleanup has a finally of its own. *)
Audit == {"audit"}
CowDynamic == <<Talk(C \cup Audit, "cowtrace"), Drive(C \cup Audit, "quick"),
                Drive(C \cup Audit, "full")>>
CowMain(static) ==
    <<Cmd, Before, Check("audit"), Open, Export, Check("baseline"), Cmd, Try>>
    \o (IF static
        THEN <<Build>>
        ELSE <<Check("candidate"), Apply(C), Check("adapters"), Apply(Audit),
               Check("static"), Build>> \o CowDynamic)
    \o <<Finally, Try, Clean, Finally, Undo(Audit), Undo(C), Clean,
         Restored("restored"), End, End, Close, After, Report>>
CowReport(static) ==
    {"audit", "baseline", "restored", "repo"}
      \cup IF static THEN {} ELSE {"candidate", "cowtrace", "quick", "full"}

----------------------------------------------------------------------------
(* The shared repository.  "tracked" and "untracked" are the contents of   *)
(* files git status already lists, which change without changing it.       *)
Aspects == {"index", "status", "tracked", "untracked", "ignored", "image"}

AddShared       == {"status", "image"}
BootShared      == {"status", "image"}
RoundtripShared == {"status", "image"}
LifecycleShared == {"status", "image"}
CommShared      == {"index", "status", "tracked", "untracked", "image"}
VmShared        == {"index", "status", "tracked", "untracked", "image"}
SchedShared     == {"index", "status", "tracked", "untracked", "image"}
FsShared        == Aspects
DeviceShared    == Aspects
PersistShared   == Aspects
(* ls-files -c -o -i lists the ignored files only *)
CowShared       == {"index", "status", "ignored", "image"}
=============================================================================
