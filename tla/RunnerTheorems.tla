--------------------------- MODULE RunnerTheorems ---------------------------
(***************************************************************************)
(* The theorems about the lab runners.                                     *)
(*                                                                         *)
(* Part one is one call that starts a process group (Supervise), and what  *)
(* it may leave running.  Processes only end and SIGKILL is never          *)
(* withdrawn (Fades), so what is left can only shrink; the invariant says  *)
(* at which places of the runner it is down to nothing (SignalInv), and    *)
(* which copies of the code can be at which place (KindInv).               *)
(*                                                                         *)
(* Part two is a whole run (LabRun): its report, its exit status and its   *)
(* patches are truthful, whichever calls fail and however often.  The      *)
(* twelve runners are one interpreter and twelve texts.  The proofs argue  *)
(* about the interpreter: an exception can be on its way only where the    *)
(* text unwinds (UnwindInv), a run that raised nothing has recorded        *)
(* exactly what the text before it says (SmoothInv), and the export holds  *)
(* what was recorded and is still pending in the text (PatchInv).  Of the  *)
(* texts they use the shapes that LabShapes states and TLC decides.        *)
(***************************************************************************)
EXTENDS Supervise, LabShapes, WellFoundedInduction, TLAPS

-----------------------------------------------------------------------------
(* Facts used below: a set of numbers has a least member, which stands for *)
(* induction, what the runners compare, and how an export keeps in step.   *)

\* A nonempty set of numbers has a least member.
LEMMA Least ==
  ASSUME NEW S \in SUBSET Nat, S # {}
  PROVE  \E m \in S : \A k \in S : m <= k
<1>1. IsWellFoundedOn(OpToRel(<, Nat), Nat)
  BY NatLessThanWellFounded, Zenon
<1>2. PICK x \in S : \A y \in S : ~ (<<y, x>> \in OpToRel(<, Nat))
  BY <1>1, WFMin, Zenon
<1>3. \A y \in S : ~ (y < x)
  BY <1>2, Zenon DEF OpToRel
<1> QED BY <1>3

\* Every runner compares status and image; those that hash contents compare
\* the index and the files too.
LEMMA ComparedAspects ==
  ASSUME NEW l \in Runners
  PROVE  /\ {"status", "image"} \subseteq Shared[l]
         /\ l \in HashesContents => {"index", "tracked", "untracked"} \subseteq Shared[l]
<1>1. l \in {"add", "boot", "roundtrip", "comm", "lifecycle", "sched", "vm", "fs",
             "device", "persist", "recovery", "cow"}
  BY DEF Runners, Shared
<1> USE DEF Aspects
<1>2. CASE l \in {"add", "boot", "roundtrip"}
  BY <1>2 DEF Shared, HashesContents, AddShared, BootShared, RoundtripShared
<1>3. CASE l \in {"comm", "lifecycle", "sched"}
  BY <1>3 DEF Shared, HashesContents, CommShared, LifecycleShared, SchedShared
<1>4. CASE l \in {"vm", "fs", "device"}
  BY <1>4 DEF Shared, HashesContents, VmShared, FsShared, DeviceShared
<1>5. CASE l \in {"persist", "recovery", "cow"}
  BY <1>5 DEF Shared, HashesContents, PersistShared, CowShared
<1> QED BY <1>1, <1>2, <1>3, <1>4, <1>5

\* An export that holds the recorded patches that are pending (t, a, n) still
\* does so when the three are changed as an instruction changes them.
LEMMA ExportFollowsRecord ==
  ASSUME NEW op, NEW s, NEW t, NEW a, NEW n, NEW t1, NEW a1, NEW n1,
         t = a \cap n,
         t1 = IF op = "export" THEN {} ELSE IF op = "apply" THEN t \cup s
              ELSE IF op = "reverse" THEN t \ s ELSE t,
         a1 = IF op = "export" THEN {} ELSE IF op = "apply" THEN a \cup s ELSE a,
         n1 = IF op = "apply" THEN n \cup s ELSE IF op = "reverse" THEN n \ s ELSE n
  PROVE  t1 = a1 \cap n1
<1>1. CASE op = "export"
  BY <1>1
<1>2. CASE op = "apply"
  BY <1>2
<1>3. CASE op = "reverse"
  BY <1>3
<1>4. CASE op \notin {"export", "apply", "reverse"}
  BY <1>4
<1> QED BY <1>1, <1>2, <1>3, <1>4, Zenon

\* The markers of blocks apply and reverse nothing.
LEMMA MarksAreNoPatches ==
  ASSUME NEW op \in Marks
  PROVE  op \notin {"apply", "reverse"}
BY DEF Marks

-----------------------------------------------------------------------------
(* The texts of the runs, instruction by instruction.                      *)

\* An exception lands further down, on a finally clause, the exit of a
\* with statement, or past the end of the program.
LEMMA LandingAhead ==
  ASSUME NEW p \in Seq(Instructions), NEW i \in DOMAIN p
  PROVE  Landing(p, i) \in (i + 1)..(Len(p) + 1) /\ Unwound(p, Landing(p, i))
<1> DEFINE here == {j \in (i + 1)..Len(p) :
                      /\ p[j].op \in {"finally", "close"}
                      /\ Opens(p, i + 1, j) = Closes(p, i + 1, j - 1)}
           L == Landing(p, i)
<1>1. Len(p) \in Nat /\ DOMAIN p = 1..Len(p) /\ i \in Nat /\ i >= 1 /\ i <= Len(p)
  OBVIOUS
<1>2. L = IF here = {} THEN Len(p) + 1 ELSE CHOOSE j \in here : \A k \in here : j <= k
  BY DEF Landing
<1> HIDE DEF L
<1>3. CASE here = {}
  <2>1. L = Len(p) + 1
    BY <1>2, <1>3, Zenon
  <2> HIDE DEF here
  <2> QED BY <1>1, <2>1 DEF Unwound, L
<1>4. CASE here # {}
  <2>1. here \subseteq Nat
    BY <1>1
  <2>2. \E j \in here : \A k \in here : j <= k
    <3> HIDE DEF here
    <3> QED BY <1>4, <2>1, Least
  <2>3. L \in here
    <3> HIDE DEF here
    <3> QED BY <1>2, <1>4, <2>2, Zenon
  <2>4. L \in (i + 1)..Len(p) /\ p[L].op \in {"finally", "close"}
    BY <2>3, Zenon
  <2> HIDE DEF here
  <2> QED BY <1>1, <2>4 DEF Unwound, L
<1> QED BY <1>3, <1>4, Zenon DEF L

\* A finally clause lasts until its end marker.
LEMMA CleanupNext ==
  ASSUME NEW p \in Seq(Instructions), NEW i \in DOMAIN p
  PROVE  /\ Cleanup(p, i) /\ p[i].op # "end" => Cleanup(p, i + 1)
         /\ p[i].op = "finally" => Cleanup(p, i + 1)
<1>1. Len(p) \in Nat /\ DOMAIN p = 1..Len(p) /\ i \in Nat /\ i >= 1 /\ i <= Len(p)
  OBVIOUS
<1>2. ASSUME Cleanup(p, i), p[i].op # "end"
      PROVE  Cleanup(p, i + 1)
  BY <1>1, <1>2 DEF Cleanup
<1>3. ASSUME p[i].op = "finally"
      PROVE  Cleanup(p, i + 1)
  BY <1>1, <1>3 DEF Cleanup
<1> QED BY <1>2, <1>3

\* The text before the next instruction is the text before this one, and it.
LEMMA FactsNext ==
  ASSUME NEW p \in Seq(Instructions), NEW i \in DOMAIN p
  PROVE  FactsBefore(p, i + 1) = FactsBefore(p, i) \cup ({p[i].fact} \ {""})
<1>1. Len(p) \in Nat /\ DOMAIN p = 1..Len(p) /\ i \in Nat /\ i >= 1 /\ i <= Len(p)
  OBVIOUS
<1>2. 1..((i + 1) - 1) = 1..(i - 1) \cup {i}
  BY <1>1
<1> QED BY <1>2, Zenon DEF FactsBefore

\* What has been applied since the last export: apply adds, export forgets.
LEMMA AppliedNext ==
  ASSUME NEW p \in Seq(Instructions), NEW i \in DOMAIN p
  PROVE  AppliedBefore(p, i + 1) =
           IF p[i].op = "export" THEN {}
           ELSE IF p[i].op = "apply" THEN AppliedBefore(p, i) \cup p[i].set
           ELSE AppliedBefore(p, i)
<1>1. Len(p) \in Nat /\ DOMAIN p = 1..Len(p) /\ i \in Nat /\ i >= 1 /\ i <= Len(p)
  OBVIOUS
<1>2. p[i].set \subseteq Patches
  <2>1. p[i] \in Instructions
    BY <1>1
  <2> QED BY <2>1, SMT DEF Instructions
<1>3. CASE p[i].op = "export"
  BY <1>1, <1>3 DEF AppliedBefore
<1>4. CASE p[i].op = "apply"
  BY <1>1, <1>2, <1>4 DEF AppliedBefore
<1>5. CASE p[i].op \notin {"export", "apply"}
  BY <1>1, <1>5 DEF AppliedBefore
<1> QED BY <1>3, <1>4, <1>5

\* A temporary directory exists between open and close.
LEMMA OpenNext ==
  ASSUME NEW p \in Seq(Instructions), NEW i \in DOMAIN p
  PROVE  OpenBefore(p, i + 1) =
           IF p[i].op = "open" THEN TRUE
           ELSE IF p[i].op = "close" THEN FALSE
           ELSE OpenBefore(p, i)
<1>1. Len(p) \in Nat /\ DOMAIN p = 1..Len(p) /\ i \in Nat /\ i >= 1 /\ i <= Len(p)
  OBVIOUS
<1>3. CASE p[i].op = "open"
  BY <1>1, <1>3 DEF OpenBefore
<1>4. CASE p[i].op = "close"
  BY <1>1, <1>4 DEF OpenBefore
<1>5. CASE p[i].op \notin {"open", "close"}
  BY <1>1, <1>5 DEF OpenBefore
<1> QED BY <1>3, <1>4, <1>5, Zenon

\* What is applied and not reversed: apply adds, reverse takes away.
LEMMA PendingNext ==
  ASSUME NEW p \in Seq(Instructions), NEW i \in DOMAIN p
  PROVE  Pending(p, i + 1) =
           IF p[i].op = "apply" THEN Pending(p, i) \cup p[i].set
           ELSE IF p[i].op = "reverse" THEN Pending(p, i) \ p[i].set
           ELSE Pending(p, i)
<1>1. Len(p) \in Nat /\ DOMAIN p = 1..Len(p) /\ i \in Nat /\ i >= 1 /\ i <= Len(p)
  OBVIOUS
<1>2. p[i].set \subseteq Patches
  <2>1. p[i] \in Instructions
    BY <1>1
  <2> QED BY <2>1, SMT DEF Instructions
<1>3. CASE p[i].op = "apply"
  BY <1>1, <1>2, <1>3 DEF Pending
<1>4. CASE p[i].op = "reverse"
  BY <1>1, <1>2, <1>4 DEF Pending
<1>5. CASE p[i].op \notin {"apply", "reverse"}
  BY <1>1, <1>5 DEF Pending
<1> QED BY <1>3, <1>4, <1>5

\* No cleanup follows a report.
LEMMA ReportIsOutside ==
  ASSUME NEW p \in Seq(Instructions), NEW states, ReportShape(p, states),
         NEW i \in 1..(Len(p) + 1), NEW r \in 1..(i - 1), p[r].op = "report"
  PROVE  ~Cleanup(p, i)
<1>1. Len(p) \in Nat /\ DOMAIN p = 1..Len(p) /\ r \in DOMAIN p
  OBVIOUS
<1>2. ~Cleanup(p, r) /\ \A k \in r..Len(p) : p[k].op # "finally"
  BY <1>1, Zenon DEF ReportShape, Unwound
<1>3. ASSUME NEW f \in 1..(i - 1), p[f].op = "finally",
             \A k \in (f + 1)..(i - 1) : p[k].op # "end"
      PROVE  FALSE
  <2>1. f \notin r..Len(p)
    BY <1>2, <1>3, Zenon
  <2>2. f \in 1..(r - 1) /\ \A k \in (f + 1)..(r - 1) : p[k].op # "end"
    BY <1>1, <1>3, <2>1
  <2> QED BY <1>2, <1>3, <2>2, Zenon DEF Cleanup
<1> QED BY <1>3, Zenon DEF Cleanup

-----------------------------------------------------------------------------
(* Part one: a call that starts a process group.                           *)

\* The places of stop_group().
StopPcs == {"term", "reap", "reapKilled", "grace", "grace2", "check"}

\* Every member that still runs has been sent SIGKILL.
NoneLeft == \A m \in Members : ~Survives(m)

\* A QEMU started directly is its own group; make outlives its child, unless
\* a signal ends it first.
BodyInv ==
  /\ sKind = "session" /\ Console.direct => ~Alive("worker")
  /\ sKind # "driver" /\ ~Alive("leader") /\ Alive("worker") => sig["leader"] # "none"

\* Which kind of call, and which copy of the code, goes with a place.
KindInv ==
  /\ sPc \in {"boot", "talk", "quit", "pidKilled"} => sKind = "session"
  /\ sPc \in {"communicate", "runKilled", "drain", "drainTerm", "drainKill", "recheck"}
       => sKind # "session"
  /\ sPc \in {"drain", "drainTerm", "drainKill", "recheck"} => Guard.finally # "none"
  /\ sPc = "runKilled" => sKind = "cmd" /\ Guard.expiry = "kill" /\ why # "none"
  /\ sPc \in StopPcs => IF sKind = "session" THEN ret = "done" ELSE Guard.finally # "none"
  /\ sPc = "quit" => Console.quit # "none"
  /\ sPc = "pidKilled" => Console.quit = "pidfd"

\* A call that leaves something says so, in one of these ways.
Excused ==
  \/ why = "interrupt" /\ intr \in StopWaits
  \/ why = "interrupt" /\ intr = "boot" /\ Console.boot = "Exception"
  \/ why = "interrupt" /\ intr = "quit" /\ Console.quit \in {"swallow", "pidfd"}
  \/ why # "none" /\ sKind = "cmd" /\ Guard.expiry = "kill"
  \/ why # "none" /\ sKind = "session" /\ Stop[sLab].scope = "leader" /\ ~Console.direct

\* What has been sent, and who is left, at each place.
SignalInv ==
  /\ sPc \in {"boot", "talk", "quit"} => sig["leader"] = "none"
  /\ sPc = "pidKilled" => NoneLeft
  /\ sPc \in {"grace2", "check"} => NoneLeft
  /\ sPc \in {"grace", "grace2", "check"} => st["leader"] = "gone"
  /\ sPc = "check" /\ Stop[sLab].final = "grace" => ~process_group_exists
  /\ sPc \in StopPcs /\ Stop[sLab].scope = "leader" => NoneLeft \/ why # "none"
  /\ Returned => NoneLeft \/ Excused

\* The inductive invariant of a call.
SupInv == SupTypeOK /\ BodyInv /\ KindInv /\ SignalInv

\* How a step may change the group.
Fades ==
  /\ \A m \in Members : st'[m] = "run" => st[m] = "run"
  /\ \A m \in Members : st'[m] = "run" /\ sig'[m] # "KILL" => sig[m] # "KILL"
  /\ st["leader"] = "gone" => st'["leader"] = "gone"

\* A copy of checked() or run_driver(), and a console with its stop.
GuardStyle(g) ==
  /\ g.finally \in {"none", "ifLeft", "stop"}
  /\ g.expiry \in {"kill", "stop", "staged", "raise"}
  /\ g.finally = "none" => g.expiry = "kill"

ConsoleStyle(c, s) ==
  /\ c.quit \in {"raise", "swallow", "none", "pidfd"}
  /\ s.scope = "leader" => c.quit = "raise"
  /\ c.quit = "pidfd" => c.direct

\* The copies of checked().  A copy without a finally clause is
\* subprocess.run, and one with it stops the whole group.
LEMMA CheckedStyles ==
  ASSUME NEW l \in DOMAIN Checked
  PROVE  /\ GuardStyle(Checked[l])
         /\ Checked[l].finally # "none" => Stop[l].scope # "leader"
<1>1. l \in {"comm", "add", "boot", "roundtrip", "lifecycle", "sched", "vm", "cow",
             "fs", "device", "persist", "recovery"}
  BY DEF Checked
<1>2. CASE l \in {"comm", "add", "boot"}
  BY <1>2 DEF Checked, Stop, GuardStyle, CommChecked, AddChecked, BootChecked,
     CommStop, AddStop, BootStop
<1>3. CASE l \in {"roundtrip", "lifecycle", "sched"}
  BY <1>3 DEF Checked, Stop, GuardStyle, RoundtripChecked, LifecycleChecked, SchedChecked,
     LifecycleStop, SchedStop
<1>4. CASE l \in {"vm", "cow", "fs"}
  BY <1>4 DEF Checked, Stop, GuardStyle, VmChecked, CowChecked, FsChecked,
     VmStop, CowStop, FsStop
<1>5. CASE l \in {"device", "persist", "recovery"}
  BY <1>5 DEF Checked, Stop, GuardStyle, DeviceChecked, PersistChecked,
     DeviceStop, PersistStop
<1> QED BY <1>1, <1>2, <1>3, <1>4, <1>5

\* The copies of run_driver() all have a finally clause and stop the group.
LEMMA DriverStyles ==
  ASSUME NEW l \in DOMAIN Driver
  PROVE  /\ GuardStyle(Driver[l]) /\ Driver[l].expiry # "kill"
         /\ Stop[l].scope # "leader"
<1>1. l \in {"comm", "add", "boot", "lifecycle", "sched", "vm", "cow",
             "fs", "device", "persist", "recovery"}
  BY DEF Driver
<1>2. CASE l \in {"comm", "add", "boot"}
  BY <1>2 DEF Driver, Stop, GuardStyle, CommDriver, AddDriver, BootDriver,
     CommStop, AddStop, BootStop
<1>3. CASE l \in {"lifecycle", "sched"}
  BY <1>3 DEF Driver, Stop, GuardStyle, LifecycleDriver, SchedDriver,
     LifecycleStop, SchedStop
<1>4. CASE l \in {"vm", "cow", "fs"}
  BY <1>4 DEF Driver, Stop, GuardStyle, VmDriver, CowDriver, FsDriver,
     VmStop, CowStop, FsStop
<1>5. CASE l \in {"device", "persist", "recovery"}
  BY <1>5 DEF Driver, Stop, GuardStyle, DeviceDriver, PersistDriver,
     DeviceStop, PersistStop
<1> QED BY <1>1, <1>2, <1>3, <1>4, <1>5

\* The consoles.  Where only the leader is stopped a failed quit raises,
\* and a console killed through a pidfd has no worker.
LEMMA SessionStyles ==
  ASSUME NEW l \in DOMAIN Session
  PROVE  ConsoleStyle(Session[l], Stop[l])
<1>1. l \in {"comm", "add", "boot", "roundtrip", "hello", "lifecycle", "sched", "vm",
             "cow", "fs", "device", "persist", "recovery"}
  BY DEF Session
<1>2. CASE l \in {"comm", "add", "boot"}
  BY <1>2 DEF Session, Stop, ConsoleStyle, CommSession, AddSession, BootSession,
     CommStop, AddStop, BootStop
<1>3. CASE l \in {"roundtrip", "hello", "lifecycle", "sched"}
  BY <1>3 DEF Session, Stop, ConsoleStyle, RoundtripSession, HelloSession,
     LifecycleSession, SchedSession, LifecycleStop, SchedStop
<1>4. CASE l \in {"vm", "cow", "fs"}
  BY <1>4 DEF Session, Stop, ConsoleStyle, VmSession, CowSession, FsSession,
     VmStop, CowStop, FsStop
<1>5. CASE l \in {"device", "persist", "recovery"}
  BY <1>5 DEF Session, Stop, ConsoleStyle, DeviceSession, PersistSession,
     RecoverySession, DeviceStop, PersistStop
<1> QED BY <1>1, <1>2, <1>3, <1>4, <1>5

\* What the tables say of the call at hand.
LEMMA CallStyles ==
  ASSUME SupTypeOK
  PROVE  /\ sKind \in {"cmd", "session", "driver"}
         /\ sKind = "session" => ConsoleStyle(Console, Stop[sLab])
         /\ sKind # "session" => /\ GuardStyle(Guard)
                                 /\ Guard.finally # "none" => Stop[sLab].scope # "leader"
         /\ sKind = "driver" => Guard.expiry # "kill"
<1>1. <<sLab, sKind>> \in Calls
  BY Zenon DEF SupTypeOK
<1>2. \/ sLab \in DOMAIN Checked /\ sKind = "cmd"
      \/ sLab \in DOMAIN Session /\ sKind = "session"
      \/ sLab \in DOMAIN Driver /\ sKind = "driver"
  BY <1>1, Zenon DEF Calls
<1> QED BY <1>2, CheckedStyles, DriverStyles, SessionStyles, Zenon DEF Guard, Console

\* What a step may do to the processes and to their signals.
StEffect ==
  \/ st' = st \/ st' = Reaped
  \/ \E m \in Members :
       /\ Alive(m)
       /\ m = "leader" => sKind = "driver" \/ ~Alive("worker") \/ sig["leader"] # "none"
       /\ st' = [st EXCEPT ![m] = IF m = "leader" THEN "zombie" ELSE "gone"]
SigEffect == \/ sig' = sig \/ (\E s \in {"TERM", "KILL"} : sig' = Killpg(s))
  \/ sig' = [sig EXCEPT !["leader"] = IF Alive("leader") THEN "KILL" ELSE @]

\* Where the finally clause leads.
FinallyCases ==
  \/ Guard.finally = "none" /\ Guard.expiry = "kill" /\ sPc' = "done" /\ ret' = ret
  \/ Guard.finally = "ifLeft" /\ sPc' = "recheck" /\ ret' = ret
  \/ Guard.finally = "stop" /\ sPc' = "term" /\ ret' = "done"

\* The finally clause of checked() leads to one of three places.
LEMMA FinallyIs ==
  ASSUME SupTypeOK, sKind # "session", FinallyClause
  PROVE  FinallyCases
<1>1. GuardStyle(Guard)
  BY CallStyles, Zenon
<1>2. Guard.finally \in {"none", "ifLeft", "stop"}
      /\ (Guard.finally = "none" => Guard.expiry = "kill")
  BY <1>1, Zenon DEF GuardStyle
<1>3. CASE Guard.finally = "none"
  BY <1>2, <1>3 DEF FinallyClause, FinallyCases, Goto
<1>4. CASE Guard.finally = "ifLeft"
  BY <1>4 DEF FinallyClause, FinallyCases, Goto
<1>5. CASE Guard.finally = "stop"
  BY <1>5 DEF FinallyClause, FinallyCases, CallStop
<1> QED BY <1>2, <1>3, <1>4, <1>5, Zenon

\* Where the watchdog of communicate() leads.
ExpiryCases ==
  \/ /\ Guard.expiry = "kill" /\ sPc' = "runKilled" /\ ret' = ret
     /\ sig' = [sig EXCEPT !["leader"] = IF Alive("leader") THEN "KILL" ELSE @]
  \/ /\ Guard.expiry = "stop" /\ sPc' = "term" /\ ret' \in {"drain", "recheck"} /\ sig' = sig
  \/ /\ Guard.expiry = "staged" /\ sPc' = "drainTerm" /\ ret' = ret /\ sig' = Killpg("TERM")
  \/ /\ Guard.expiry = "raise" /\ FinallyCases /\ sig' = sig

\* So does the watchdog of communicate(), to one of four.
LEMMA ExpiryIs ==
  ASSUME SupTypeOK, sKind # "session", CommunicateExpires
  PROVE  ExpiryCases
<1>1. GuardStyle(Guard)
  BY CallStyles, Zenon
<1>2. Guard.expiry \in {"kill", "stop", "staged", "raise"}
  BY <1>1, Zenon DEF GuardStyle
<1>3. CASE Guard.expiry = "kill"
  BY <1>3 DEF CommunicateExpires, ExpiryCases, Goto
<1>4. CASE Guard.expiry = "stop"
  BY <1>4 DEF CommunicateExpires, ExpiryCases, CallStop
<1>5. CASE Guard.expiry = "staged"
  BY <1>5 DEF CommunicateExpires, ExpiryCases, Goto
<1>6. CASE Guard.expiry = "raise"
  <2>1. FinallyClause /\ sig' = sig
    BY <1>6 DEF CommunicateExpires
  <2> QED BY <1>6, <2>1, FinallyIs, Zenon DEF ExpiryCases
<1> QED BY <1>2, <1>3, <1>4, <1>5, <1>6, Zenon

\* A step is an action of the runner, an interrupt or the end of a process.
LEMMA SupCases ==
  ASSUME SupNext
  PROVE  \/ LeaderExits
         \/ WorkerExits
         \/ StopTerm
         \/ StopReap
         \/ StopReapKilled
         \/ StopGrace
         \/ StopGrace2
         \/ StopCheck
         \/ CommunicateReturns
         \/ CommunicateExpires
         \/ RunReaps
         \/ Drain
         \/ Recheck
         \/ DrainTerm
         \/ DrainKill
         \/ ConsolePrompt
         \/ ConsoleDone
         \/ ConsoleFails
         \/ QuitReaps
         \/ QuitExpires
         \/ PidReaps
         \/ Interrupt
         \/ \E m \in Members : Dies(m)
BY Zenon DEF SupNext, Runner, Stopping, Waiting, Talking

\* No step starts a process or takes a signal back.
LEMMA StepEffect ==
  ASSUME SupTypeOK, KindInv, SupNext
  PROVE  /\ sLab' = sLab /\ sKind' = sKind /\ deaf' = deaf
         /\ StEffect /\ SigEffect
<1>1. CASE \E m \in Members : Dies(m)
  BY <1>1, Zenon DEF Dies, Same, StEffect, SigEffect
<1>2. CASE LeaderExits
  BY <1>2 DEF LeaderExits, Same, StEffect, SigEffect, Members
<1>3. CASE WorkerExits
  BY <1>3 DEF WorkerExits, Same, StEffect, SigEffect, Members
<1>4. CASE StopTerm
  BY <1>4, Zenon DEF StopTerm, Same, StEffect, SigEffect
<1>5. CASE StopReap
  BY <1>5, Zenon DEF StopReap, Same, StEffect, SigEffect
<1>6. CASE StopReapKilled
  BY <1>6, Zenon DEF StopReapKilled, Same, StEffect, SigEffect
<1>7. CASE StopGrace
  BY <1>7, Zenon DEF StopGrace, Same, StEffect, SigEffect
<1>8. CASE StopGrace2
  BY <1>8, Zenon DEF StopGrace2, Same, StEffect, SigEffect
<1>9. CASE StopCheck
  BY <1>9, Zenon DEF StopCheck, Same, StEffect, SigEffect, Escape
<1>10. CASE CommunicateReturns
  BY <1>10, Zenon DEF CommunicateReturns, Same, StEffect, SigEffect, FinallyClause, CallStop
<1>11. CASE CommunicateExpires
  <2>1. ExpiryCases
    BY <1>11, ExpiryIs, Zenon DEF CommunicateExpires, KindInv
  <2> QED BY <1>11, <2>1, Zenon DEF CommunicateExpires, Same, StEffect, SigEffect,
        ExpiryCases
<1>12. CASE RunReaps
  BY <1>12, Zenon DEF RunReaps, Same, StEffect, SigEffect
<1>13. CASE Drain
  BY <1>13, Zenon DEF Drain, Same, StEffect, SigEffect
<1>14. CASE Recheck
  BY <1>14, Zenon DEF Recheck, Same, StEffect, SigEffect, CallStop
<1>15. CASE DrainTerm
  BY <1>15, Zenon DEF DrainTerm, Same, StEffect, SigEffect, CallStop
<1>16. CASE DrainKill
  BY <1>16, Zenon DEF DrainKill, Same, StEffect, SigEffect, CallStop
<1>17. CASE ConsolePrompt
  BY <1>17, Zenon DEF ConsolePrompt, Same, StEffect, SigEffect
<1>18. CASE ConsoleDone
  BY <1>18, Zenon DEF ConsoleDone, Same, StEffect, SigEffect, PidKill, CallStop
<1>19. CASE ConsoleFails
  BY <1>19, Zenon DEF ConsoleFails, Same, StEffect, SigEffect, Unwind, PidKill, CallStop
<1>20. CASE QuitReaps
  BY <1>20, Zenon DEF QuitReaps, Same, StEffect, SigEffect, CallStop
<1>21. CASE QuitExpires
  BY <1>21, Zenon DEF QuitExpires, Same, StEffect, SigEffect, CallStop
<1>22. CASE PidReaps
  BY <1>22, Zenon DEF PidReaps, Same, StEffect, SigEffect
<1>23. CASE Interrupt
  BY <1>23, Zenon DEF Interrupt, Same, StEffect, SigEffect, Unwind, PidKill, CallStop,
        FinallyClause, Escape
<1> QED BY SupCases, <1>1, <1>2, <1>3, <1>4, <1>5, <1>6, <1>7, <1>8, <1>9, <1>10, <1>11,
      <1>12, <1>13, <1>14, <1>15, <1>16, <1>17, <1>18, <1>19, <1>20, <1>21, <1>22,
      <1>23, Zenon

\* The types of the runner's own variables, after a step.
Pcs == Waits \cup {"term", "check", "recheck", "done"}
Control ==
  /\ sPc' \in Pcs /\ ret' \in {"drain", "recheck", "done"}
  /\ why' \in {"none", "error", "interrupt"} /\ code' \in {"ok", "bad"}
  /\ intr' \in Waits \cup {"none"}

\* Every step leads to a place of the runner's text.
LEMMA StepControls ==
  ASSUME SupTypeOK, KindInv, SupNext
  PROVE  Control
<1>0. /\ sPc \in Pcs /\ ret \in {"drain", "recheck", "done"}
      /\ why \in {"none", "error", "interrupt"} /\ code \in {"ok", "bad"}
      /\ intr \in Waits \cup {"none"}
  BY Zenon DEF SupTypeOK, Pcs
<1> USE DEF Control
<1>1. CASE \E m \in Members : Dies(m)
  BY <1>0, <1>1, Zenon DEF Dies
<1>2. CASE LeaderExits
  BY <1>0, <1>2 DEF LeaderExits, Pcs, Waits
<1>3. CASE WorkerExits
  BY <1>0, <1>3 DEF WorkerExits, Pcs, Waits
<1>4. CASE StopTerm
  BY <1>0, <1>4 DEF StopTerm, Pcs, Waits, Goto
<1>5. CASE StopReap
  BY <1>0, <1>5 DEF StopReap, Pcs, Waits, Goto
<1>6. CASE StopReapKilled
  BY <1>0, <1>6 DEF StopReapKilled, Pcs, Waits, Goto
<1>7. CASE StopGrace
  BY <1>0, <1>7 DEF StopGrace, Pcs, Waits, Goto
<1>8. CASE StopGrace2
  BY <1>0, <1>8 DEF StopGrace2, Pcs, Waits, Goto
<1>9. CASE StopCheck
  BY <1>0, <1>9 DEF StopCheck, Pcs, Waits, Goto, Escape
<1>10. CASE CommunicateReturns
  <2>1. FinallyCases
    BY <1>10, FinallyIs, Zenon DEF CommunicateReturns, KindInv
  <2> QED BY <1>0, <1>10, <2>1 DEF CommunicateReturns, FinallyCases, Pcs
<1>11. CASE CommunicateExpires
  <2>1. ExpiryCases
    BY <1>11, ExpiryIs, Zenon DEF CommunicateExpires, KindInv
  <2>2. sPc' \in Pcs /\ ret' \in {"drain", "recheck", "done"}
    BY <1>0, <2>1 DEF ExpiryCases, FinallyCases, Pcs, Waits
  <2> QED BY <1>0, <1>11, <2>2, Zenon DEF CommunicateExpires
<1>12. CASE RunReaps
  BY <1>0, <1>12 DEF RunReaps, Pcs, Waits, Goto
<1>13. CASE Drain
  BY <1>0, <1>13 DEF Drain, Pcs, Waits, Goto
<1>14. CASE Recheck
  BY <1>0, <1>14 DEF Recheck, Pcs, Waits, Goto, CallStop
<1>15. CASE DrainTerm
  BY <1>0, <1>15 DEF DrainTerm, Pcs, Waits, Goto, CallStop
<1>16. CASE DrainKill
  BY <1>0, <1>16 DEF DrainKill, Pcs, Waits, CallStop
<1>17. CASE ConsolePrompt
  BY <1>0, <1>17 DEF ConsolePrompt, Pcs, Waits, Goto
<1>18. CASE ConsoleDone
  BY <1>0, <1>18 DEF ConsoleDone, Pcs, Waits, Goto, PidKill, CallStop
<1>19. CASE ConsoleFails
  BY <1>0, <1>19 DEF ConsoleFails, Pcs, Waits, Goto, Unwind, PidKill, CallStop
<1>20. CASE QuitReaps
  BY <1>0, <1>20 DEF QuitReaps, Pcs, Waits, Goto, CallStop
<1>21. CASE QuitExpires
  BY <1>0, <1>21 DEF QuitExpires, Pcs, Waits, CallStop
<1>22. CASE PidReaps
  BY <1>0, <1>22 DEF PidReaps, Pcs, Waits, Goto
<1>23. CASE Interrupt
  <2>1. PICK w \in Waits : sPc = w /\ intr' = w /\ code' = code
    BY <1>23, Zenon DEF Interrupt
  <2>2. why' = "interrupt"
    BY <1>23, Zenon DEF Interrupt, Unwind
  <2>3. sPc' \in Pcs /\ ret' \in {"drain", "recheck", "done"}
    <3>1. CASE sPc \in {"communicate", "drain", "drainTerm", "drainKill"}
      <4>1. sKind # "session"
        BY <3>1 DEF KindInv
      <4>2. (sPc' = "runKilled" /\ ret' = ret) \/ FinallyClause
        BY <1>23, <3>1 DEF Interrupt, Goto, StopWaits
      <4> QED BY <1>0, <4>1, <4>2, FinallyIs DEF FinallyCases, Pcs, Waits
    <3>2. CASE sPc \in {"boot", "talk"}
      <4>1. Unwind(sPc = "boot", "interrupt")
        BY <1>23, <3>2 DEF Interrupt, StopWaits
      <4> QED BY <1>0, <4>1 DEF Unwind, PidKill, CallStop, Goto, Pcs, Waits
    <3>3. CASE sPc \notin {"communicate", "drain", "drainTerm", "drainKill", "boot", "talk"}
      BY <1>0, <1>23, <3>3 DEF Interrupt, Goto, CallStop, Escape, StopWaits, Pcs, Waits
    <3> QED BY <3>1, <3>2, <3>3
  <2> QED BY <1>0, <2>1, <2>2, <2>3, Zenon
<1> QED BY SupCases, <1>1, <1>2, <1>3, <1>4, <1>5, <1>6, <1>7, <1>8, <1>9, <1>10, <1>11,
      <1>12, <1>13, <1>14, <1>15, <1>16, <1>17, <1>18, <1>19, <1>20, <1>21, <1>22,
      <1>23, Zenon

\* Processes only end, SIGKILL is never withdrawn, and a leader that was
\* waited for is gone for good.
LEMMA BodiesFade ==
  ASSUME SupTypeOK, StEffect, SigEffect
  PROVE  /\ st' \in [Members -> {"run", "zombie", "gone"}] /\ st'["worker"] # "zombie"
         /\ sig' \in [Members -> {"none", "TERM", "KILL"}]
         /\ Fades
         /\ sig["leader"] # "none" => sig'["leader"] # "none"
<1>1. /\ st \in [Members -> {"run", "zombie", "gone"}] /\ st["worker"] # "zombie"
      /\ sig \in [Members -> {"none", "TERM", "KILL"}]
  BY Zenon DEF SupTypeOK
<1>2. /\ st' \in [Members -> {"run", "zombie", "gone"}] /\ st'["worker"] # "zombie"
      /\ \A m \in Members : st'[m] = "run" => st[m] = "run"
      /\ st["leader"] = "gone" => st'["leader"] = "gone"
  BY <1>1 DEF StEffect, Reaped, Alive, Members
<1>3. /\ sig' \in [Members -> {"none", "TERM", "KILL"}]
      /\ \A m \in Members : st[m] = "run" /\ sig[m] = "KILL" => sig'[m] = "KILL"
      /\ sig["leader"] # "none" => sig'["leader"] # "none"
  BY <1>1 DEF SigEffect, Killpg, Alive, Members
<1> QED BY <1>2, <1>3, Zenon DEF Fades

\* So nothing that is on its way out comes back.
LEMMA LeftFades ==
  ASSUME Fades
  PROVE  /\ NoneLeft => NoneLeft'
         /\ \A m \in Members : ~Alive(m) => ~(Alive(m))'
         /\ ~process_group_exists => ~process_group_exists'
BY Zenon DEF Fades, NoneLeft, Survives, Alive, process_group_exists, Members

\* A leader that has a worker ends only when a signal was sent to it.
LEMMA BodiesStand ==
  ASSUME SupTypeOK, BodyInv, StEffect, SigEffect, sLab' = sLab, sKind' = sKind
  PROVE  BodyInv'
<1>1. /\ Fades
      /\ sig["leader"] # "none" => sig'["leader"] # "none"
  BY BodiesFade, Zenon
<1>2. st \in [Members -> {"run", "zombie", "gone"}]
  BY Zenon DEF SupTypeOK
<1>3. Console' = Console
  BY Zenon DEF Console
<1>4. sKind # "driver" /\ st["leader"] = "run" /\ st'["leader"] # "run" /\ st["worker"]
      = "run"
        => sig["leader"] # "none"
  BY <1>2 DEF StEffect, Reaped, Alive, Members
<1>5. /\ st'["worker"] = "run" => st["worker"] = "run"
      /\ st'["leader"] = "run" => st["leader"] = "run"
  BY <1>1 DEF Fades, Members
<1>6. (sKind = "session" /\ Console.direct => ~Alive("worker"))'
  BY <1>3, <1>5, Zenon DEF BodyInv, Alive
<1>7. (sKind # "driver" /\ ~Alive("leader") /\ Alive("worker") => sig["leader"] # "none")'
  BY <1>1, <1>4, <1>5, Zenon DEF BodyInv, Alive
<1> QED BY <1>6, <1>7, Zenon DEF BodyInv

\* Every step keeps the types.
LEMMA TypesStand ==
  ASSUME SupTypeOK, KindInv, SupNext
  PROVE  SupTypeOK'
<1>1. /\ sLab' = sLab /\ sKind' = sKind /\ deaf' = deaf
      /\ StEffect /\ SigEffect
  BY StepEffect, Zenon
<1>2. Control
  BY StepControls, Zenon
<1>3. /\ st' \in [Members -> {"run", "zombie", "gone"}] /\ st'["worker"] # "zombie"
      /\ sig' \in [Members -> {"none", "TERM", "KILL"}]
  BY <1>1, BodiesFade, Zenon
<1> QED BY <1>1, <1>2, <1>3, Zenon DEF SupTypeOK, Control, Pcs

\* What every step of a call has in common.
Frame == sLab' = sLab /\ sKind' = sKind /\ Fades

\* The facts about the tables, for the call at hand.
Styles ==
  /\ sKind \in {"cmd", "session", "driver"}
  /\ sKind = "session" => /\ Console.quit \in {"raise", "swallow", "none", "pidfd"}
                          /\ Stop[sLab].scope = "leader" => Console.quit = "raise"
                          /\ Console.quit = "pidfd" => Console.direct
  /\ sKind # "session" => /\ Guard.finally \in {"none", "ifLeft", "stop"}
                          /\ Guard.finally = "none" => Guard.expiry = "kill"
                          /\ Guard.finally # "none" => Stop[sLab].scope # "leader"
  /\ sKind = "driver" => Guard.expiry # "kill"

\* What the tables say of the call at hand, spelled out.
LEMMA StylesHold ==
  ASSUME SupInv
  PROVE  Styles
BY CallStyles, Zenon DEF SupInv, Styles, GuardStyle, ConsoleStyle

\* A group without a running member has nothing left.
LEMMA NoneAlive ==
  ASSUME st["leader"] # "run", st["worker"] # "run"
  PROVE  NoneLeft
BY Zenon DEF NoneLeft, Survives, Alive, Members

\* A stop that looks at the leader alone gives up on a console only: either
\* it has no worker, or an exception is on its way and the caller is told.
LEMMA LeaderOnlyReturn ==
  ASSUME SupInv, sPc \in StopPcs, Stop[sLab].scope = "leader", ~Alive("leader")
  PROVE  sKind = "session" /\ ret = "done" /\ (NoneLeft \/ Excused)
<1>1. Styles
  BY StylesHold, Zenon
<1>2. sKind = "session" /\ ret = "done"
  BY <1>1, Zenon DEF Styles, SupInv, KindInv
<1>3. NoneLeft \/ why # "none"
  BY Zenon DEF SupInv, SignalInv
<1>4. CASE Console.direct
  BY <1>2, <1>4, NoneAlive, Zenon DEF SupInv, BodyInv, Alive
<1> QED BY <1>2, <1>3, <1>4, Zenon DEF Excused

\* A process that ends disturbs nothing the runner relies on.
LEMMA QuietStep ==
  ASSUME SupInv, Frame, sig' = sig, sPc' = sPc, ret' = ret, why' = why, intr' = intr
  PROVE  KindInv' /\ SignalInv'
<1>1. /\ Guard' = Guard /\ Console' = Console
      /\ NoneLeft => NoneLeft'
      /\ st["leader"] = "gone" => st'["leader"] = "gone"
      /\ ~process_group_exists => ~process_group_exists'
  BY LeftFades, Zenon DEF Frame, Guard, Console, Fades
<1>2. KindInv'
  BY <1>1, Zenon DEF SupInv, KindInv, Frame
<1>3. (Returned => NoneLeft \/ Excused)'
  BY <1>1, Zenon DEF SupInv, SignalInv, Returned, Excused, Frame
<1> QED BY <1>1, <1>2, <1>3, Zenon DEF SupInv, SignalInv, Frame

\* A stop that returns leads back into the call it was made from.
LEMMA StopReturns ==
  ASSUME SupInv, Frame, sPc \in StopPcs, sPc' = ret, ret' = ret,
         why' = why, intr' = intr, NoneLeft \/ Excused
  PROVE  KindInv' /\ SignalInv'
<1>1. /\ Guard' = Guard /\ Console' = Console
      /\ NoneLeft => NoneLeft'
  BY LeftFades, Zenon DEF Frame, Guard, Console
<1>2. ret = "done" \/ (ret \in {"drain", "recheck"} /\ sKind # "session" /\
      Guard.finally # "none")
  BY Zenon DEF SupInv, SupTypeOK, KindInv
<1>3. KindInv'
  BY <1>1, <1>2 DEF KindInv, Frame, StopPcs
<1>4. (NoneLeft \/ Excused)'
  BY <1>1, Zenon DEF Excused, Frame
<1> QED BY <1>2, <1>3, <1>4 DEF SignalInv, StopPcs

\* A stop that goes on keeps its way back; it polls the group only once the
\* leader has been waited for.
LEMMA StopGoesOn ==
  ASSUME SupInv, Frame, sPc \in StopPcs, sPc' \in {"reap", "reapKilled", "grace"}, ret' = ret,
         why' = why, sPc' = "grace" => st'["leader"] = "gone"
  PROVE  KindInv' /\ SignalInv'
<1>1. /\ Guard' = Guard /\ Console' = Console
      /\ NoneLeft => NoneLeft'
  BY LeftFades, Zenon DEF Frame, Guard, Console
<1>2. sPc' \in StopPcs
  BY DEF StopPcs
<1>3. IF sKind = "session" THEN ret = "done" ELSE Guard.finally # "none"
  BY Zenon DEF SupInv, KindInv
<1>4. KindInv'
  BY <1>1, <1>2, <1>3 DEF KindInv, Frame
<1>5. (Stop[sLab].scope = "leader" => NoneLeft \/ why # "none")'
  BY <1>1, Zenon DEF SupInv, SignalInv, Frame
<1> QED BY <1>4, <1>5 DEF SignalInv, Returned

\* poll() removes an exited leader and leaves the worker alone.
LEMMA ReapedLeader ==
  ASSUME SupTypeOK, st' = Reaped
  PROVE  /\ ~Alive("leader") => st'["leader"] = "gone"
         /\ st'["worker"] = st["worker"]
BY DEF SupTypeOK, Reaped, Alive, Members

\* SIGTERM, or an early return of the stop.
LEMMA TermKeeps ==
  ASSUME SupInv, Frame, StopTerm
  PROVE  KindInv' /\ SignalInv'
<1>1. sPc = "term" /\ sPc \in StopPcs /\ ret' = ret /\ why' = why /\ intr' = intr /\ st'
      = Reaped
  BY DEF StopTerm, StopPcs
<1>2. CASE Stop[sLab].scope = "leader" /\ ~Alive("leader")
  <2>1. sPc' = ret
    BY <1>2, Zenon DEF StopTerm, Goto
  <2> QED BY <1>1, <1>2, <2>1, LeaderOnlyReturn, StopReturns, Zenon
<1>3. CASE ~process_group_exists /\ Stop[sLab].miss = "return"
  <2>1. sPc' = ret
    BY <1>3, Zenon DEF StopTerm, Goto
  <2>2. NoneLeft
    BY <1>3, NoneAlive DEF process_group_exists, Alive
  <2> QED BY <1>1, <2>1, <2>2, StopReturns, Zenon
<1>4. CASE ~(Stop[sLab].scope = "leader" /\ ~Alive("leader"))
             /\ ~(~process_group_exists /\ Stop[sLab].miss = "return")
  <2>1. sPc' = IF Alive("leader") THEN "reap" ELSE "grace"
    BY <1>4, Zenon DEF StopTerm, Goto
  <2>2. ~Alive("leader") => st'["leader"] = "gone"
    BY <1>1, ReapedLeader, Zenon DEF SupInv
  <2> QED BY <1>1, <2>1, <2>2, StopGoesOn DEF SupInv
<1> QED BY <1>2, <1>3, <1>4, Zenon

\* The waits for the leader, before and after SIGKILL.
LEMMA ReapKeeps ==
  ASSUME SupInv, Frame, StopReap \/ StopReapKilled
  PROVE  KindInv' /\ SignalInv'
<1>1. sPc \in StopPcs /\ ret' = ret /\ why' = why /\ intr' = intr
  BY DEF StopReap, StopReapKilled, StopPcs
<1>2. CASE Alive("leader")
  <2>1. sPc' = "reapKilled"
    BY <1>2, Zenon DEF StopReap, StopReapKilled, Goto
  <2> QED BY <1>1, <2>1, StopGoesOn
<1>3. CASE ~Alive("leader") /\ Stop[sLab].scope = "leader"
  <2>1. sPc' = ret
    BY <1>3, Zenon DEF StopReap, StopReapKilled, Goto
  <2> QED BY <1>1, <1>3, <2>1, LeaderOnlyReturn, StopReturns, Zenon
<1>4. CASE ~Alive("leader") /\ Stop[sLab].scope # "leader"
  <2>1. sPc' = "grace" /\ st' = Reaped
    BY <1>4, Zenon DEF StopReap, StopReapKilled, Goto
  <2>2. st'["leader"] = "gone"
    BY <1>4, <2>1, ReapedLeader, Zenon DEF SupInv
  <2> QED BY <1>1, <2>1, <2>2, StopGoesOn
<1> QED BY <1>2, <1>3, <1>4, Zenon

\* The polls of the group: after them every member has been sent SIGKILL or
\* has exited, and after the second one nothing exists.
LEMMA GraceKeeps ==
  ASSUME SupInv, Frame, StopGrace \/ StopGrace2
  PROVE  KindInv' /\ SignalInv'
<1>1. /\ Guard' = Guard /\ Console' = Console
      /\ NoneLeft => NoneLeft'
      /\ ~process_group_exists => ~process_group_exists'
  BY LeftFades, Zenon DEF Frame, Guard, Console
<1>2. /\ sPc \in {"grace", "grace2"} /\ sPc \in StopPcs /\ ret' = ret /\ why' = why
      /\ intr' = intr /\ st' = st
  BY DEF StopGrace, StopGrace2, StopPcs
<1>3. st'["leader"] = "gone"
  BY <1>2, Zenon DEF SupInv, SignalInv
<1>4. sPc' \in {"grace2", "check"}
  BY DEF StopGrace, StopGrace2, Goto
<1>5. NoneLeft'
  <2>1. CASE sPc = "grace" /\ process_group_exists
    <3>1. sig' = Killpg("KILL")
      BY <2>1 DEF StopGrace, StopGrace2
    <3> QED BY <1>2, <3>1 DEF NoneLeft, Survives, Alive, Killpg
  <2>2. CASE sPc = "grace" /\ ~process_group_exists
    BY <1>1, <2>2, NoneAlive, Zenon DEF process_group_exists, Alive
  <2>3. CASE sPc = "grace2"
    BY <1>1, <2>3, Zenon DEF SupInv, SignalInv
  <2> QED BY <1>2, <2>1, <2>2, <2>3, Zenon
<1>6. sPc' = "check" /\ Stop[sLab].final = "grace" => ~process_group_exists'
  <2>1. CASE StopGrace
    BY <1>1, <2>1 DEF StopGrace, Goto
  <2>2. CASE StopGrace2
    <3>1. NoneLeft /\ st["leader"] = "gone"
      BY <2>2, Zenon DEF SupInv, SignalInv, StopGrace2
    <3>2. ~process_group_exists
      BY <2>2, <3>1, Zenon DEF StopGrace2, Settled, NoneLeft, Survives, Alive,
            process_group_exists, Members
    <3> QED BY <1>1, <3>2, Zenon
  <2> QED BY <2>1, <2>2, Zenon
<1>7. IF sKind = "session" THEN ret = "done" ELSE Guard.finally # "none"
  BY <1>2, Zenon DEF SupInv, KindInv
<1>8. KindInv'
  BY <1>1, <1>2, <1>4, <1>7 DEF KindInv, Frame, StopPcs
<1> QED BY <1>3, <1>4, <1>5, <1>6, <1>8 DEF SignalInv, Returned, Frame

\* The final requirement, which raises only for a group that is on its way
\* out.
LEMMA CheckKeeps ==
  ASSUME SupInv, Frame, StopCheck
  PROVE  KindInv' /\ SignalInv'
<1>1. /\ Guard' = Guard /\ Console' = Console
      /\ NoneLeft => NoneLeft'
  BY LeftFades, Zenon DEF Frame, Guard, Console
<1>2. sPc = "check" /\ sPc \in StopPcs /\ ret' = ret /\ intr' = intr
  BY DEF StopCheck, StopPcs
<1>3. NoneLeft
  BY <1>2, Zenon DEF SupInv, SignalInv
<1>4. ret = "done" \/ (sKind # "session" /\ Guard.finally # "none")
  BY <1>2, Zenon DEF SupInv, KindInv
<1>5. ret \in {"drain", "recheck", "done"}
  BY Zenon DEF SupInv, SupTypeOK
<1>6. sPc' = ret \/ (sPc' = IF ret = "done" THEN "done" ELSE "recheck")
  BY Zenon DEF StopCheck, Goto, Escape
<1>7. KindInv'
  BY <1>1, <1>4, <1>5, <1>6 DEF KindInv, Frame, StopPcs
<1> QED BY <1>1, <1>3, <1>5, <1>6, <1>7 DEF SignalInv, StopPcs

\* A step into stop_group() needs a way back.
LEMMA EntersStop ==
  ASSUME Frame, sPc' = "term",
         IF sKind = "session" THEN ret' = "done" ELSE Guard.finally # "none",
         Stop[sLab].scope = "leader" => NoneLeft \/ why' # "none"
  PROVE  KindInv' /\ SignalInv'
<1>1. /\ Guard' = Guard /\ Console' = Console
      /\ NoneLeft => NoneLeft'
  BY LeftFades, Zenon DEF Frame, Guard, Console
<1>2. KindInv'
  BY <1>1 DEF KindInv, Frame
<1>3. (Stop[sLab].scope = "leader" => NoneLeft \/ why # "none")'
  BY <1>1, Zenon DEF Frame
<1> QED BY <1>2, <1>3 DEF SignalInv, Returned

\* A step back to the caller needs an empty group or an excuse.
LEMMA CallReturns ==
  ASSUME sPc' = "done", (NoneLeft \/ Excused)'
  PROVE  KindInv' /\ SignalInv'
<1>1. KindInv'
  BY DEF KindInv, StopPcs
<1> QED BY <1>1 DEF SignalInv, StopPcs

\* The drains and the second look of the finally clause.
LEMMA GoesOnWaiting ==
  ASSUME Frame, sPc' \in {"drain", "drainTerm", "drainKill", "recheck"},
         sKind # "session", Guard.finally # "none"
  PROVE  KindInv' /\ SignalInv'
<1>1. Guard' = Guard
  BY Zenon DEF Frame, Guard
<1>2. KindInv'
  BY <1>1 DEF KindInv, Frame, StopPcs
<1> QED BY <1>2 DEF SignalInv, StopPcs, Returned

\* subprocess.run kills its direct child, and raises.
LEMMA KillsCommand ==
  ASSUME Frame, sPc' = "runKilled", sKind = "cmd", Guard.expiry = "kill", why' # "none"
  PROVE  KindInv' /\ SignalInv'
<1>1. Guard' = Guard
  BY Zenon DEF Frame, Guard
<1>2. KindInv'
  BY <1>1 DEF KindInv, Frame, StopPcs
<1> QED BY <1>2 DEF SignalInv, StopPcs, Returned

\* The console is open and no signal was sent.
LEMMA GoesOnTalking ==
  ASSUME Frame, sPc' \in {"talk", "quit"}, sKind = "session", sig["leader"] = "none",
         sig' = sig, sPc' = "quit" => Console.quit # "none"
  PROVE  KindInv' /\ SignalInv'
<1>1. Console' = Console
  BY Zenon DEF Frame, Console
<1>2. KindInv'
  BY <1>1 DEF KindInv, Frame, StopPcs
<1> QED BY <1>2 DEF SignalInv, StopPcs, Returned

\* A console killed through its pidfd is QEMU itself, so nothing is left.
LEMMA KillsGuest ==
  ASSUME SupInv, Frame, PidKill, sKind = "session", Console.quit = "pidfd", st' = st
  PROVE  KindInv' /\ SignalInv'
<1>1. Console' = Console
  BY Zenon DEF Frame, Console
<1>2. sPc' = "pidKilled" /\ sig' = [sig EXCEPT !["leader"] = IF Alive("leader") THEN
      "KILL" ELSE @]
  BY Zenon DEF PidKill, Goto
<1>3. KindInv'
  BY <1>1, <1>2 DEF KindInv, Frame, StopPcs
<1>4. Console.direct
  BY StylesHold, Zenon DEF Styles
<1>5. st["worker"] # "run"
  BY <1>4, Zenon DEF SupInv, BodyInv, Alive
<1>6. sig \in [Members -> {"none", "TERM", "KILL"}]
  BY Zenon DEF SupInv, SupTypeOK
<1>7. NoneLeft'
  BY <1>2, <1>5, <1>6 DEF NoneLeft, Survives, Alive, Members
<1> QED BY <1>2, <1>3, <1>7 DEF SignalInv, StopPcs, Returned

\* A finally clause that does something ends in a stop of the group.
LEMMA FinallyKeeps ==
  ASSUME SupInv, Frame, sKind # "session", FinallyCases, Guard.finally # "none"
  PROVE  KindInv' /\ SignalInv'
<1>1. Stop[sLab].scope # "leader"
  BY StylesHold, Zenon DEF Styles
<1>2. CASE sPc' = "recheck"
  BY <1>2, GoesOnWaiting
<1>3. CASE sPc' = "term"
  BY <1>1, <1>3, EntersStop, Zenon
<1> QED BY <1>2, <1>3, Zenon DEF FinallyCases

\* The steps of checked() and run_driver().
LEMMA WaitingKeeps ==
  ASSUME SupInv, Frame, Waiting
  PROVE  KindInv' /\ SignalInv'
<1>s. Styles
  BY StylesHold, Zenon
<1>t. SupTypeOK
  BY Zenon DEF SupInv
<1>f. Guard' = Guard
  BY Zenon DEF Frame, Guard
<1>1. CASE CommunicateReturns
  <2>1. sKind # "session"
    BY <1>1, Zenon DEF CommunicateReturns, SupInv, KindInv
  <2>2. FinallyCases
    BY <1>1, <1>t, <2>1, FinallyIs, Zenon DEF CommunicateReturns
  <2>3. CASE Guard.finally = "none"
    <3>1. sPc' = "done" /\ Guard.expiry = "kill"
      BY <2>2, <2>3 DEF FinallyCases
    <3>2. sKind # "driver"
      BY <1>s, <3>1, Zenon DEF Styles
    <3>3. NoneLeft
      BY <1>1, <3>2, NoneAlive, Zenon DEF CommunicateReturns, OutputEnded, Alive
    <3>4. NoneLeft'
      BY <3>3, LeftFades, Zenon DEF Frame
    <3> QED BY <3>1, <3>4, CallReturns, Zenon
  <2> QED BY <2>1, <2>2, <2>3, FinallyKeeps, Zenon
<1>2. CASE CommunicateExpires
  <2>1. sKind # "session"
    BY <1>2, Zenon DEF CommunicateExpires, SupInv, KindInv
  <2>2. ExpiryCases
    BY <1>2, <1>t, <2>1, ExpiryIs, Zenon
  <2>3. why' = "error"
    BY <1>2, Zenon DEF CommunicateExpires
  <2>4. CASE Guard.expiry = "kill"
    <3>1. sPc' = "runKilled"
      BY <2>2, <2>4 DEF ExpiryCases
    <3>2. sKind = "cmd"
      BY <1>s, <2>1, <2>4, Zenon DEF Styles
    <3> QED BY <2>3, <2>4, <3>1, <3>2, KillsCommand
  <2>5. CASE Guard.expiry # "kill"
    <3>1. Guard.finally # "none" /\ Stop[sLab].scope # "leader"
      BY <1>s, <2>1, <2>5, Zenon DEF Styles
    <3>2. sPc' \in {"term", "drainTerm"} \/ FinallyCases
      BY <2>2, <2>5, Zenon DEF ExpiryCases
    <3>3. CASE sPc' = "term"
      BY <2>1, <3>1, <3>3, EntersStop, Zenon
    <3>4. CASE sPc' = "drainTerm"
      BY <2>1, <3>1, <3>4, GoesOnWaiting
    <3> QED BY <2>1, <3>1, <3>2, <3>3, <3>4, FinallyKeeps, Zenon
  <2> QED BY <2>4, <2>5, Zenon
<1>3. CASE RunReaps
  <2>1. /\ sPc = "runKilled" /\ sPc' = "done" /\ why' = why
    BY <1>3, Zenon DEF RunReaps, Goto
  <2>2. why # "none" /\ sKind = "cmd" /\ Guard.expiry = "kill"
    BY <2>1, Zenon DEF SupInv, KindInv
  <2>3. Excused'
    BY <1>f, <2>1, <2>2, Zenon DEF Excused, Frame
  <2> QED BY <2>1, <2>3, CallReturns, Zenon
<1>4. CASE Drain \/ Recheck \/ DrainTerm \/ DrainKill
  <2>1. sPc \in {"drain", "recheck", "drainTerm", "drainKill"}
    BY <1>4, Zenon DEF Drain, Recheck, DrainTerm, DrainKill
  <2>2. sKind # "session" /\ Guard.finally # "none"
    BY <2>1, Zenon DEF SupInv, KindInv
  <2>3. Stop[sLab].scope # "leader"
    BY <1>s, <2>2, Zenon DEF Styles
  <2>4. \/ sPc' \in {"recheck", "drainKill"} \/ sPc' = "term"
        \/ sPc' = "done" /\ ~Alive("leader") /\ ~Alive("worker")
    BY <1>4, Zenon DEF Drain, Recheck, DrainTerm, DrainKill, Goto, CallStop
  <2>5. CASE sPc' \in {"recheck", "drainKill"}
    <3>1. sPc' \in {"drain", "drainTerm", "drainKill", "recheck"}
      BY <2>5, Zenon
    <3> QED BY <2>2, <3>1, GoesOnWaiting, Zenon
  <2>6. CASE sPc' = "term"
    BY <2>2, <2>3, <2>6, EntersStop, Zenon
  <2>7. CASE sPc' = "done" /\ ~Alive("leader") /\ ~Alive("worker")
    <3>1. NoneLeft
      BY <2>7, NoneAlive, Zenon DEF Alive
    <3>2. NoneLeft'
      BY <3>1, LeftFades, Zenon DEF Frame
    <3> QED BY <2>7, <3>2, CallReturns, Zenon
  <2> QED BY <2>4, <2>5, <2>6, <2>7, Zenon
<1> QED BY <1>1, <1>2, <1>3, <1>4, Zenon DEF Waiting

\* An exception while the console is open leads into its stop, its orderly
\* quit, its SIGKILL, or, when an interrupt arrives while a console that
\* catches Exception only is booting, out of the call.
LEMMA UnwindKeeps ==
  ASSUME SupInv, Frame, sPc \in {"boot", "talk"}, NEW e \in {"error", "interrupt"},
         Unwind(sPc = "boot", e), st' = st, e = "interrupt" => intr' = sPc
  PROVE  KindInv' /\ SignalInv'
<1>1. sKind = "session" /\ sig["leader"] = "none"
  BY Zenon DEF SupInv, KindInv, SignalInv
<1>2. why' = e /\ why' # "none"
  BY Zenon DEF Unwind
<1>3. \/ Console.quit = "pidfd" /\ PidKill
      \/ Console.quit \in {"pidfd", "swallow"} /\ sPc' = "quit" /\ sig' = sig
      \/ /\ sPc = "boot" /\ Console.boot = "Exception" /\ e = "interrupt" /\ sPc' = "done"
      \/ sPc' = "term" /\ ret' = "done"
  BY DEF Unwind, Goto, CallStop
<1>4. CASE Console.quit = "pidfd" /\ PidKill
  BY <1>1, <1>4, KillsGuest, Zenon
<1>5. CASE Console.quit \in {"pidfd", "swallow"} /\ sPc' = "quit" /\ sig' = sig
  BY <1>1, <1>5, GoesOnTalking
<1>6. CASE sPc = "boot" /\ Console.boot = "Exception" /\ e = "interrupt" /\ sPc' = "done"
  <2>1. Console' = Console
    BY Zenon DEF Frame, Console
  <2>2. Excused'
    BY <1>2, <1>6, <2>1, Zenon DEF Excused
  <2> QED BY <1>6, <2>2, CallReturns, Zenon
<1>7. CASE sPc' = "term" /\ ret' = "done"
  BY <1>1, <1>2, <1>7, EntersStop, Zenon
<1> QED BY <1>3, <1>4, <1>5, <1>6, <1>7, Zenon

\* The steps of a console session.
LEMMA TalkingKeeps ==
  ASSUME SupInv, Frame, Talking
  PROVE  KindInv' /\ SignalInv'
<1>s. Styles
  BY StylesHold, Zenon
<1>1. CASE ConsolePrompt
  <2>1. sPc = "boot" /\ sPc' = "talk" /\ sig' = sig
    BY <1>1, Zenon DEF ConsolePrompt, Goto
  <2>2. sKind = "session" /\ sig["leader"] = "none"
    BY <2>1, Zenon DEF SupInv, KindInv, SignalInv
  <2> QED BY <2>1, <2>2, GoesOnTalking
<1>2. CASE ConsoleDone
  <2>1. sPc = "talk" /\ st' = st
    BY <1>2, Zenon DEF ConsoleDone
  <2>2. sKind = "session" /\ sig["leader"] = "none"
    BY <2>1, Zenon DEF SupInv, KindInv, SignalInv
  <2>3. CASE Console.quit = "none" /\ CallStop("done")
    <3>1. sPc' = "term" /\ ret' = "done"
      BY <2>3, Zenon DEF CallStop
    <3>2. Stop[sLab].scope # "leader"
      BY <1>s, <2>2, <2>3 DEF Styles
    <3> QED BY <2>2, <3>1, <3>2, EntersStop, Zenon
  <2>4. CASE Console.quit # "none" /\ Goto("quit") /\ sig' = sig
    BY <2>2, <2>4, GoesOnTalking DEF Goto
  <2>5. CASE Console.quit = "pidfd" /\ PidKill
    BY <2>1, <2>2, <2>5, KillsGuest, Zenon
  <2> QED BY <1>2, <2>3, <2>4, <2>5, Zenon DEF ConsoleDone
<1>3. CASE ConsoleFails
  <2>1. sPc \in {"boot", "talk"} /\ Unwind(sPc = "boot", "error") /\ st' = st
    BY <1>3, Zenon DEF ConsoleFails
  <2> QED BY <2>1, UnwindKeeps
<1>4. CASE QuitReaps
  <2>1. sPc = "quit" /\ ~Alive("leader")
    BY <1>4, Zenon DEF QuitReaps
  <2>2. sKind = "session" /\ sig["leader"] = "none"
    BY <2>1, Zenon DEF SupInv, KindInv, SignalInv
  <2>3. ~Alive("worker")
    BY <2>1, <2>2 DEF SupInv, BodyInv
  <2>4. NoneLeft
    BY <2>1, <2>3, NoneAlive, Zenon DEF Alive
  <2>5. CASE sPc' = "done"
    BY <2>4, <2>5, LeftFades, CallReturns, Zenon DEF Frame
  <2>6. CASE sPc' = "term" /\ ret' = "done"
    BY <2>2, <2>4, <2>6, EntersStop, Zenon
  <2> QED BY <1>4, <2>5, <2>6, Zenon DEF QuitReaps, Goto, CallStop
<1>5. CASE QuitExpires
  <2>1. sPc = "quit" /\ sPc' = "term" /\ ret' = "done"
    BY <1>5, Zenon DEF QuitExpires, CallStop
  <2>2. sKind = "session"
    BY <2>1, Zenon DEF SupInv, KindInv
  <2>3. Stop[sLab].scope = "leader" => why' # "none"
    BY <1>5, <1>s, <2>2, Zenon DEF QuitExpires, Styles
  <2> QED BY <2>1, <2>2, <2>3, EntersStop, Zenon
<1>6. CASE PidReaps
  <2>1. sPc = "pidKilled" /\ sPc' = "done"
    BY <1>6, Zenon DEF PidReaps, Goto
  <2>2. NoneLeft
    BY <2>1, Zenon DEF SupInv, SignalInv
  <2> QED BY <2>1, <2>2, LeftFades, CallReturns, Zenon DEF Frame
<1> QED BY <1>1, <1>2, <1>3, <1>4, <1>5, <1>6, Zenon DEF Talking

\* An interrupt, at each of the waits.
LEMMA InterruptKeeps ==
  ASSUME SupInv, Frame, Interrupt
  PROVE  KindInv' /\ SignalInv'
<1>s. Styles
  BY StylesHold, Zenon
<1>f. Guard' = Guard /\ Console' = Console
  BY Zenon DEF Frame, Guard, Console
<1>i. intr' = sPc /\ st' = st
  BY Zenon DEF Interrupt
<1>1. CASE sPc \in {"communicate", "drain", "drainTerm", "drainKill"} /\ why' = "interrupt"
           /\ IF Guard.expiry = "kill" THEN sPc' = "runKilled" ELSE FinallyClause
  <2>1. sKind # "session"
    BY <1>1, Zenon DEF SupInv, KindInv
  <2>2. CASE Guard.expiry = "kill"
    <3>1. sKind = "cmd"
      BY <1>s, <2>1, <2>2, Zenon DEF Styles
    <3> QED BY <1>1, <2>2, <3>1, KillsCommand
  <2>3. CASE Guard.expiry # "kill"
    <3>1. Guard.finally # "none"
      BY <1>s, <2>1, <2>3, Zenon DEF Styles
    <3>2. FinallyCases
      BY <1>1, <2>1, <2>3, FinallyIs, Zenon DEF SupInv
    <3> QED BY <2>1, <3>1, <3>2, FinallyKeeps, Zenon
  <2> QED BY <2>2, <2>3, Zenon
<1>2. CASE sPc = "runKilled" /\ why' = "interrupt" /\ sPc' = sPc
  <2>1. sKind = "cmd" /\ Guard.expiry = "kill"
    BY <1>2, Zenon DEF SupInv, KindInv
  <2> QED BY <1>2, <2>1, KillsCommand
<1>3. CASE sPc \in {"boot", "talk"} /\ Unwind(sPc = "boot", "interrupt")
  BY <1>i, <1>3, UnwindKeeps
<1>4. CASE /\ sPc = "quit" /\ Console.quit = "raise"
           /\ why' = "interrupt" /\ CallStop("done")
  <2>1. sKind = "session"
    BY <1>4, Zenon DEF SupInv, KindInv
  <2>2. sPc' = "term" /\ ret' = "done" /\ why' # "none"
    BY <1>4 DEF CallStop
  <2> QED BY <2>1, <2>2, EntersStop, Zenon
<1>5. CASE sPc = "quit" /\ Console.quit # "raise" /\ why' = "interrupt" /\ sPc' = "done"
  <2>1. sKind = "session" /\ Console.quit # "none"
    BY <1>5, Zenon DEF SupInv, KindInv
  <2>2. Console.quit \in {"swallow", "pidfd"}
    BY <1>s, <1>5, <2>1, Zenon DEF Styles
  <2>3. Excused'
    BY <1>i, <1>f, <1>5, <2>2, Zenon DEF Excused
  <2> QED BY <1>5, <2>3, CallReturns, Zenon
<1>6. CASE sPc = "pidKilled" /\ sPc' = "done"
  <2>1. NoneLeft
    BY <1>6, Zenon DEF SupInv, SignalInv
  <2> QED BY <1>6, <2>1, LeftFades, CallReturns, Zenon DEF Frame
<1>7. CASE sPc \in StopWaits /\ why' = "interrupt" /\ sPc' = Escape
  <2>1. sPc \in StopPcs
    BY <1>7 DEF StopWaits, StopPcs
  <2>2. CASE ret = "done"
    <3>1. Excused'
      BY <1>i, <1>7, Zenon DEF Excused
    <3> QED BY <1>7, <2>2, <3>1, CallReturns, Zenon DEF Escape
  <2>3. CASE ret # "done"
    <3>1. sKind # "session" /\ Guard.finally # "none"
      BY <2>1, <2>3, Zenon DEF SupInv, KindInv
    <3>2. sPc' = "recheck"
      BY <1>7, <2>3, Zenon DEF Escape
    <3> QED BY <3>1, <3>2, GoesOnWaiting
  <2> QED BY <2>2, <2>3, Zenon
<1> QED BY <1>1, <1>2, <1>3, <1>4, <1>5, <1>6, <1>7, Zenon DEF Interrupt, Goto

\* The invariant holds when Popen has returned.
LEMMA SupInvInit ==
  ASSUME SupInit
  PROVE  SupInv
<1>1. PICK c \in Calls : sLab = c[1] /\ sKind = c[2]
  BY Zenon DEF SupInit
<1>2. <<sLab, sKind>> \in Calls
  BY <1>1 DEF Calls
<1>3. SupTypeOK
  BY <1>2 DEF SupInit, SupTypeOK, Members, Waits
<1>4. BodyInv
  BY DEF SupInit, BodyInv, Alive, Members, Console
<1>5. KindInv
  BY DEF SupInit, KindInv, StopPcs
<1>6. SignalInv
  BY DEF SupInit, SignalInv, StopPcs, Returned, Members
<1> QED BY <1>3, <1>4, <1>5, <1>6, Zenon DEF SupInv

\* Every step of a call keeps the invariant.
LEMMA SupInvNext ==
  ASSUME SupInv, SupNext
  PROVE  SupInv'
<1>1. SupTypeOK /\ KindInv /\ BodyInv
  BY Zenon DEF SupInv
<1>2. sLab' = sLab /\ sKind' = sKind /\ StEffect /\ SigEffect
  BY <1>1, StepEffect, Zenon
<1>3. Frame
  BY <1>1, <1>2, BodiesFade, Zenon DEF Frame
<1>4. SupTypeOK' /\ BodyInv'
  BY <1>1, <1>2, TypesStand, BodiesStand, Zenon
<1>5. CASE LeaderExits \/ WorkerExits \/ \E m \in Members : Dies(m)
  <2>1. sig' = sig /\ sPc' = sPc /\ ret' = ret /\ why' = why /\ intr' = intr
    BY <1>5, Zenon DEF LeaderExits, WorkerExits, Dies
  <2> QED BY <1>3, <1>4, <2>1, QuietStep, Zenon DEF SupInv
<1>6. CASE Stopping
  BY <1>3, <1>4, <1>6, TermKeeps, ReapKeeps, GraceKeeps, CheckKeeps, Zenon DEF SupInv,
        Stopping
<1> QED BY <1>3, <1>4, <1>5, <1>6, WaitingKeeps, TalkingKeeps, InterruptKeeps, Zenon
      DEF SupInv, SupNext, Runner

\* The excuses are the ones MayLeave names.
LEMMA SupInvLeaves ==
  ASSUME SupInv
  PROVE  NothingLeftBehind
<1>1. SupTypeOK /\ SignalInv
  BY Zenon DEF SupInv
<1>2. Returned /\ (\E m \in Members : Survives(m)) => Excused
  BY <1>1, Zenon DEF SignalInv, NoneLeft
<1>3. why \in {"none", "error", "interrupt"}
  BY <1>1, Zenon DEF SupTypeOK
<1>4. Excused => MayLeave(sLab, sKind, Result)
  BY <1>3 DEF Excused, MayLeave, Result, Guard, Console
<1>5. why = "interrupt" /\ Excused =>
         \/ intr \in StopWaits
         \/ intr = "boot" /\ Console.boot = "Exception"
         \/ intr = "quit" /\ Console.quit \in {"swallow", "pidfd"}
         \/ sKind = "cmd" /\ Guard.expiry = "kill"
         \/ sKind = "session" /\ Stop[sLab].scope = "leader"
  BY Zenon DEF Excused
<1>6. sPc = "check" /\ Stop[sLab].final = "grace" => ~process_group_exists
  BY <1>1, Zenon DEF SignalInv
<1> QED BY <1>1, <1>2, <1>4, <1>5, <1>6, Zenon DEF NothingLeftBehind

\* NothingLeftBehind, for every runner and kind of call: a call that returns
\* normally has left no process running, one that raises does so only where
\* MayLeave says, and an interrupt does so only at the waits listed there
\* (checked(), run_driver(), the consoles and stop_group() of each runner).
THEOREM CallsLeaveNothing == SupSpec => []NothingLeftBehind
<1>1. SupInit => SupInv
  BY SupInvInit
<1>2. SupInv /\ [SupNext]_supVars => SupInv'
  <2>1. SupInv /\ UNCHANGED supVars => SupInv'
    <3> SUFFICES ASSUME SupInv, UNCHANGED supVars
                 PROVE  SupInv'
      OBVIOUS
    <3>1. /\ sLab' = sLab /\ sKind' = sKind /\ st' = st /\ sig' = sig /\ deaf' = deaf
          /\ code' = code /\ sPc' = sPc /\ ret' = ret /\ why' = why /\ intr' = intr
      BY Zenon DEF supVars
    <3>2. Frame
      BY <3>1, Zenon DEF Frame, Fades
    <3>3. SupTypeOK'
      BY <3>1, Zenon DEF SupInv, SupTypeOK
    <3>4. BodyInv'
      BY <3>1, Zenon DEF SupInv, BodyInv, Alive, Console
    <3> QED BY <3>1, <3>2, <3>3, <3>4, QuietStep, Zenon DEF SupInv
  <2> QED BY <2>1, SupInvNext, Zenon
<1>3. SupInv => NothingLeftBehind
  BY SupInvLeaves
<1> QED BY <1>1, <1>2, <1>3, PTL DEF SupSpec

-----------------------------------------------------------------------------
(* Part two: a whole run.                                                  *)

\* The program of the run, which no step changes.
P == Program(lab, staticOnly)
Text == lab' = lab /\ staticOnly' = staticOnly /\ P' = P

\* The types of the control state, and those of the values.
LabTypes ==
  /\ lab \in Runners /\ staticOnly \in BOOLEAN
  /\ at \in 1..(Len(P) + 1)
  /\ exc \in {"none", "error", "interrupt"}
  /\ noted \in BOOLEAN /\ raised \in BOOLEAN /\ temp \in BOOLEAN
  /\ left \in BOOLEAN /\ patchFault \in BOOLEAN

ValueTypes ==
  /\ tree \in [patches : SUBSET Patches, built : BOOLEAN, stray : BOOLEAN]
  /\ applied \subseteq Patches
  /\ repo \in [Aspects -> {0, 1}] /\ before \in [Aspects -> {0, 1}]
  /\ faults \in 0..MaxFaults

\* An exception is on its way, or a failure noted, only inside cleanups.
UnwindInv ==
  /\ exc # "none" => Unwound(P, at)
  /\ noted /\ exc = "none" => Cleanup(P, at)
  /\ raised <=> exc # "none" \/ noted
  /\ left => raised

\* A run in which nothing was raised has done all the text before it says.
SmoothInv ==
  ~raised => /\ facts = FactsBefore(P, at)
             /\ applied = AppliedBefore(P, at)
             /\ temp = OpenBefore(P, at)

\* Facts come from the program; the comparison, once made, stays true.
FactInv ==
  /\ facts \subseteq {P[i].fact : i \in DOMAIN P} \ {""}
  /\ "repo" \in facts => \A a \in Shared[lab] : repo[a] = before[a]

\* A report has an instruction that wrote it and facts to stand on.
ReportInv ==
  report # {} =>
    /\ report \subseteq facts
    /\ \E r \in 1..(at - 1) : P[r].op = "report"
    /\ lab # "persist" => exc = "none"

\* The export holds what was recorded and is not yet reversed in the text.
PatchInv ==
  lab \in Thorough =>
    /\ \A x \in applied : \E k \in DOMAIN P : P[k].op = "apply" /\ x \in P[k].set
    /\ ~patchFault => tree.patches = applied \cap Pending(P, at)

\* The inductive invariant of a run.
RunInv == LabTypes /\ ValueTypes /\ UnwindInv /\ SmoothInv /\ FactInv
            /\ ReportInv /\ PatchInv

-----------------------------------------------------------------------------
(* The ways in which an instruction ends.                                  *)

\* It is skipped.
Passing ==
  /\ Skips(P[at]) /\ at' = at + 1
  /\ UNCHANGED <<exc, noted, raised, tree, applied, temp, facts, report, before,
                 left, repo, faults, patchFault>>

\* It raises e; what it did to the export, and what it left, is said apart.
Raising(e) ==
  /\ ~Skips(P[at]) /\ RaiseAt(e)
  /\ UNCHANGED <<applied, temp, facts, report, before, repo>>

\* It does its work.
Doing ==
  /\ ~Skips(P[at]) /\ Requires(P[at]) /\ at' = at + 1
  /\ tree' = Effect(P[at])
  /\ applied' = CASE P[at].op = "export" -> {}
                  [] P[at].op = "apply"  -> applied \cup P[at].set
                  [] OTHER               -> applied
  /\ temp' = (temp \/ P[at].op = "open")
  /\ facts' = facts \cup ({P[at].fact} \ {""})
  /\ report' = IF P[at].op = "report" THEN States(lab, staticOnly) ELSE report
  /\ before' = IF P[at].op = "before" THEN repo ELSE before
  /\ UNCHANGED <<exc, noted, raised, left, repo, faults, patchFault>>

\* A step of the program ends in one of three ways.
LEMMA StepCases ==
  ASSUME RunStep
  PROVE  /\ Text /\ at \in DOMAIN P /\ P[at].op \notin Marks
         /\ \/ Passing
            \/ /\ ~Requires(P[at]) /\ Raising("error")
               /\ UNCHANGED <<tree, left, faults, patchFault>>
            \/ Doing
<1>1. Text /\ at \in DOMAIN P /\ Instr = P[at] /\ P[at].op \notin Marks
  BY Zenon DEF RunStep, Text, P, Keep, Running, Instr
<1>2. UNCHANGED <<left, faults, patchFault, repo>>
  BY Zenon DEF RunStep, Keep
<1>3. CASE Skips(P[at])
  BY <1>1, <1>2, <1>3, Zenon DEF RunStep, Passing
<1>4. CASE ~Skips(P[at]) /\ ~Requires(P[at])
  BY <1>1, <1>2, <1>4, Zenon DEF RunStep, Raising
<1>5. CASE ~Skips(P[at]) /\ Requires(P[at])
  BY <1>1, <1>2, <1>5, Zenon DEF RunStep, Doing
<1> QED BY <1>1, <1>3, <1>4, <1>5, Zenon

\* A fault raises its exception, does or does not take effect, and may
\* leave a process; an interrupt or a fault of git apply is remembered.
LEMMA FaultCases ==
  ASSUME NEW e, RunFault(e)
  PROVE  /\ Text /\ at \in DOMAIN P /\ P[at].op \notin Marks
         /\ Raising(e)
         /\ patchFault' = (patchFault \/ e = "interrupt" \/ P[at].op \in {"apply", "reverse"})
         /\ faults < MaxFaults /\ faults' = faults + 1
         /\ left' \in {left, TRUE}
         /\ \E done \in {tree, Effect(P[at])}, out \in BOOLEAN :
              tree' = [done EXCEPT !.stray = @ \/ out]
<1>1. Text /\ at \in DOMAIN P /\ Instr = P[at] /\ P[at].op \notin Marks
  BY Zenon DEF RunFault, Text, P, Keep, Running, Instr
<1>2. Raising(e)
  BY <1>1, Zenon DEF RunFault, Raising, Keep
<1>3. /\ patchFault' = (patchFault \/ e = "interrupt" \/ P[at].op \in {"apply", "reverse"})
      /\ faults < MaxFaults /\ faults' = faults + 1
  BY <1>1, Zenon DEF RunFault
<1>4. left' \in {left, TRUE}
  BY Zenon DEF RunFault
<1>5. \E done \in {tree, Effect(P[at])}, out \in BOOLEAN :
         tree' = [done EXCEPT !.stray = @ \/ out]
  BY <1>1, Zenon DEF RunFault
<1> QED BY <1>1, <1>2, <1>3, <1>4, <1>5, Zenon

\* A marker either goes on or lets an exception out.
LEMMA MarkCases ==
  ASSUME RunMark
  PROVE  /\ Text /\ at \in DOMAIN P /\ P[at].op \in Marks
         /\ exc' = IF P[at].op = "end" /\ noted THEN "error" ELSE exc
         /\ noted' = (noted /\ P[at].op # "end")
         /\ at' = IF exc' # "none" /\ P[at].op \in {"end", "close"}
                  THEN Landing(P, at) ELSE at + 1
         /\ temp' = (temp /\ P[at].op # "close")
         /\ UNCHANGED <<raised, tree, applied, facts, report, left, before,
                        faults, patchFault, repo>>
<1>1. Text /\ at \in DOMAIN P /\ Instr = P[at] /\ Handler = Landing(P, at)
  BY Zenon DEF RunMark, Text, P, Keep, Running, Instr, Handler
<1>2. exc' = IF P[at].op = "end" /\ noted THEN "error" ELSE exc
  BY <1>1, Zenon DEF RunMark, Carried
<1>3. /\ at' = IF Carried(P[at]) # "none" /\ P[at].op \in {"end", "close"}
               THEN Landing(P, at) ELSE at + 1
      /\ exc' = Carried(P[at])
  BY <1>1, Zenon DEF RunMark
<1>4. UNCHANGED <<raised, tree, applied, facts, report, left, before,
                  faults, patchFault, repo>>
  BY Zenon DEF RunMark, Keep
<1>5. /\ P[at].op \in Marks /\ noted' = (noted /\ P[at].op # "end")
      /\ temp' = (temp /\ P[at].op # "close")
  BY <1>1, Zenon DEF RunMark
<1> QED BY <1>1, <1>2, <1>3, <1>4, <1>5, Zenon

-----------------------------------------------------------------------------
\* What ProgramsAssumption says of the program of this run.
LEMMA TextShape ==
  ASSUME LabTypes
  PROVE  /\ P \in Seq(Instructions) /\ Len(P) \in Nat /\ DOMAIN P = 1..Len(P)
         /\ BlockShape(P) /\ FactShape(P) /\ ReportShape(P, States(lab, staticOnly))
         /\ lab # "persist" => \A r \in DOMAIN P : P[r].op = "report" => r = Len(P)
         /\ ~(lab = "roundtrip" /\ staticOnly) => \E i \in DOMAIN P : P[i].fact = "repo"
         /\ lab \in Thorough => PatchShape(P)
<1>1. /\ BlockShape(P) /\ FactShape(P) /\ ReportShape(P, States(lab, staticOnly))
      /\ lab # "persist" => \A r \in DOMAIN P : P[r].op = "report" => r = Len(P)
      /\ ~(lab = "roundtrip" /\ staticOnly) => \E i \in DOMAIN P : P[i].fact = "repo"
      /\ lab \in Thorough => PatchShape(P)
  BY ProgramsAssumption, Zenon DEF LabTypes, P
<1>2. P \in Seq(Instructions)
  BY <1>1, Zenon DEF BlockShape
<1>3. Len(P) \in Nat /\ DOMAIN P = 1..Len(P)
  BY <1>2
<1> QED BY <1>1, <1>2, <1>3, Zenon

\* An exception that leaves an instruction is noted, or lands on a handler.
LEMMA RaiseLands ==
  ASSUME LabTypes, UnwindInv, Text, at \in DOMAIN P, P[at].op \notin Marks,
         NEW e \in {"error", "interrupt"}, RaiseAt(e)
  PROVE  /\ at' \in (at + 1)..(Len(P) + 1)
         /\ raised' = TRUE /\ exc' \in {"none", "error", "interrupt"} /\ noted' \in BOOLEAN
         /\ exc' # "none" \/ noted'
         /\ exc' # "none" => Unwound(P, at')
         /\ noted' /\ exc' = "none" => Cleanup(P, at')
         /\ IF P[at].soft /\ e = "error" THEN at' = at + 1 ELSE at' = Landing(P, at)
<1>1. Instr = P[at] /\ Handler = Landing(P, at)
  BY Zenon DEF P, Instr, Handler
<1>2. P \in Seq(Instructions) /\ BlockShape(P) /\ Len(P) \in Nat /\ DOMAIN P = 1..Len(P)
  BY TextShape
<1>3. Landing(P, at) \in (at + 1)..(Len(P) + 1) /\ Unwound(P, Landing(P, at))
  BY <1>2, LandingAhead
<1>4. CASE P[at].soft /\ e = "error"
  <2>1. Cleanup(P, at) /\ P[at].op # "end"
    BY <1>2, <1>4, Zenon DEF BlockShape, Marks
  <2>2. Cleanup(P, at + 1) /\ Unwound(P, at + 1)
    BY <1>2, <2>1, CleanupNext, Zenon DEF Unwound
  <2>3. noted' = TRUE /\ at' = at + 1 /\ exc' = exc /\ raised' = TRUE
    BY <1>1, <1>4, Zenon DEF RaiseAt
  <2>4. at + 1 \in (at + 1)..(Len(P) + 1)
    BY <1>2
  <2> QED BY <1>4, <2>2, <2>3, <2>4, Zenon DEF LabTypes
<1>5. CASE ~(P[at].soft /\ e = "error")
  <2>1. exc' = e /\ at' = Landing(P, at) /\ noted' = noted /\ raised' = TRUE
    BY <1>1, <1>5, Zenon DEF RaiseAt
  <2>2. e # "none"
    OBVIOUS
  <2> QED BY <1>3, <1>5, <2>1, <2>2, Zenon DEF LabTypes
<1> QED BY <1>4, <1>5, Zenon

\* A step of the program that raises nothing stays on the same side.
LEMMA AdvanceKeeps ==
  ASSUME LabTypes, UnwindInv, at \in DOMAIN P, P[at].op \notin Marks
  PROVE  /\ at + 1 \in 1..(Len(P) + 1)
         /\ exc # "none" => Unwound(P, at + 1)
         /\ noted /\ exc = "none" => Cleanup(P, at + 1)
<1>1. P \in Seq(Instructions) /\ Len(P) \in Nat /\ DOMAIN P = 1..Len(P)
  BY TextShape
<1>2. at + 1 \in 1..(Len(P) + 1)
  BY <1>1
<1>3. P[at].op \notin {"end", "finally", "close"}
  BY DEF Marks
<1>4. exc # "none" => Cleanup(P, at)
  BY <1>1, <1>3, Zenon DEF UnwindInv, Unwound
<1>5. Cleanup(P, at) => Cleanup(P, at + 1)
  BY <1>1, <1>3, CleanupNext, Zenon
<1> QED BY <1>2, <1>4, <1>5, Zenon DEF UnwindInv, Unwound

\* RunStep, by the way its instruction ends.
LEMMA StepControl ==
  ASSUME LabTypes, UnwindInv, RunStep
  PROVE  LabTypes' /\ UnwindInv'
<1>1. Text /\ at \in DOMAIN P /\ P[at].op \notin Marks
  BY StepCases
<1>2. P \in Seq(Instructions) /\ Len(P) \in Nat /\ DOMAIN P = 1..Len(P)
  BY TextShape
<1>3. left' = left /\ patchFault' = patchFault
  BY StepCases, Zenon DEF Passing, Doing
<1>4. CASE Passing \/ Doing
  <2>1. exc' = exc /\ noted' = noted /\ raised' = raised /\ at' = at + 1
    BY <1>4, Zenon DEF Passing, Doing
  <2>2. temp' \in BOOLEAN
    BY <1>4, Zenon DEF Passing, Doing, LabTypes
  <2>3. /\ at + 1 \in 1..(Len(P) + 1)
        /\ exc # "none" => Unwound(P, at + 1)
        /\ noted /\ exc = "none" => Cleanup(P, at + 1)
    BY <1>1, AdvanceKeeps
  <2>4. LabTypes'
    BY <1>1, <1>3, <2>1, <2>2, <2>3, Zenon DEF LabTypes, Text
  <2>5. UnwindInv'
    BY <1>1, <1>3, <2>1, <2>3, Zenon DEF UnwindInv, Text
  <2> QED BY <2>4, <2>5
<1>5. CASE Raising("error")
  <2>1. /\ at' \in (at + 1)..(Len(P) + 1)
        /\ raised' = TRUE /\ exc' \in {"none", "error", "interrupt"} /\ noted' \in BOOLEAN
        /\ exc' # "none" \/ noted'
        /\ exc' # "none" => Unwound(P, at')
        /\ noted' /\ exc' = "none" => Cleanup(P, at')
    BY <1>1, <1>5, RaiseLands, Zenon DEF Raising
  <2>2. at' \in 1..(Len(P) + 1)
    BY <1>2, <2>1 DEF LabTypes
  <2>3. temp' = temp
    BY <1>5, Zenon DEF Raising
  <2>4. LabTypes'
    BY <1>1, <1>3, <2>1, <2>2, <2>3, Zenon DEF LabTypes, Text
  <2>5. UnwindInv'
    BY <1>1, <1>3, <2>1, Zenon DEF UnwindInv, Text
  <2> QED BY <2>4, <2>5
<1> QED BY <1>4, <1>5, StepCases, Zenon

\* A fault of a call: the exception it raises, and what it may leave.
LEMMA FaultControl ==
  ASSUME LabTypes, UnwindInv, NEW e \in {"error", "interrupt"}, RunFault(e)
  PROVE  LabTypes' /\ UnwindInv'
<1>1. Text /\ at \in DOMAIN P /\ P[at].op \notin Marks /\ Raising(e)
  BY FaultCases, Zenon
<1>2. P \in Seq(Instructions) /\ Len(P) \in Nat /\ DOMAIN P = 1..Len(P)
  BY TextShape
<1>3. left' \in BOOLEAN /\ patchFault' \in BOOLEAN /\ temp' = temp
  BY <1>1, FaultCases, Zenon DEF LabTypes, Raising
<1>4. /\ at' \in (at + 1)..(Len(P) + 1)
      /\ raised' = TRUE /\ exc' \in {"none", "error", "interrupt"} /\ noted' \in BOOLEAN
      /\ exc' # "none" \/ noted'
      /\ exc' # "none" => Unwound(P, at')
      /\ noted' /\ exc' = "none" => Cleanup(P, at')
  BY <1>1, RaiseLands, Zenon DEF Raising
<1>5. at' \in 1..(Len(P) + 1)
  BY <1>2, <1>4 DEF LabTypes
<1>6. LabTypes'
  BY <1>1, <1>3, <1>4, <1>5, Zenon DEF LabTypes, Text
<1>7. UnwindInv'
  BY <1>1, <1>4, Zenon DEF UnwindInv, Text
<1> QED BY <1>6, <1>7

\* A marker: what was noted becomes an exception at the end of its cleanup.
LEMMA MarkControl ==
  ASSUME LabTypes, UnwindInv, RunMark
  PROVE  LabTypes' /\ UnwindInv'
<1>1. Text /\ at \in DOMAIN P /\ P[at].op \in Marks
  BY MarkCases
<1>2. P \in Seq(Instructions) /\ Len(P) \in Nat /\ DOMAIN P = 1..Len(P)
  BY TextShape
<1>3. /\ left' = left /\ patchFault' = patchFault /\ raised' = raised
      /\ noted' = (noted /\ P[at].op # "end")
      /\ exc' = IF P[at].op = "end" /\ noted THEN "error" ELSE exc
      /\ temp' = (temp /\ P[at].op # "close")
      /\ at' = IF exc' # "none" /\ P[at].op \in {"end", "close"}
               THEN Landing(P, at) ELSE at + 1
  BY MarkCases, Zenon
<1>4. Landing(P, at) \in (at + 1)..(Len(P) + 1) /\ Unwound(P, Landing(P, at))
  BY <1>1, <1>2, LandingAhead
<1>5. noted' \in BOOLEAN /\ temp' \in BOOLEAN /\ exc' \in {"none", "error", "interrupt"}
  BY <1>3, Zenon DEF LabTypes
<1>6. exc' # "none" \/ noted' <=> exc # "none" \/ noted
  BY <1>3, Zenon DEF LabTypes
<1>7. at' \in 1..(Len(P) + 1)
  BY <1>1, <1>2, <1>3, <1>4 DEF LabTypes
<1>8. LabTypes'
  BY <1>1, <1>3, <1>5, <1>7, Zenon DEF LabTypes, Text
<1>9. CASE exc' # "none" /\ P[at].op \in {"end", "close"}
  <2>1. Unwound(P, at')
    BY <1>3, <1>4, <1>9, Zenon
  <2> QED BY <1>1, <1>3, <1>6, <1>8, <1>9, <2>1, Zenon DEF UnwindInv, Text
<1>10. CASE ~(exc' # "none" /\ P[at].op \in {"end", "close"})
  <2>1. at' = at + 1
    BY <1>3, <1>10, Zenon
  <2>2. /\ Cleanup(P, at) /\ P[at].op # "end" => Cleanup(P, at + 1)
        /\ P[at].op = "finally" => Cleanup(P, at + 1)
    BY <1>1, <1>2, CleanupNext
  <2>3. ASSUME exc' # "none" \/ noted'
        PROVE  Cleanup(P, at')
    <3>1. P[at].op # "end"
      BY <1>3, <1>10, <2>3, Zenon
    <3>2. CASE exc' # "none"
      <4>1. P[at].op # "close" /\ exc # "none"
        BY <1>3, <1>10, <3>1, <3>2, Zenon
      <4>2. P[at].op = "finally" \/ Cleanup(P, at)
        BY <1>1, <4>1, Zenon DEF UnwindInv, Unwound
      <4> QED BY <2>1, <2>2, <3>1, <4>2, Zenon
    <3>3. CASE exc' = "none"
      <4>1. noted /\ exc = "none"
        BY <1>3, <2>3, <3>1, <3>3, Zenon
      <4> QED BY <2>1, <2>2, <3>1, <4>1, Zenon DEF UnwindInv
    <3> QED BY <3>2, <3>3
  <2> QED BY <1>1, <1>3, <1>6, <1>8, <2>3, Zenon DEF UnwindInv, Unwound, Text
<1> QED BY <1>9, <1>10

\* An edit of the repository does not touch the run.
LEMMA EditControl ==
  ASSUME LabTypes, UnwindInv, NEW a \in Aspects, Edit(a)
  PROVE  LabTypes' /\ UnwindInv'
<1>1. /\ Text /\ at' = at /\ exc' = exc /\ noted' = noted /\ raised' = raised
      /\ temp' = temp /\ left' = left /\ patchFault' = patchFault
  BY Zenon DEF Edit, Text, P
<1> QED BY <1>1, Zenon DEF LabTypes, UnwindInv, Text

\* The exports, as the model sees them.
Trees == [patches : SUBSET Patches, built : BOOLEAN, stray : BOOLEAN]

\* What an instruction does to the patches of the export.
LEMMA EffectPatches ==
  ASSUME tree \in Trees, NEW i \in Instructions
  PROVE  /\ Effect(i) \in Trees
         /\ Effect(i).patches = IF i.op = "export" THEN {}
                                ELSE IF i.op = "apply" THEN tree.patches \cup i.set
                                ELSE IF i.op = "reverse" THEN tree.patches \ i.set
                                ELSE tree.patches
<1>1. i.set \subseteq Patches
  BY DEF Instructions
<1>2. Pristine \in Trees /\ Pristine.patches = {}
  BY DEF Pristine, Trees
<1>3. CASE i.op = "export"
  <2>1. Effect(i) = Pristine
    BY <1>3, Zenon DEF Effect
  <2> QED BY <1>2, <1>3, <2>1, Zenon
<1>4. CASE i.op = "apply"
  <2>1. Effect(i) = [tree EXCEPT !.patches = @ \cup i.set]
    BY <1>4 DEF Effect
  <2> QED BY <1>1, <1>4, <2>1 DEF Trees
<1>5. CASE i.op = "reverse"
  <2>1. Effect(i) = [tree EXCEPT !.patches = @ \ i.set]
    BY <1>5 DEF Effect
  <2> QED BY <1>1, <1>5, <2>1 DEF Trees
<1>6. CASE i.op \in {"build", "session", "driver"}
  <2>1. Effect(i) = [tree EXCEPT !.built = TRUE]
    BY <1>6 DEF Effect
  <2> QED BY <1>6, <2>1, Zenon DEF Trees
<1>7. CASE i.op = "clean"
  <2>1. Effect(i) = [tree EXCEPT !.built = FALSE]
    BY <1>7 DEF Effect
  <2> QED BY <1>7, <2>1, Zenon DEF Trees
<1>8. CASE i.op = "unlink"
  <2>1. Effect(i) = [tree EXCEPT !.stray = FALSE]
    BY <1>8 DEF Effect
  <2> QED BY <1>8, <2>1, Zenon DEF Trees
<1>9. CASE i.op \notin {"export", "apply", "reverse", "build", "session", "driver",
                        "clean", "unlink"}
  <2>1. Effect(i) = tree
    BY <1>9 DEF Effect
  <2> QED BY <1>9, <2>1
<1> QED BY <1>3, <1>4, <1>5, <1>6, <1>7, <1>8, <1>9, Zenon

\* The instruction at hand is an instruction of the text.
LEMMA InstrType ==
  ASSUME LabTypes, at \in DOMAIN P
  PROVE  P[at] \in Instructions /\ P[at].set \subseteq Patches
<1>1. P \in Seq(Instructions)
  BY TextShape
<1>2. P[at] \in Instructions
  BY <1>1
<1> QED BY <1>2 DEF Instructions

\* The values the instructions compute keep their types.
LEMMA StepValues ==
  ASSUME LabTypes, ValueTypes, RunStep
  PROVE  ValueTypes'
<1>1. Text /\ at \in DOMAIN P
  BY StepCases
<1>2. tree \in Trees
  BY Zenon DEF ValueTypes, Trees
<1>3. P[at] \in Instructions /\ P[at].set \subseteq Patches
  BY <1>1, InstrType
<1>4. repo' = repo /\ faults' = faults
  BY StepCases, Zenon DEF Passing, Doing, Raising
<1>5. CASE Passing \/ (Raising("error") /\ tree' = tree)
  <2>1. tree' = tree /\ applied' = applied /\ before' = before
    BY <1>5, Zenon DEF Passing, Raising
  <2> QED BY <1>4, <2>1, Zenon DEF ValueTypes
<1>6. CASE Doing
  <2>1. tree' \in Trees
    BY <1>2, <1>3, <1>6, EffectPatches, Zenon DEF Doing
  <2>2. applied' \subseteq Patches
    <3>1. applied' \in {{}, applied \cup P[at].set, applied}
      BY <1>6 DEF Doing
    <3> QED BY <1>3, <3>1 DEF ValueTypes
  <2>3. before' \in {repo, before}
    BY <1>6, Zenon DEF Doing
  <2> QED BY <1>4, <2>1, <2>2, <2>3, Zenon DEF ValueTypes, Trees
<1> QED BY <1>5, <1>6, StepCases, Zenon

\* A fault leaves an export behind, and is counted.
LEMMA FaultValues ==
  ASSUME LabTypes, ValueTypes, NEW e, RunFault(e)
  PROVE  ValueTypes'
<1>1. Text /\ at \in DOMAIN P /\ Raising(e)
  BY FaultCases, Zenon
<1>2. tree \in Trees /\ P[at] \in Instructions
  BY <1>1, InstrType, Zenon DEF ValueTypes, Trees
<1>3. repo' = repo /\ applied' = applied /\ before' = before
  BY <1>1, Zenon DEF Raising
<1>4. faults' \in 0..MaxFaults
  <2>1. faults < MaxFaults /\ faults' = faults + 1
    BY FaultCases, Zenon
  <2>2. faults \in 0..MaxFaults
    BY Zenon DEF ValueTypes
  <2> QED BY <2>1, <2>2, FaultsAssumption
<1>5. tree' \in Trees
  <2>1. PICK done \in {tree, Effect(P[at])}, out \in BOOLEAN :
          tree' = [done EXCEPT !.stray = @ \/ out]
    BY FaultCases, Zenon
  <2>2. done \in Trees
    BY <1>2, EffectPatches, Zenon
  <2> QED BY <2>1, <2>2 DEF Trees
<1> QED BY <1>3, <1>4, <1>5, Zenon DEF ValueTypes, Trees

\* An edit changes one aspect of the repository.
LEMMA EditValues ==
  ASSUME ValueTypes, NEW a \in Aspects, Edit(a)
  PROVE  ValueTypes'
<1>1. tree' = tree /\ applied' = applied /\ before' = before /\ faults' = faults
  BY Zenon DEF Edit
<1>2. repo' = [repo EXCEPT ![a] = 1]
  BY Zenon DEF Edit
<1>3. repo' \in [Aspects -> {0, 1}]
  <2>1. repo \in [Aspects -> {0, 1}]
    BY Zenon DEF ValueTypes
  <2> HIDE DEF Aspects
  <2> QED BY <1>2, <2>1
<1> QED BY <1>1, <1>3, Zenon DEF ValueTypes

-----------------------------------------------------------------------------
(* A run in which nothing is raised.                                       *)

\* Only instructions without facts are skipped, so a run that raises
\* nothing records what its text says.
LEMMA StepSmooth ==
  ASSUME LabTypes, UnwindInv, SmoothInv, RunStep
  PROVE  SmoothInv'
<1>1. Text /\ at \in DOMAIN P /\ P[at].op \notin Marks
  BY StepCases
<1>2. P \in Seq(Instructions) /\ FactShape(P)
  BY TextShape, Zenon
<1>3. /\ FactsBefore(P, at + 1) = FactsBefore(P, at) \cup ({P[at].fact} \ {""})
      /\ AppliedBefore(P, at + 1) =
           IF P[at].op = "export" THEN {}
           ELSE IF P[at].op = "apply" THEN AppliedBefore(P, at) \cup P[at].set
           ELSE AppliedBefore(P, at)
      /\ OpenBefore(P, at + 1) =
           IF P[at].op = "open" THEN TRUE
           ELSE IF P[at].op = "close" THEN FALSE
           ELSE OpenBefore(P, at)
  BY <1>1, <1>2, FactsNext, AppliedNext, OpenNext
<1>4. SUFFICES ASSUME ~raised'
               PROVE  /\ facts' = FactsBefore(P, at')
                      /\ applied' = AppliedBefore(P, at')
                      /\ temp' = OpenBefore(P, at')
  BY <1>1, Zenon DEF SmoothInv, Text
<1>5. CASE Raising("error")
  BY <1>4, <1>5, Zenon DEF Raising, RaiseAt
<1>6. CASE Passing
  <2>1. /\ ~raised /\ at' = at + 1 /\ facts' = facts /\ applied' = applied
        /\ temp' = temp /\ ~(P[at].given \subseteq applied)
    BY <1>4, <1>6, Zenon DEF Passing, Skips
  <2>2. P[at].op = "reverse" /\ P[at].fact = ""
    BY <1>1, <1>2, <2>1, Zenon DEF SmoothInv, FactShape
  <2>3. {P[at].fact} \ {""} = {}
    BY <2>2
  <2>4. P[at].op \notin {"export", "apply", "open", "close"}
    BY <2>2
  <2> QED BY <1>3, <2>1, <2>3, <2>4 DEF SmoothInv
<1>7. CASE Doing
  <2>1. /\ ~raised /\ at' = at + 1
        /\ facts' = facts \cup ({P[at].fact} \ {""})
        /\ temp' = (temp \/ P[at].op = "open")
    BY <1>4, <1>7, Zenon DEF Doing
  <2>2. applied' = IF P[at].op = "export" THEN {}
                   ELSE IF P[at].op = "apply" THEN applied \cup P[at].set
                   ELSE applied
    BY <1>7 DEF Doing
  <2>3. P[at].op # "close"
    BY <1>1, Zenon DEF Marks
  <2>4. temp' = OpenBefore(P, at')
    BY <1>3, <2>1, <2>3, Zenon DEF SmoothInv, LabTypes, OpenBefore
  <2> QED BY <1>3, <2>1, <2>2, <2>4, Zenon DEF SmoothInv
<1> QED BY <1>5, <1>6, <1>7, StepCases, Zenon

\* A marker establishes nothing; the exit of a with statement removes the
\* temporary directory.
LEMMA MarkSmooth ==
  ASSUME LabTypes, UnwindInv, SmoothInv, RunMark
  PROVE  SmoothInv'
<1>1. Text /\ at \in DOMAIN P /\ P[at].op \in Marks
  BY MarkCases, Zenon
<1>2. P \in Seq(Instructions) /\ BlockShape(P)
  BY TextShape, Zenon
<1>3. /\ FactsBefore(P, at + 1) = FactsBefore(P, at) \cup ({P[at].fact} \ {""})
      /\ AppliedBefore(P, at + 1) =
           IF P[at].op = "export" THEN {}
           ELSE IF P[at].op = "apply" THEN AppliedBefore(P, at) \cup P[at].set
           ELSE AppliedBefore(P, at)
      /\ OpenBefore(P, at + 1) =
           IF P[at].op = "open" THEN TRUE
           ELSE IF P[at].op = "close" THEN FALSE
           ELSE OpenBefore(P, at)
  BY <1>1, <1>2, FactsNext, AppliedNext, OpenNext
<1>4. SUFFICES ASSUME ~raised'
               PROVE  /\ facts' = FactsBefore(P, at')
                      /\ applied' = AppliedBefore(P, at')
                      /\ temp' = OpenBefore(P, at')
  BY <1>1, Zenon DEF SmoothInv, Text
<1>5. ~raised /\ facts' = facts /\ applied' = applied /\ exc = "none" /\ ~noted
  BY <1>4, MarkCases, Zenon DEF UnwindInv
<1>6. at' = at + 1 /\ temp' = (temp /\ P[at].op # "close")
  BY <1>5, MarkCases, Zenon
<1>7. P[at].fact = "" /\ P[at].op \notin {"export", "apply", "open"}
  <2>1. P[at].fact = ""
    BY <1>1, <1>2, Zenon DEF BlockShape
  <2> QED BY <1>1, <2>1 DEF Marks
<1>8. {P[at].fact} \ {""} = {}
  BY <1>7
<1>9. temp' = OpenBefore(P, at')
  BY <1>3, <1>5, <1>6, <1>7, Zenon DEF SmoothInv, LabTypes, OpenBefore
<1> QED BY <1>3, <1>5, <1>6, <1>7, <1>8, <1>9 DEF SmoothInv

\* Facts are added by their instructions; after the comparison the
\* repository and the recorded state stay equal.
LEMMA StepFacts ==
  ASSUME LabTypes, FactInv, RunStep
  PROVE  FactInv'
<1>1. Text /\ at \in DOMAIN P
  BY StepCases
<1>2. FactShape(P)
  BY TextShape, Zenon
<1>3. repo' = repo
  BY StepCases, Zenon DEF Passing, Doing, Raising
<1>4. CASE Passing \/ Raising("error")
  <2>1. facts' = facts /\ before' = before
    BY <1>4, Zenon DEF Passing, Raising
  <2> QED BY <1>1, <1>3, <2>1, Zenon DEF FactInv, Text
<1>5. CASE Doing
  <2>1. /\ facts' = facts \cup ({P[at].fact} \ {""})
        /\ before' = IF P[at].op = "before" THEN repo ELSE before
        /\ Requires(P[at])
    BY <1>5, Zenon DEF Doing
  <2>2. facts' \subseteq {P[i].fact : i \in DOMAIN P} \ {""}
    BY <1>1, <2>1, Zenon DEF FactInv
  <2>3. ASSUME "repo" \in facts', NEW a \in Shared[lab]
        PROVE  repo[a] = before'[a]
    <3>1. CASE "repo" \in facts
      BY <2>1, <2>3, <3>1, Zenon DEF FactInv
    <3>2. CASE "repo" \notin facts
      <4>1. P[at].op = "after"
        BY <1>1, <1>2, <2>1, <2>3, <3>2, Zenon DEF FactShape
      <4>2. Requires(P[at]) = (\A b \in Shared[lab] : repo[b] = before[b])
        BY <4>1 DEF Requires
      <4> QED BY <2>1, <2>3, <4>1, <4>2, Zenon
    <3> QED BY <3>1, <3>2
  <2> QED BY <1>1, <1>3, <2>2, <2>3, Zenon DEF FactInv, Text
<1> QED BY <1>4, <1>5, StepCases, Zenon

\* The repository is edited only before it is compared for the last time.
LEMMA EditFacts ==
  ASSUME FactInv, NEW a \in Aspects, Edit(a)
  PROVE  FactInv'
<1>1. Text /\ facts' = facts /\ "repo" \notin facts
  BY Zenon DEF Edit, Text, P
<1> QED BY <1>1, Zenon DEF FactInv, Text

-----------------------------------------------------------------------------
(* The report.                                                             *)

\* Only in persistence does anything follow the report.
LEMMA ReportEnds ==
  ASSUME LabTypes, ReportInv, at \in DOMAIN P, report # {}
  PROVE  lab = "persist"
<1>1. PICK r \in 1..(at - 1) : P[r].op = "report"
  BY Zenon DEF ReportInv
<1>2. Len(P) \in Nat /\ DOMAIN P = 1..Len(P)
  BY TextShape, Zenon
<1>3. r \in DOMAIN P /\ r # Len(P)
  <2>1. at \in 1..Len(P)
    BY <1>2, Zenon
  <2>2. \A n \in Nat : \A j \in 1..n : \A k \in 1..(j - 1) : k \in 1..n /\ k # n
    OBVIOUS
  <2> QED BY <1>2, <2>1, <2>2, Zenon
<1> QED BY <1>1, <1>3, TextShape, Zenon

\* A step that writes no report keeps what one stands on.
LEMMA ReportStays ==
  ASSUME LabTypes, ReportInv, Text, at \in DOMAIN P,
         report' = report, facts \subseteq facts', at' \in (at + 1)..(Len(P) + 1)
  PROVE  ReportInv'
<1>1. CASE report = {}
  BY <1>1, Zenon DEF ReportInv
<1>2. CASE report # {}
  <2>1. lab = "persist"
    BY <1>2, ReportEnds
  <2>2. PICK r \in 1..(at - 1) : P[r].op = "report"
    BY <1>2, Zenon DEF ReportInv
  <2>3. r \in 1..(at' - 1)
    <3>1. Len(P) \in Nat /\ at \in 1..Len(P)
      BY TextShape, Zenon
    <3>2. \A n \in Nat : \A j \in 1..n : \A k \in (j + 1)..(n + 1) :
            \A q \in 1..(j - 1) : q \in 1..(k - 1)
      OBVIOUS
    <3> QED BY <3>1, <3>2, Zenon
  <2>4. report \subseteq facts'
    BY <1>2, Zenon DEF ReportInv
  <2> QED BY <2>1, <2>2, <2>3, <2>4, Zenon DEF ReportInv, Text
<1> QED BY <1>1, <1>2

\* The report is written with nothing raised, when every fact before it in
\* the text is established.
LEMMA StepReport ==
  ASSUME LabTypes, UnwindInv, SmoothInv, ReportInv, RunStep
  PROVE  ReportInv'
<1>1. Text /\ at \in DOMAIN P /\ P[at].op \notin Marks
  BY StepCases, Zenon
<1>2. P \in Seq(Instructions) /\ Len(P) \in Nat /\ DOMAIN P = 1..Len(P)
  BY TextShape
<1>3. at + 1 \in (at + 1)..(Len(P) + 1) /\ at \in 1..((at + 1) - 1)
  BY <1>1, <1>2
<1>4. CASE Passing \/ (Doing /\ P[at].op # "report")
  <2>1. report' = report /\ facts \subseteq facts' /\ at' = at + 1
    BY <1>4, Zenon DEF Passing, Doing
  <2> QED BY <1>1, <1>3, <2>1, ReportStays, Zenon
<1>5. CASE Raising("error")
  <2>1. report' = report /\ facts \subseteq facts'
    BY <1>5, Zenon DEF Raising
  <2>2. at' \in (at + 1)..(Len(P) + 1)
    BY <1>1, <1>5, RaiseLands, Zenon DEF Raising
  <2> QED BY <1>1, <2>1, <2>2, ReportStays, Zenon
<1>6. CASE Doing /\ P[at].op = "report"
  <2>1. ReportShape(P, States(lab, staticOnly))
    BY TextShape, Zenon
  <2>2. ~Unwound(P, at) /\ States(lab, staticOnly) \subseteq FactsBefore(P, at)
    BY <1>1, <1>6, <2>1, Zenon DEF ReportShape
  <2>3. exc = "none" /\ ~raised
    BY <2>2, Zenon DEF UnwindInv, Unwound
  <2>4. /\ report' = States(lab, staticOnly) /\ facts \subseteq facts'
        /\ exc' = exc /\ at' = at + 1
    BY <1>6, Zenon DEF Doing
  <2>5. report' \subseteq facts'
    BY <2>2, <2>3, <2>4, Zenon DEF SmoothInv
  <2>6. \E r \in 1..(at' - 1) : P[r].op = "report"
    BY <1>3, <1>6, <2>4, Zenon
  <2> QED BY <1>1, <2>3, <2>4, <2>5, <2>6, Zenon DEF ReportInv, Text
<1> QED BY <1>4, <1>5, <1>6, StepCases, Zenon

\* A marker writes no report.
LEMMA MarkReport ==
  ASSUME LabTypes, ReportInv, RunMark
  PROVE  ReportInv'
<1>1. Text /\ at \in DOMAIN P /\ report' = report /\ facts' = facts
  BY MarkCases, Zenon
<1>2. P \in Seq(Instructions) /\ Len(P) \in Nat /\ DOMAIN P = 1..Len(P)
  BY TextShape
<1>3. at + 1 \in (at + 1)..(Len(P) + 1)
  BY <1>1, <1>2
<1>4. at' \in (at + 1)..(Len(P) + 1)
  BY <1>1, <1>2, <1>3, LandingAhead, MarkCases, Zenon
<1> QED BY <1>1, <1>4, ReportStays, Zenon

\* An edit of the repository writes no report.
LEMMA EditReport ==
  ASSUME ReportInv, NEW a \in Aspects, Edit(a)
  PROVE  ReportInv'
<1>1. Text /\ facts' = facts /\ report' = report /\ at' = at /\ exc' = exc
  BY Zenon DEF Edit, Text, P
<1> QED BY <1>1, Zenon DEF ReportInv, Text

-----------------------------------------------------------------------------
(* The patches.                                                            *)

\* Where the text pends nothing new, an exception finds the same patches.
LEMMA JumpKeepsPatches ==
  ASSUME LabTypes, UnwindInv, SmoothInv, PatchInv, at \in DOMAIN P,
         lab \in Thorough, Jumps(P[at])
  PROVE  applied \cap Pending(P, Landing(P, at)) = applied \cap Pending(P, at)
<1>1. PatchShape(P)
  BY TextShape, Zenon
<1>2. /\ Pending(P, at) \subseteq Pending(P, Landing(P, at))
      /\ \A x \in Pending(P, Landing(P, at)) \ Pending(P, at) :
           ~Unwound(P, at) /\ x \notin AppliedBefore(P, at)
  BY <1>1, Zenon DEF PatchShape
<1>3. ~Unwound(P, at) => ~raised
  BY Zenon DEF UnwindInv, Unwound
<1> QED BY <1>2, <1>3, Zenon DEF SmoothInv

\* The instructions that are not git apply leave record and text in step.
LEMMA PlainKeepsPatches ==
  ASSUME LabTypes, UnwindInv, SmoothInv, PatchInv, lab \in Thorough,
         at \in DOMAIN P, P[at].op \notin {"apply", "reverse"}
  PROVE  Pending(P, at + 1) = Pending(P, at)
<1>1. P \in Seq(Instructions)
  BY TextShape
<1> QED BY <1>1, PendingNext, Zenon

\* The requirement of git apply holds: the export is as the record says.
LEMMA PatchesApply ==
  ASSUME LabTypes, ValueTypes, PatchInv, lab \in Thorough, ~patchFault,
         at \in DOMAIN P, ~Skips(P[at]), P[at].op \in {"apply", "reverse"}
  PROVE  Requires(P[at])
<1>1. PatchShape(P)
  BY TextShape, Zenon
<1>2. tree.patches = applied \cap Pending(P, at)
  BY Zenon DEF PatchInv
<1>3. CASE P[at].op = "apply"
  <2>1. P[at].set \cap Pending(P, at) = {}
    BY <1>1, <1>3, Zenon DEF PatchShape
  <2>2. Requires(P[at]) = (P[at].set \cap tree.patches = {})
    BY <1>3 DEF Requires
  <2> QED BY <1>2, <2>1, <2>2, Zenon
<1>4. CASE P[at].op = "reverse"
  <2>1. /\ P[at].given = P[at].set
        /\ P[at].set \subseteq Pending(P, at)
             \/ \A k \in DOMAIN P : P[k].op = "apply" => P[k].set \cap P[at].set = {}
    BY <1>1, <1>4, Zenon DEF PatchShape
  <2>2. P[at].set \subseteq applied
    BY <2>1, Zenon DEF Skips
  <2>3. P[at].set \subseteq Pending(P, at)
    <3>1. CASE P[at].set \subseteq Pending(P, at)
      BY <3>1
    <3>2. CASE \A k \in DOMAIN P : P[k].op = "apply" => P[k].set \cap P[at].set = {}
      <4>1. \A x \in P[at].set : x \notin applied
        BY <3>2, Zenon DEF PatchInv
      <4> QED BY <2>2, <4>1, Zenon
    <3> QED BY <2>1, <3>1, <3>2, Zenon
  <2>4. Requires(P[at]) = (P[at].set \subseteq tree.patches)
    BY <1>4 DEF Requires
  <2> QED BY <1>2, <2>2, <2>3, <2>4, Zenon
<1> QED BY <1>3, <1>4, Zenon

\* A step keeps export, record and text in agreement: git apply does what
\* it is asked, and an exception lands where the same patches are pending.
LEMMA StepPatches ==
  ASSUME LabTypes, ValueTypes, UnwindInv, SmoothInv, PatchInv, RunStep
  PROVE  PatchInv'
<1>1. Text /\ at \in DOMAIN P /\ P[at].op \notin Marks /\ patchFault' = patchFault
  BY StepCases, Zenon DEF Passing, Doing
<1>2. SUFFICES ASSUME lab \in Thorough
               PROVE  /\ \A x \in applied' : \E k \in DOMAIN P :
                           P[k].op = "apply" /\ x \in P[k].set
                      /\ ~patchFault => tree'.patches = applied' \cap Pending(P, at')
  BY <1>1, Zenon DEF PatchInv, Text
<1>3. PatchShape(P) /\ P \in Seq(Instructions)
  BY <1>2, TextShape, Zenon
<1>4. Pending(P, at + 1) = IF P[at].op = "apply" THEN Pending(P, at) \cup P[at].set
                           ELSE IF P[at].op = "reverse" THEN Pending(P, at) \ P[at].set
                           ELSE Pending(P, at)
  BY <1>1, <1>3, PendingNext, Zenon
<1>5. CASE Passing
  <2>1. applied' = applied /\ tree' = tree /\ at' = at + 1 /\ ~(P[at].given \subseteq
        applied)
    BY <1>5, Zenon DEF Passing, Skips
  <2>2. applied \cap Pending(P, at + 1) = applied \cap Pending(P, at)
    <3>1. P[at].op # "apply"
      <4>1. P[at].op = "apply" => P[at].given = {}
        BY <1>1, <1>3, Zenon DEF PatchShape
      <4> QED BY <2>1, <4>1, Zenon
    <3>2. CASE P[at].op = "reverse"
      <4>1. P[at].given = P[at].set /\ \E x \in Patches : P[at].set = {x}
        BY <1>1, <1>3, <3>2, Zenon DEF PatchShape
      <4>2. P[at].set \cap applied = {}
        BY <2>1, <4>1, Zenon
      <4>3. Pending(P, at + 1) = Pending(P, at) \ P[at].set
        BY <1>4, <3>2
      <4> QED BY <4>2, <4>3, Zenon
    <3> QED BY <1>4, <3>1, <3>2, Zenon
  <2> QED BY <2>1, <2>2, <1>2, Zenon DEF PatchInv
<1>6. CASE ~Requires(P[at]) /\ Raising("error") /\ tree' = tree
  <2>1. applied' = applied /\ ~Skips(P[at]) /\ RaiseAt("error")
    BY <1>6, Zenon DEF Raising
  <2>2. ASSUME ~patchFault
        PROVE  applied \cap Pending(P, at') = applied \cap Pending(P, at)
    <3>1. P[at].op \notin {"apply", "reverse"}
      BY <1>1, <1>2, <1>6, <2>1, <2>2, PatchesApply, Zenon
    <3>2. IF P[at].soft THEN at' = at + 1 ELSE at' = Landing(P, at)
      BY <1>1, <2>1, RaiseLands, Zenon
    <3>3. CASE P[at].soft
      BY <1>4, <3>1, <3>2, <3>3, Zenon
    <3>4. CASE ~P[at].soft
      <4>1. Jumps(P[at])
        BY <1>1, <3>1, <3>4, Zenon DEF Jumps
      <4> QED BY <1>1, <1>2, <3>2, <3>4, <4>1, JumpKeepsPatches, Zenon
    <3> QED BY <3>3, <3>4
  <2> QED BY <1>2, <1>6, <2>1, <2>2, Zenon DEF PatchInv
<1>7. CASE Doing
  <2>1. at' = at + 1 /\ tree' = Effect(P[at])
    BY <1>7, Zenon DEF Doing
  <2>2. applied' = IF P[at].op = "export" THEN {}
                   ELSE IF P[at].op = "apply" THEN applied \cup P[at].set
                   ELSE applied
    BY <1>7 DEF Doing
  <2>3. tree'.patches = IF P[at].op = "export" THEN {}
                        ELSE IF P[at].op = "apply" THEN tree.patches \cup P[at].set
                        ELSE IF P[at].op = "reverse" THEN tree.patches \ P[at].set
                        ELSE tree.patches
    <3>1. tree \in Trees /\ P[at] \in Instructions
      BY <1>1, InstrType, Zenon DEF ValueTypes, Trees
    <3> QED BY <2>1, <3>1, EffectPatches, Zenon
  <2>4. \A x \in applied' : \E k \in DOMAIN P : P[k].op = "apply" /\ x \in P[k].set
    BY <1>1, <1>2, <2>2, Zenon DEF PatchInv
  <2>5. ASSUME ~patchFault
        PROVE  tree'.patches = applied' \cap Pending(P, at + 1)
    <3>1. tree.patches = applied \cap Pending(P, at)
      BY <1>2, <2>5, Zenon DEF PatchInv
    <3> QED BY <1>4, <2>2, <2>3, <3>1, ExportFollowsRecord, Zenon
  <2> QED BY <2>1, <2>4, <2>5, Zenon
<1> QED BY <1>5, <1>6, <1>7, StepCases, Zenon

\* So does a fault of any call other than git apply.
LEMMA FaultPatches ==
  ASSUME LabTypes, ValueTypes, UnwindInv, SmoothInv, PatchInv,
         NEW e \in {"error", "interrupt"}, RunFault(e)
  PROVE  PatchInv'
<1>1. Text /\ at \in DOMAIN P /\ P[at].op \notin Marks /\ Raising(e)
  BY FaultCases, Zenon
<1>2. applied' = applied /\ RaiseAt(e)
  BY <1>1, Zenon DEF Raising
<1>3. SUFFICES ASSUME lab \in Thorough, ~patchFault'
               PROVE  tree'.patches = applied \cap Pending(P, at')
  BY <1>1, <1>2, Zenon DEF PatchInv, Text
<1>4. ~patchFault /\ e = "error" /\ P[at].op \notin {"apply", "reverse"}
  BY <1>3, FaultCases, Zenon
<1>5. tree.patches = applied \cap Pending(P, at)
  BY <1>3, <1>4, Zenon DEF PatchInv
<1>6. tree'.patches = tree.patches
  <2>1. PICK done \in {tree, Effect(P[at])}, out \in BOOLEAN :
          tree' = [done EXCEPT !.stray = @ \/ out]
    BY FaultCases, Zenon
  <2>2. tree \in Trees /\ P[at] \in Instructions
    BY <1>1, InstrType, Zenon DEF ValueTypes, Trees
  <2>3. done \in Trees
    BY <2>1, <2>2, EffectPatches, Zenon
  <2>4. tree'.patches = done.patches
    BY <2>1, <2>3 DEF Trees
  <2>5. P[at].op = "export" => tree.patches = {}
    <3>1. PatchShape(P)
      BY <1>3, TextShape, Zenon
    <3> QED BY <1>1, <1>5, <3>1, Zenon DEF PatchShape
  <2>6. Effect(P[at]).patches = tree.patches
    BY <1>4, <2>2, <2>5, EffectPatches, Zenon
  <2> QED BY <2>1, <2>4, <2>6, Zenon
<1>7. applied \cap Pending(P, at') = applied \cap Pending(P, at)
  <2>1. IF P[at].soft THEN at' = at + 1 ELSE at' = Landing(P, at)
    BY <1>1, <1>2, <1>4, RaiseLands, Zenon
  <2>2. CASE P[at].soft
    <3>1. Pending(P, at + 1) = Pending(P, at)
      BY <1>1, <1>3, <1>4, PlainKeepsPatches
    <3> QED BY <2>1, <2>2, <3>1, Zenon
  <2>3. CASE ~P[at].soft
    <3>1. Jumps(P[at])
      BY <1>1, <1>4, <2>3, Zenon DEF Jumps
    <3> QED BY <1>1, <1>3, <2>1, <2>3, <3>1, JumpKeepsPatches, Zenon
  <2> QED BY <2>2, <2>3
<1> QED BY <1>5, <1>6, <1>7, Zenon

\* So does an exception that leaves a cleanup or a with statement.
LEMMA MarkPatches ==
  ASSUME LabTypes, ValueTypes, UnwindInv, SmoothInv, PatchInv, RunMark
  PROVE  PatchInv'
<1>1. /\ Text /\ at \in DOMAIN P /\ P[at].op \in Marks
      /\ applied' = applied /\ tree' = tree /\ patchFault' = patchFault
  BY MarkCases, Zenon
<1>2. SUFFICES ASSUME lab \in Thorough
               PROVE  applied \cap Pending(P, at') = applied \cap Pending(P, at)
  BY <1>1, Zenon DEF PatchInv, Text
<1>3. \/ at' = at + 1
      \/ at' = Landing(P, at) /\ P[at].op \in {"end", "close"}
  BY MarkCases, Zenon
<1>4. Pending(P, at + 1) = Pending(P, at)
  <2>1. P[at].op \notin {"apply", "reverse"}
    BY <1>1, MarksAreNoPatches, Zenon
  <2> QED BY <1>1, <1>2, <2>1, PlainKeepsPatches, Zenon
<1>5. CASE at' = Landing(P, at) /\ P[at].op \in {"end", "close"}
  <2>1. Jumps(P[at])
    BY <1>1, <1>5, Zenon DEF Jumps
  <2> QED BY <1>1, <1>2, <1>5, <2>1, JumpKeepsPatches, Zenon
<1> QED BY <1>3, <1>4, <1>5, Zenon

\* An edit of the repository is none of the export's business.
LEMMA EditPatches ==
  ASSUME PatchInv, NEW a \in Aspects, Edit(a)
  PROVE  PatchInv'
<1>1. /\ Text /\ applied' = applied /\ tree' = tree /\ at' = at
      /\ patchFault' = patchFault
  BY Zenon DEF Edit, Text, P
<1> QED BY <1>1, Zenon DEF PatchInv, Text

\* The invariant holds before main() starts.
LEMMA RunInvInit == RunInit => RunInv
<1> SUFFICES ASSUME RunInit PROVE RunInv
  OBVIOUS
<1>1. /\ lab \in Runners /\ staticOnly \in BOOLEAN /\ at = 1 /\ exc = "none"
      /\ noted = FALSE /\ raised = FALSE /\ tree = Pristine /\ applied = {}
      /\ temp = FALSE /\ facts = {} /\ report = {} /\ left = FALSE
      /\ repo = [a \in Aspects |-> 0] /\ before = repo /\ faults = 0
      /\ patchFault = FALSE
  BY Zenon DEF RunInit
<1>2. Len(P) \in Nat
  <2>1. BlockShape(P)
    BY <1>1, ProgramsAssumption, Zenon DEF P
  <2>2. P \in Seq(Instructions)
    BY <2>1, Zenon DEF BlockShape
  <2> QED BY <2>2
<1>3. LabTypes
  <2>1. at \in 1..(Len(P) + 1)
    BY <1>1, <1>2
  <2> QED BY <1>1, <2>1, Zenon DEF LabTypes
<1>4. 1..(at - 1) = {}
  BY <1>1
<1>5. /\ FactsBefore(P, at) = {} /\ AppliedBefore(P, at) = {}
      /\ OpenBefore(P, at) = FALSE
  BY <1>4, Zenon DEF FactsBefore, AppliedBefore, OpenBefore
<1>6. ValueTypes
  <2>1. tree \in Trees
    BY <1>1 DEF Pristine, Trees
  <2>2. repo \in [Aspects -> {0, 1}]
    BY <1>1, Zenon
  <2>3. faults \in 0..MaxFaults
    BY <1>1, FaultsAssumption
  <2> QED BY <1>1, <2>1, <2>2, <2>3, Zenon DEF ValueTypes, Trees
<1>7. UnwindInv /\ SmoothInv /\ FactInv /\ ReportInv
  BY <1>1, <1>5, Zenon DEF UnwindInv, SmoothInv, FactInv, ReportInv
<1>8. PatchInv
  <2>1. tree.patches = {}
    BY <1>1 DEF Pristine
  <2> QED BY <1>1, <2>1, Zenon DEF PatchInv
<1> QED BY <1>3, <1>6, <1>7, <1>8, Zenon DEF RunInv

\* Every step of a run keeps the invariant.
LEMMA RunInvNext == RunInv /\ [RunNext]_runVars => RunInv'
<1> SUFFICES ASSUME RunInv, [RunNext]_runVars PROVE RunInv'
  OBVIOUS
<1> USE DEF RunInv
<1>1. CASE RunStep
  <2>1. LabTypes' /\ UnwindInv'
    BY <1>1, StepControl, Zenon
  <2>2. ValueTypes' /\ SmoothInv'
    BY <1>1, StepValues, StepSmooth, Zenon
  <2>3. FactInv' /\ ReportInv' /\ PatchInv'
    BY <1>1, StepFacts, StepReport, StepPatches, Zenon
  <2> QED BY <2>1, <2>2, <2>3, Zenon
<1>2. CASE RunMark
  <2>1. LabTypes' /\ UnwindInv'
    BY <1>2, MarkControl, Zenon
  <2>2. ValueTypes' /\ FactInv'
    <3>1. /\ Text /\ tree' = tree /\ applied' = applied /\ repo' = repo
          /\ before' = before /\ faults' = faults /\ facts' = facts
      BY <1>2, MarkCases, Zenon
    <3>2. ValueTypes'
      BY <3>1, Zenon DEF ValueTypes
    <3>3. FactInv'
      BY <3>1, Zenon DEF FactInv, Text
    <3> QED BY <3>2, <3>3
  <2>3. SmoothInv' /\ ReportInv' /\ PatchInv'
    BY <1>2, MarkSmooth, MarkReport, MarkPatches, Zenon
  <2> QED BY <2>1, <2>2, <2>3, Zenon
<1>3. ASSUME NEW e \in {"error", "interrupt"}, RunFault(e)
      PROVE  RunInv'
  <2>1. LabTypes' /\ UnwindInv'
    BY <1>3, FaultControl, Zenon
  <2>2. ValueTypes' /\ PatchInv'
    BY <1>3, FaultValues, FaultPatches, Zenon
  <2>3. /\ Text /\ at \in DOMAIN P /\ P[at].op \notin Marks /\ RaiseAt(e)
        /\ facts' = facts /\ report' = report /\ repo' = repo /\ before' = before
    BY <1>3, FaultCases, Zenon DEF Raising
  <2>4. SmoothInv'
    BY <2>3, Zenon DEF SmoothInv, RaiseAt
  <2>5. FactInv'
    BY <2>3, Zenon DEF FactInv, Text
  <2>6. ReportInv'
    <3>1. at' \in (at + 1)..(Len(P) + 1)
      BY <2>3, RaiseLands, Zenon
    <3> QED BY <2>3, <3>1, ReportStays, Zenon
  <2> QED BY <2>1, <2>2, <2>4, <2>5, <2>6, Zenon
<1>4. ASSUME NEW a \in Aspects, Edit(a)
      PROVE  RunInv'
  <2>1. LabTypes' /\ UnwindInv'
    BY <1>4, EditControl, Zenon
  <2>2. ValueTypes' /\ FactInv' /\ ReportInv' /\ PatchInv'
    BY <1>4, EditValues, EditFacts, EditReport, EditPatches, Zenon
  <2>3. SmoothInv'
    BY <1>4, Zenon DEF Edit, SmoothInv, P
  <2> QED BY <2>1, <2>2, <2>3, Zenon
<1>5. CASE UNCHANGED runVars
  <2>1. /\ Text /\ at' = at /\ exc' = exc /\ noted' = noted /\ raised' = raised
        /\ tree' = tree /\ applied' = applied /\ temp' = temp /\ facts' = facts
        /\ report' = report /\ left' = left /\ repo' = repo /\ before' = before
        /\ faults' = faults /\ patchFault' = patchFault
    BY <1>5, Zenon DEF runVars, Text, P
  <2>2. LabTypes' /\ ValueTypes' /\ UnwindInv'
    BY <2>1, Zenon DEF Text, LabTypes, ValueTypes, UnwindInv
  <2>3. SmoothInv' /\ FactInv' /\ ReportInv' /\ PatchInv'
    BY <2>1, Zenon DEF Text, SmoothInv, FactInv, ReportInv, PatchInv
  <2> QED BY <2>2, <2>3, Zenon
<1> QED BY <1>1, <1>2, <1>3, <1>4, <1>5, Zenon DEF RunNext

\* The end of a run that passed: nothing was raised.
LEMMA PassedSmooth ==
  ASSUME LabTypes, UnwindInv, Passed
  PROVE  ~raised /\ ~noted /\ at = Len(P) + 1
<1>1. Len(P) \in Nat /\ DOMAIN P = 1..Len(P) /\ BlockShape(P)
  BY TextShape, Zenon
<1>2. exc = "none" /\ at \notin DOMAIN P
  BY Zenon DEF Passed, Ended, Running, P
<1>3. at = Len(P) + 1
  BY <1>1, <1>2 DEF LabTypes
<1>4. ~noted
  BY <1>1, <1>2, <1>3, Zenon DEF UnwindInv, BlockShape
<1> QED BY <1>2, <1>3, <1>4, Zenon DEF UnwindInv

\* A report in a run that raises nothing has no cleanup around it, so
\* nothing was noted, raised or left.
LEMMA RunInvReport == RunInv => ReportTruthful
<1> SUFFICES ASSUME RunInv PROVE ReportTruthful
  OBVIOUS
<1>1. LabTypes /\ UnwindInv /\ ReportInv
  BY Zenon DEF RunInv
<1>2. ASSUME report # {}, exc = "none"
      PROVE  ~left
  <2>1. P \in Seq(Instructions) /\ ReportShape(P, States(lab, staticOnly))
    BY <1>1, TextShape, Zenon
  <2>2. PICK r \in 1..(at - 1) : P[r].op = "report"
    BY <1>1, <1>2, Zenon DEF ReportInv
  <2>3. ~Cleanup(P, at)
    BY <1>1, <2>1, <2>2, ReportIsOutside, Zenon DEF LabTypes
  <2> QED BY <1>1, <1>2, <2>3, Zenon DEF UnwindInv
<1> QED BY <1>1, <1>2, Zenon DEF ReportInv, ReportTruthful

\* A run that passed raised nothing, so it established all its text says,
\* and the comparison with the repository among that.
LEMMA RunInvPass == RunInv => PassIsEarned
<1> SUFFICES ASSUME RunInv PROVE PassIsEarned
  OBVIOUS
<1>1. LabTypes /\ UnwindInv /\ SmoothInv /\ FactInv /\ ValueTypes
  BY Zenon DEF RunInv
<1>2. P \in Seq(Instructions) /\ Len(P) \in Nat /\ DOMAIN P = 1..Len(P) /\ FactShape(P)
  BY <1>1, TextShape, Zenon
<1>3. Established = {P[i].fact : i \in DOMAIN P} \ {""}
  BY Zenon DEF Established, P
<1>4. RunTypeOK
  <2>1. DOMAIN tree = {"patches", "built", "stray"}
    BY <1>1 DEF ValueTypes
  <2>2. {noted, raised, temp, left, patchFault} \subseteq BOOLEAN
    BY <1>1, Zenon DEF LabTypes
  <2>3. {repo, before} \subseteq [Aspects -> {0, 1}]
    BY <1>1, Zenon DEF ValueTypes
  <2>4. facts \subseteq Established
    BY <1>1, <1>3, Zenon DEF FactInv
  <2>5. applied \subseteq (D \cup F \cup A \cup C \cup Audit) /\ faults \in 0..MaxFaults
    BY <1>1, Zenon DEF ValueTypes, Patches
  <2> QED BY <1>1, <2>1, <2>2, <2>3, <2>4, <2>5, Zenon DEF RunTypeOK, LabTypes, P
<1>5. ASSUME Passed
      PROVE  /\ facts = Established
             /\ ~raised /\ ~noted
             /\ ~temp /\ ~left
             /\ ~(lab = "roundtrip" /\ staticOnly) => ~Touched({"status", "image"})
             /\ lab \in HashesContents => ~Touched({"index", "tracked", "untracked"})
  <2>1. ~raised /\ ~noted /\ at = Len(P) + 1
    BY <1>1, <1>5, PassedSmooth
  <2>2. facts = Established
    <3>1. 1..(at - 1) = DOMAIN P
      BY <1>2, <2>1
    <3> QED BY <1>1, <1>3, <2>1, <3>1, Zenon DEF SmoothInv, FactsBefore
  <2>3. ~temp /\ ~left
    BY <1>1, <1>2, <2>1, Zenon DEF SmoothInv, FactShape, UnwindInv
  <2>4. ASSUME ~(lab = "roundtrip" /\ staticOnly)
        PROVE  \A a \in Shared[lab] : repo[a] = before[a]
    <3>1. \E i \in DOMAIN P : P[i].fact = "repo"
      BY <1>1, <2>4, TextShape, Zenon
    <3>2. "repo" \in facts
      BY <1>3, <2>2, <3>1
    <3> QED BY <1>1, <3>2, Zenon DEF FactInv
  <2>5. "roundtrip" \notin HashesContents
    BY DEF HashesContents
  <2>6. lab \in Runners
    BY <1>1, Zenon DEF LabTypes
  <2> QED BY <2>1, <2>2, <2>3, <2>4, <2>5, <2>6, ComparedAspects, Zenon DEF Touched
<1> QED BY <1>4, <1>5, Zenon DEF PassIsEarned

\* At the end of the text nothing is pending, so nothing is in the export.
LEMMA RunInvReverse == RunInv => FailuresStillReverse
<1> SUFFICES ASSUME RunInv, Ended, lab \in Thorough, ~patchFault
             PROVE  tree.patches = {}
  BY Zenon DEF FailuresStillReverse, Thorough
<1>1. LabTypes /\ PatchInv
  BY Zenon DEF RunInv
<1>2. Len(P) \in Nat /\ DOMAIN P = 1..Len(P) /\ PatchShape(P)
  BY <1>1, TextShape, Zenon
<1>3. at \notin DOMAIN P
  BY Zenon DEF Ended, Running, P
<1>4. at = Len(P) + 1
  BY <1>1, <1>2, <1>3 DEF LabTypes
<1> QED BY <1>1, <1>2, <1>4, Zenon DEF PatchInv, PatchShape

\* ReportTruthful, for every runner and any number of faults: what a report
\* states was established, with no process left while nothing is raised, and
\* a run that fails leaves no report, except in persistence (write_report()
\* and main() of each runner).
THEOREM ReportsAreTruthful == RunSpec => []ReportTruthful
<1> QED BY RunInvInit, RunInvNext, RunInvReport, PTL DEF RunSpec

\* PassIsEarned, for every runner and any number of faults: a runner exits
\* with status 0 only after all its checks, with its temporary directory
\* removed and the repository as it was (main() of each runner).
THEOREM PassesAreEarned == RunSpec => []PassIsEarned
<1> QED BY RunInvInit, RunInvNext, RunInvPass, PTL DEF RunSpec

\* FailuresStillReverse, for any number of faults: persistence, recovery and
\* copy-on-write leave no patch in the export, however they end, unless git
\* apply itself failed or the user interrupted (their finally clauses).
THEOREM PatchesAreReversed == RunSpec => []FailuresStillReverse
<1> QED BY RunInvInit, RunInvNext, RunInvReverse, PTL DEF RunSpec
=============================================================================
