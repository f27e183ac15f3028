----------------------------- MODULE Supervise ------------------------------
(***************************************************************************)
(* One call of a lab runner that starts a process group, from Popen to the *)
(* return or the exception the caller sees, for each runner and each kind  *)
(* of call: "cmd" (checked), "session" (a QEMU console) and "driver"       *)
(* (test-xv6.py).  The group is its leader (make, git, python3, or QEMU    *)
(* itself) and one worker (the compiler, or the QEMU that make or          *)
(* test-xv6.py started).  Members may ignore SIGTERM, exit by themselves   *)
(* or hang; every deadline of the code may pass; the user may interrupt    *)
(* the runner once, at any wait, also inside its own cleanup.              *)
(*                                                                         *)
(* Assumption: a member that was sent SIGKILL is gone before a deadline    *)
(* that started after the signal passes (five or ten seconds in the code). *)
(***************************************************************************)
EXTENDS RunnerStyles, FiniteSets

VARIABLES
    sLab,    \* the runner
    sKind,   \* what it started
    st,      \* the members: "run", "zombie" (exited, not yet waited for), "gone"
    sig,     \* the strongest signal each member has pending
    deaf,    \* the members that ignore SIGTERM
    code,    \* the leader's exit status: "ok" or "bad"
    sPc,     \* where the runner is
    ret,     \* where stop_group returns to
    why,     \* the exception on its way to the caller
    intr     \* where the interrupt arrived

supVars == <<sLab, sKind, st, sig, deaf, code, sPc, ret, why, intr>>

Members == {"leader", "worker"}

Calls == ((DOMAIN Checked) \X {"cmd"}) \cup ((DOMAIN Session) \X {"session"})
           \cup ((DOMAIN Driver) \X {"driver"})

(* How the call is supervised while it waits for output to end. *)
Guard == IF sKind = "cmd" THEN Checked[sLab] ELSE Driver[sLab]
Console == Session[sLab]

Alive(m)    == st[m] = "run"
(* os.killpg(pgid, 0): a zombie leader still counts *)
process_group_exists == st["leader"] # "gone" \/ Alive("worker")
(* process.poll() reaps an exited leader; None while it runs *)
Reaped      == [st EXCEPT !["leader"] = IF @ = "zombie" THEN "gone" ELSE @]
(* The pipe the runner reads closes when the last holder exits.  test-xv6.py *)
(* gives its QEMU a pipe of its own.                                         *)
OutputEnded == ~Alive("leader") /\ (sKind = "driver" \/ ~Alive("worker"))
Killpg(s)   == [m \in Members |->
                  IF Alive(m) /\ sig[m] # "KILL" THEN s ELSE sig[m]]
(* A deadline passes only once a SIGKILL sent before it has taken effect. *)
Settled     == \A m \in Members : Alive(m) => sig[m] # "KILL"

SupInit ==
    /\ \E c \in Calls : sLab = c[1] /\ sKind = c[2]
    /\ st = [m \in Members |->
               IF m = "worker" /\ sKind = "session" /\ Session[sLab].direct
               THEN "gone" ELSE "run"]
    /\ sig = [m \in Members |-> "none"]
    /\ deaf \in SUBSET Members
    /\ code = "ok"
    /\ sPc = IF sKind = "session" THEN "boot" ELSE "communicate"
    /\ ret = "done" /\ why = "none" /\ intr = "none"

Goto(where) == sPc' = where
Same == UNCHANGED <<sLab, sKind, deaf>>
(* stop_group(process), then on to r *)
CallStop(r) == sPc' = "term" /\ ret' = r

----------------------------------------------------------------------------
(* The processes. *)

(* The leader exits.  make waits for its child; test-xv6.py leaves its QEMU *)
(* behind.                                                                  *)
LeaderExits ==
    /\ Alive("leader") /\ sPc # "done"
    /\ sKind = "driver" \/ ~Alive("worker")
    /\ st' = [st EXCEPT !["leader"] = "zombie"]
    /\ code' \in {"ok", "bad"}
    /\ UNCHANGED <<sig, sPc, ret, why, intr>> /\ Same

WorkerExits ==
    /\ Alive("worker") /\ sPc # "done"
    /\ st' = [st EXCEPT !["worker"] = "gone"]
    /\ UNCHANGED <<sig, code, sPc, ret, why, intr>> /\ Same

(* A signal takes effect. *)
Dies(m) ==
    /\ Alive(m)
    /\ sig[m] = "KILL" \/ (sig[m] = "TERM" /\ m \notin deaf)
    /\ st' = [st EXCEPT ![m] = IF m = "leader" THEN "zombie" ELSE "gone"]
    /\ code' = IF m = "leader" THEN "bad" ELSE code
    /\ UNCHANGED <<sig, sPc, ret, why, intr>> /\ Same

----------------------------------------------------------------------------
(* stop_group / stop_process_group / stop_process. *)

(* What follows the stop when it raises: the finally clause of checked when *)
(* the stop was made by its except clause, else the caller.                 *)
Escape == IF ret = "done" THEN "done" ELSE "recheck"

(* Send SIGTERM; the leader-only copies first return if it has exited. *)
StopTerm ==
    /\ sPc = "term"
    /\ LET leaderOnly == Stop[sLab].scope = "leader"
       IN  IF (leaderOnly /\ ~Alive("leader")) \/
              (~process_group_exists /\ Stop[sLab].miss = "return")
           THEN /\ Goto(ret) /\ UNCHANGED sig
           ELSE /\ Goto(IF Alive("leader") THEN "reap" ELSE "grace")
                /\ sig' = Killpg("TERM")
    /\ st' = Reaped
    /\ UNCHANGED <<code, ret, why, intr>> /\ Same

(* A bug to detect: a wait without a time-out. *)
StopReapForever ==
    /\ sPc = "reap" /\ ~Alive("leader")
    /\ Goto(IF Stop[sLab].scope = "leader" THEN ret ELSE "grace")
    /\ st' = Reaped
    /\ UNCHANGED <<sig, code, ret, why, intr>> /\ Same

(* process.wait(timeout=5) *)
StopReap ==
    /\ sPc = "reap"
    /\ IF Alive("leader")
       THEN /\ Settled
            /\ Goto("reapKilled") /\ sig' = Killpg("KILL") /\ UNCHANGED st
       ELSE /\ Goto(IF Stop[sLab].scope = "leader" THEN ret ELSE "grace")
            /\ st' = Reaped /\ UNCHANGED sig
    /\ UNCHANGED <<code, ret, why, intr>> /\ Same

(* process.wait() after SIGKILL *)
StopReapKilled ==
    /\ sPc = "reapKilled" /\ ~Alive("leader")
    /\ Goto(IF Stop[sLab].scope = "leader" THEN ret ELSE "grace")
    /\ st' = Reaped
    /\ UNCHANGED <<sig, code, ret, why, intr>> /\ Same

(* Poll until the group is gone or five seconds have passed. *)
StopGrace ==
    /\ sPc = "grace"
    /\ IF process_group_exists
       THEN /\ Settled
            /\ sig' = Killpg("KILL")
            /\ Goto(IF Stop[sLab].final = "grace" THEN "grace2" ELSE "check")
       ELSE Goto("check") /\ UNCHANGED sig
    /\ UNCHANGED <<st, code, ret, why, intr>> /\ Same

StopGrace2 ==
    /\ sPc = "grace2"
    /\ process_group_exists => Settled
    /\ Goto("check")
    /\ UNCHANGED <<st, sig, code, ret, why, intr>> /\ Same

(* require(not process_group_exists(...)) *)
StopCheck ==
    /\ sPc = "check"
    /\ IF process_group_exists
       THEN why' = "error" /\ Goto(Escape)
       ELSE Goto(ret) /\ UNCHANGED why
    /\ UNCHANGED <<st, sig, code, ret, intr>> /\ Same

----------------------------------------------------------------------------
(* checked and run_driver. *)

(* The finally clause, entered with or without an exception. *)
FinallyClause ==
    CASE Guard.finally = "none"   -> Goto("done") /\ UNCHANGED ret
      [] Guard.finally = "ifLeft" -> Goto("recheck") /\ UNCHANGED ret
      [] Guard.finally = "stop"   -> CallStop("done")

(* process.communicate(timeout=...) returns: the output has ended and the *)
(* leader has been waited for.  Every copy then runs its finally clause.  *)
CommunicateReturns ==
    /\ sPc = "communicate" /\ OutputEnded
    /\ st' = Reaped
    /\ FinallyClause /\ UNCHANGED <<sig, code, why, intr>> /\ Same

(* The watchdog expires.  subprocess.run kills its direct child. *)
CommunicateExpires ==
    /\ sPc = "communicate" /\ ~OutputEnded
    /\ why' = "error"
    /\ CASE Guard.expiry = "kill" ->
              /\ sig' = [sig EXCEPT !["leader"] =
                        IF Alive("leader") THEN "KILL" ELSE @]
              /\ Goto("runKilled") /\ UNCHANGED ret
         [] Guard.expiry = "stop" ->
              CallStop(IF Guard.drain THEN "drain" ELSE "recheck") /\ UNCHANGED sig
         [] Guard.expiry = "staged" ->
              sig' = Killpg("TERM") /\ Goto("drainTerm") /\ UNCHANGED ret
         [] Guard.expiry = "raise" -> FinallyClause /\ UNCHANGED sig
    /\ UNCHANGED <<st, code, intr>> /\ Same

(* subprocess.run waits for the child it killed and raises. *)
RunReaps ==
    /\ sPc = "runKilled" /\ ~Alive("leader")
    /\ st' = Reaped
    /\ Goto("done")
    /\ UNCHANGED <<sig, code, ret, why, intr>> /\ Same

(* The stop made by checked's except clause is followed by a communicate() *)
(* without a deadline; then the finally clause.                            *)
Drain ==
    /\ sPc = "drain" /\ OutputEnded
    /\ Goto("recheck")
    /\ UNCHANGED <<st, sig, code, ret, why, intr>> /\ Same

(* finally: if process.poll() is None or process_group_exists(...): stop *)
Recheck ==
    /\ sPc = "recheck"
    /\ st' = Reaped
    /\ IF Alive("leader") \/ Alive("worker")
       THEN CallStop("done")
       ELSE Goto("done") /\ UNCHANGED ret
    /\ UNCHANGED <<sig, code, why, intr>> /\ Same

(* process-lifecycle's driver: TERM, a bounded drain, KILL, another, stop. *)
DrainTerm ==
    /\ sPc = "drainTerm"
    /\ IF OutputEnded
       THEN CallStop("done") /\ st' = Reaped /\ UNCHANGED sig
       ELSE /\ sig' = Killpg("KILL") /\ Goto("drainKill")
            /\ UNCHANGED <<st, ret>>
    /\ UNCHANGED <<code, why, intr>> /\ Same

DrainKill ==
    /\ sPc = "drainKill"
    /\ OutputEnded \/ Settled
    /\ st' = Reaped
    /\ CallStop("done")
    /\ UNCHANGED <<sig, code, why, intr>> /\ Same

----------------------------------------------------------------------------
(* A console session. *)

GuestUp == IF Console.direct THEN Alive("leader") ELSE Alive("worker")
ConsoleEnded == ~Alive("leader") /\ ~Alive("worker")

(* recovery's kill(): SIGKILL through the pidfd, then a wait *)
PidKill ==
    /\ sig' = [sig EXCEPT !["leader"] = IF Alive("leader") THEN "KILL" ELSE @]
    /\ Goto("pidKilled") /\ UNCHANGED ret

(* Where an exception raised while the console is open leads: a stop, a     *)
(* SIGKILL of the leader, or the orderly quit that close() tries first.     *)
(* recovery's crash() ends in kill(), its boot() in close().                *)
Unwind(booting, e) ==
    /\ why' = e
    /\ CASE Console.quit = "pidfd" ->
              PidKill \/ (~booting /\ Goto("quit") /\ UNCHANGED <<sig, ret>>)
         [] booting /\ Console.boot = "Exception" /\ e = "interrupt" ->
              Goto("done") /\ UNCHANGED <<sig, ret>>
         [] ~booting /\ Console.quit = "swallow" /\ Alive("leader") ->
              Goto("quit") /\ UNCHANGED <<sig, ret>>
         [] OTHER -> CallStop("done") /\ UNCHANGED sig

(* The first prompt, and then every transcript, arrives as expected. *)
ConsolePrompt ==
    /\ sPc = "boot" /\ GuestUp
    /\ Goto("talk")
    /\ UNCHANGED <<st, sig, code, ret, why, intr>> /\ Same

ConsoleDone ==
    /\ sPc = "talk" /\ GuestUp
    /\ \/ Console.quit = "none" /\ CallStop("done") /\ UNCHANGED sig
       \/ Console.quit # "none" /\ Goto("quit") /\ UNCHANGED <<sig, ret>>
       \/ Console.quit = "pidfd" /\ PidKill
    /\ UNCHANGED <<st, code, why, intr>> /\ Same

(* The output closes, a watchdog expires or a transcript is wrong. *)
ConsoleFails ==
    /\ sPc \in {"boot", "talk"}
    /\ Unwind(sPc = "boot", "error")
    /\ UNCHANGED <<st, code, intr>> /\ Same

(* Ctrl-A x was written; process.wait(timeout=10). *)
QuitReaps ==
    /\ sPc = "quit" /\ ~Alive("leader")
    /\ st' = Reaped
    /\ why' = IF Console.status /\ code = "bad" THEN "error" ELSE why
    /\ IF Console.quit = "pidfd"
       THEN Goto("done") /\ UNCHANGED ret
       ELSE CallStop("done")
    /\ UNCHANGED <<sig, code, intr>> /\ Same

QuitExpires ==
    /\ sPc = "quit" /\ Alive("leader")
    /\ why' = IF Console.quit = "raise" THEN "error" ELSE why
    /\ CallStop("done")
    /\ UNCHANGED <<st, sig, code, intr>> /\ Same

(* process.wait(timeout=10) after the pidfd signal *)
PidReaps ==
    /\ sPc = "pidKilled" /\ ~Alive("leader")
    /\ st' = Reaped
    /\ Goto("done")
    /\ UNCHANGED <<sig, code, ret, why, intr>> /\ Same

----------------------------------------------------------------------------
(* KeyboardInterrupt at a wait. *)
Waits == {"communicate", "runKilled", "drain", "drainTerm", "drainKill",
          "boot", "talk", "quit", "pidKilled",
          "reap", "reapKilled", "grace", "grace2"}
StopWaits == {"reap", "reapKilled", "grace", "grace2"}

Interrupt ==
    /\ intr = "none" /\ sPc \in Waits
    /\ intr' = sPc
    /\ \/ /\ sPc \in {"communicate", "drain", "drainTerm", "drainKill"}
          /\ why' = "interrupt"
          /\ IF Guard.expiry = "kill"
             THEN /\ sig' = [sig EXCEPT !["leader"] =
                               IF Alive("leader") THEN "KILL" ELSE @]
                  /\ Goto("runKilled") /\ UNCHANGED ret
             ELSE FinallyClause /\ UNCHANGED sig
       \/ /\ sPc = "runKilled"
          /\ why' = "interrupt" /\ UNCHANGED <<sPc, sig, ret>>
       \/ /\ sPc \in {"boot", "talk"}
          /\ Unwind(sPc = "boot", "interrupt")
       \/ /\ sPc = "quit" /\ Console.quit = "raise"
          /\ why' = "interrupt" /\ CallStop("done") /\ UNCHANGED sig
       \/ /\ (sPc = "quit" /\ Console.quit # "raise") \/ sPc = "pidKilled"
          /\ why' = "interrupt" /\ Goto("done") /\ UNCHANGED <<sig, ret>>
       \/ /\ sPc \in StopWaits
          /\ why' = "interrupt" /\ Goto(Escape) /\ UNCHANGED <<sig, ret>>
    /\ UNCHANGED <<st, code>> /\ Same

Stopping == StopTerm \/ StopReap \/ StopReapKilled \/ StopGrace \/ StopGrace2
              \/ StopCheck
Waiting == CommunicateReturns \/ CommunicateExpires \/ RunReaps \/ Drain
             \/ Recheck \/ DrainTerm \/ DrainKill
Talking == ConsolePrompt \/ ConsoleDone \/ ConsoleFails \/ QuitReaps
             \/ QuitExpires \/ PidReaps
Runner == Stopping \/ Waiting \/ Talking

SupNext == Runner \/ Interrupt \/ LeaderExits \/ WorkerExits
             \/ \E m \in Members : Dies(m)

SupSpec == SupInit /\ [][SupNext]_supVars

(* The runner is scheduled and its deadlines pass; signals take effect. *)
SupFairness == WF_supVars(Runner) /\ \A m \in Members : WF_supVars(Dies(m))

----------------------------------------------------------------------------
Returned == sPc = "done"
(* What the caller sees: a command's or driver's exit status is checked too. *)
Result   == IF why # "none" THEN why
            ELSE IF sKind # "session" /\ code = "bad" THEN "error" ELSE "ok"
(* Something goes on running, and nothing has been sent that will end it. *)
Survives(m) == Alive(m) /\ sig[m] # "KILL"

SupTypeOK ==
    /\ <<sLab, sKind>> \in Calls
    /\ st \in [Members -> {"run", "zombie", "gone"}] /\ st["worker"] # "zombie"
    /\ sig \in [Members -> {"none", "TERM", "KILL"}]
    /\ deaf \subseteq Members /\ code \in {"ok", "bad"}
    /\ sPc \in Waits \cup {"term", "check", "recheck", "done"}
    /\ ret \in {"drain", "recheck", "done"}
    /\ why \in {"none", "error", "interrupt"} /\ intr \in Waits \cup {"none"}

(* A call that returns normally has left nothing running, whatever ignored *)
(* SIGTERM, hung or was orphaned, and only the calls MayLeave names leave a *)
(* process behind when they raise.  An interrupt does so only where it      *)
(* lands inside the stop itself, in the boot of the consoles that catch     *)
(* Exception only, in an orderly quit outside a try block, or in            *)
(* subprocess.run.  A stop that polls again after its second SIGKILL never  *)
(* complains of a group that is on its way out; the copies in filesystem,   *)
(* device-io and persistence, which test at once, may.                      *)
NothingLeftBehind ==
    /\ SupTypeOK
    /\ Returned /\ (\E m \in Members : Survives(m)) => MayLeave(sLab, sKind, Result)
    /\ Returned /\ why = "interrupt" /\ (\E m \in Members : Survives(m)) =>
         \/ intr \in StopWaits
         \/ intr = "boot" /\ Console.boot = "Exception"
         \/ intr = "quit" /\ Console.quit \in {"swallow", "pidfd"}
         \/ sKind = "cmd" /\ Guard.expiry = "kill"
         \/ sKind = "session" /\ Stop[sLab].scope = "leader"
    /\ sPc = "check" /\ Stop[sLab].final = "grace" => ~process_group_exists

(* Every call ends for good: no deaf, hung or orphaned process holds it up. *)
CallEnds == <>[]Returned
=============================================================================
