---------------------------- MODULE RunnerStyles ----------------------------
(***************************************************************************)
(* How each lab runner of docs/xv6-tutorial/resources supervises the       *)
(* processes it starts.  Every runner carries its own copy of the same     *)
(* four pieces (stop a process group, run a command, talk to a QEMU        *)
(* console, run test-xv6.py), and the copies differ.  One record per copy  *)
(* says where it branches; Supervise interprets the records.               *)
(*                                                                         *)
(* stop:    miss    what a failed first killpg does: "return" at once, or  *)
(*                  "pass" on to the waits                                 *)
(*          final   what follows the second SIGKILL: "grace" (poll for     *)
(*                  five seconds), or "check" (test the group at once)     *)
(*          scope   "group" ends by testing that the group is gone;        *)
(*                  "leader" returns as soon as the leader is reaped, and  *)
(*                  does nothing when the leader has already exited        *)
(* checked and driver:                                                     *)
(*          expiry  what an expired watchdog does: "kill" the direct child *)
(*                  (subprocess.run, which starts no new group), "stop"    *)
(*                  the group and raise, "raise" at once, or "staged": a   *)
(*                  TERM and a KILL of the group, each with a bounded wait *)
(*          drain   a communicate() without a deadline follows that stop   *)
(*          finally "none", "ifLeft" (stop if the leader or the group is   *)
(*                  still there) or "stop"                                 *)
(* session: boot    which exceptions stop the group while the console has  *)
(*                  not shown its first prompt: "any" or "Exception"       *)
(*          quit    how a session ends: "raise" (Ctrl-A x, and a wait that *)
(*                  fails the run when it times out), "swallow" (the same, *)
(*                  on every path, time-outs ignored), "none" (stop only), *)
(*                  "pidfd" (Ctrl-A x, or SIGKILL through a pidfd)         *)
(*          direct  QEMU is the leader, not a child of make                *)
(*          status  the exit status of the leader is checked after quit    *)
(***************************************************************************)

(* communication-and-io *)
CommStop    == [miss |-> "pass", final |-> "grace", scope |-> "group"]
CommChecked == [expiry |-> "stop", drain |-> TRUE, finally |-> "ifLeft"]
CommSession == [boot |-> "any", quit |-> "raise", direct |-> FALSE, status |-> FALSE]
CommDriver  == [expiry |-> "stop", drain |-> TRUE, finally |-> "ifLeft"]

(* add-system-call *)
AddStop    == [miss |-> "return", final |-> "grace", scope |-> "group"]
AddChecked == [expiry |-> "kill", drain |-> FALSE, finally |-> "none"]
AddSession == [boot |-> "any", quit |-> "raise", direct |-> FALSE, status |-> TRUE]
AddDriver  == [expiry |-> "raise", drain |-> FALSE, finally |-> "stop"]

(* boot-traps-and-interrupts *)
BootStop    == [miss |-> "return", final |-> "grace", scope |-> "group"]
BootChecked == [expiry |-> "kill", drain |-> FALSE, finally |-> "none"]
BootSession == [boot |-> "any", quit |-> "raise", direct |-> FALSE, status |-> TRUE]
BootDriver  == [expiry |-> "raise", drain |-> FALSE, finally |-> "stop"]

(* syscall-roundtrip: it has no driver *)
RoundtripStop    == [miss |-> "return", final |-> "grace", scope |-> "leader"]
RoundtripChecked == [expiry |-> "kill", drain |-> FALSE, finally |-> "none"]
RoundtripSession == [boot |-> "any", quit |-> "raise", direct |-> TRUE, status |-> TRUE]

(* user-program-and-abi: a session and nothing else *)
HelloStop    == [miss |-> "return", final |-> "grace", scope |-> "leader"]
HelloSession == [boot |-> "any", quit |-> "raise", direct |-> FALSE, status |-> TRUE]

(* process-lifecycle *)
LifecycleStop    == [miss |-> "return", final |-> "grace", scope |-> "group"]
LifecycleChecked == [expiry |-> "kill", drain |-> FALSE, finally |-> "none"]
LifecycleSession == [boot |-> "any", quit |-> "none", direct |-> FALSE, status |-> FALSE]
LifecycleDriver  == [expiry |-> "staged", drain |-> FALSE, finally |-> "stop"]

(* scheduling-and-synchronization *)
SchedStop    == [miss |-> "return", final |-> "grace", scope |-> "group"]
SchedChecked == [expiry |-> "stop", drain |-> TRUE, finally |-> "ifLeft"]
SchedSession == [boot |-> "any", quit |-> "none", direct |-> FALSE, status |-> FALSE]
SchedDriver  == [expiry |-> "stop", drain |-> FALSE, finally |-> "ifLeft"]

(* virtual-memory *)
VmStop    == [miss |-> "return", final |-> "grace", scope |-> "group"]
(* A bug to detect: no finally clause. *)
VmCheckedBare == [expiry |-> "raise", drain |-> FALSE, finally |-> "none"]
VmChecked == [expiry |-> "stop", drain |-> TRUE, finally |-> "ifLeft"]
VmSession == [boot |-> "any", quit |-> "none", direct |-> FALSE, status |-> FALSE]
VmDriver  == [expiry |-> "stop", drain |-> FALSE, finally |-> "ifLeft"]

(* copy-on-write *)
CowStop    == [miss |-> "return", final |-> "grace", scope |-> "group"]
CowChecked == [expiry |-> "stop", drain |-> TRUE, finally |-> "ifLeft"]
CowSession == [boot |-> "any", quit |-> "none", direct |-> FALSE, status |-> FALSE]
CowDriver  == [expiry |-> "stop", drain |-> FALSE, finally |-> "ifLeft"]

(* filesystem *)
FsStop    == [miss |-> "pass", final |-> "check", scope |-> "group"]
FsChecked == [expiry |-> "raise", drain |-> FALSE, finally |-> "stop"]
FsSession == [boot |-> "Exception", quit |-> "swallow", direct |-> FALSE, status |-> FALSE]
FsDriver  == [expiry |-> "raise", drain |-> FALSE, finally |-> "stop"]

(* device-io *)
DeviceStop    == [miss |-> "pass", final |-> "check", scope |-> "group"]
DeviceChecked == [expiry |-> "raise", drain |-> FALSE, finally |-> "stop"]
DeviceSession == [boot |-> "Exception", quit |-> "swallow", direct |-> FALSE, status |-> FALSE]
DeviceDriver  == [expiry |-> "raise", drain |-> FALSE, finally |-> "stop"]

(* persistence; recovery borrows all but the session *)
PersistStop    == [miss |-> "pass", final |-> "check", scope |-> "group"]
PersistChecked == [expiry |-> "raise", drain |-> FALSE, finally |-> "stop"]
PersistSession == [boot |-> "Exception", quit |-> "swallow", direct |-> FALSE, status |-> FALSE]
PersistDriver  == [expiry |-> "raise", drain |-> FALSE, finally |-> "stop"]
RecoverySession == [boot |-> "any", quit |-> "pidfd", direct |-> TRUE, status |-> FALSE]

(* All of them, by runner. *)
Stop ==
    [comm |-> CommStop, add |-> AddStop, boot |-> BootStop,
     roundtrip |-> RoundtripStop, hello |-> HelloStop,
     lifecycle |-> LifecycleStop, sched |-> SchedStop, vm |-> VmStop,
     cow |-> CowStop, fs |-> FsStop, device |-> DeviceStop,
     persist |-> PersistStop, recovery |-> PersistStop]
Checked ==
    [comm |-> CommChecked, add |-> AddChecked, boot |-> BootChecked,
     roundtrip |-> RoundtripChecked, lifecycle |-> LifecycleChecked,
     sched |-> SchedChecked, vm |-> VmChecked, cow |-> CowChecked,
     fs |-> FsChecked, device |-> DeviceChecked,
     persist |-> PersistChecked, recovery |-> PersistChecked]
Session ==
    [comm |-> CommSession, add |-> AddSession, boot |-> BootSession,
     roundtrip |-> RoundtripSession, hello |-> HelloSession,
     lifecycle |-> LifecycleSession, sched |-> SchedSession,
     vm |-> VmSession, cow |-> CowSession, fs |-> FsSession,
     device |-> DeviceSession, persist |-> PersistSession,
     recovery |-> RecoverySession]
Driver ==
    [comm |-> CommDriver, add |-> AddDriver, boot |-> BootDriver,
     lifecycle |-> LifecycleDriver, sched |-> SchedDriver, vm |-> VmDriver,
     cow |-> CowDriver, fs |-> FsDriver, device |-> DeviceDriver,
     persist |-> PersistDriver, recovery |-> PersistDriver]

Labs == DOMAIN Stop

(* What a caller may assume of a call: the results after which members of *)
(* the group may go on running.                                           *)
MayLeave(l, k, res) ==
    \/ res = "interrupt"
    \/ res = "error" /\ k = "cmd" /\ Checked[l].expiry = "kill"
    \/ res = "error" /\ k = "session" /\ Stop[l].scope = "leader"
                     /\ ~Session[l].direct
=============================================================================
