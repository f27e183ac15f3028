------------------------------- MODULE SyncLab -------------------------------
(***************************************************************************)
(* The lost-wakeup experiment of the scheduling lab.  The guest            *)
(* (syncproject.patch: kernel/syncproject.c, the hooks in kernel/proc.c    *)
(* and user/schedtrace.c) steers a waiter and a producer through sleep()   *)
(* and wakeup() with spin gates on two harts; the host (run-lab.py)        *)
(* accepts exactly one order of events and checks what each one saw.  Can  *)
(* a schedule that the gates allow be refused, or hang?                    *)
(*                                                                         *)
(* A thread runs a list of instructions, one atomic access or lock         *)
(* operation each.  A record takes two: record_event() claims a slot and   *)
(* reads the locks later.                                                  *)
(***************************************************************************)
EXTENDS Integers, Sequences, FiniteSets

Harts   == {0, 1}
Threads == {"parent", "producer", "waiter"}
None    == -1
Sched(h) == IF h = 0 THEN "sched0" ELSE "sched1"

VARIABLES syMode,   \* "fixed" or "broken"
          syAt,     \* thread -> next instruction
          syRun,    \* hart -> thread, or what its scheduler is at
          syState,  \* thread -> process state
          plock,    \* the hart that holds the waiter's p->lock
          pushed,   \* thread -> push_off() calls outstanding
          chan,     \* the waiter's p->chan is the project's channel
          project,  \* struct syncprojectstate: gates set, lock, harts, counts, trace
          pending,  \* thread or hart -> record not yet filled
          console   \* what schedtrace printed: bad state, final line, outcome

syVars == <<syMode, syAt, syRun, syState, plock, pushed, chan, project, pending, console>>

UNUSED == 0
SLEEPING == 2
RUNNABLE == 3
RUNNING == 4
ZOMBIE == 5

----------------------------------------------------------------------------
(* The programs. *)
Ins(op, x)  == [op |-> op, x |-> x]
Rec(kind)   == Ins("rec", kind)    \* record_event(kind, 0, -1, 0, 0)
RecOpen(kind) == Ins("recopen", kind) \* of the waiter, without its p->lock
RecHeld(kind) == Ins("recheld", kind) \* of the waiter, with its p->lock
Set(f)      == Ins("set", f)
Reset(f)    == Ins("reset", f)
Spin(f)     == Ins("spin", f)
Acquire(l)  == Ins("acquire", l)
Release(l)  == Ins("release", l)
Do(op)      == Ins(op, "")
Wakeup      == <<Do("scan"), Do("woken")>>

syncprojectproduce(fixed) ==
    <<Do("push"), Rec("PRODUCER_ARMED"), Set("producer_started")>>
    \o (IF fixed
        THEN <<Spin("wait_plock_ready"), Rec("PRODUCER_ATTEMPT"), Set("producer_attempt")>>
        ELSE <<Spin("condition_released"), Rec("PRODUCER_ATTEMPT")>>)
    \o <<Acquire("cond"), Spin("condition_released"), Rec("PRODUCER_ACQUIRE"),
         Set("producer_acquired")>>
    \o (IF fixed THEN <<Spin("sleep_published")>> ELSE <<>>)
    \o <<Set("ready"), Rec("PRODUCER_READY")>> \o Wakeup
    \o <<Rec("WAKE_DONE"), Set("wake_done")>>
    \o (IF fixed THEN <<Spin("origin_skip_seen"), Rec("MIGRATE_RELEASE"),
                        Set("resume_allowed")>> ELSE <<>>)
    \o <<Release("cond"), Do("pop"), Do("exit")>>

syncproject_sleep_published ==
    <<RecHeld("WAIT_PUBLISH"), Reset("origin_skip_seen"), Set("force_migrate"),
      Set("sleep_published")>>
syncproject_sleep_resumed == <<Spin("resume_allowed"), RecHeld("WAIT_RESUME")>>

(* sleep(&channel, &condition) with its hooks. *)
syncproject_sleep_before_release ==
    <<RecHeld("WAIT_PLOCK"), Set("wait_plock_ready"), Spin("producer_attempt"),
      RecHeld("WAIT_RELEASE_BOUNDARY")>>
(* Mutant: the waiter does not hold back until the producer has the lock. *)
syncproject_sleep_after_releaseOpen == <<Set("condition_released")>>
syncproject_sleep_after_release ==
    <<Set("condition_released"), Spin("producer_acquired")>>
fixed_sleep ==
    <<Acquire("plock")>> \o syncproject_sleep_before_release \o <<Release("cond")>>
    \o syncproject_sleep_after_release \o <<Do("publish")>>
    \o syncproject_sleep_published \o <<Do("sched")>> \o syncproject_sleep_resumed
    \o <<Do("unchan"), Release("plock"), Acquire("cond")>>

broken_sleep ==
    <<Do("push"), Release("cond"), RecOpen("WAIT_RELEASED"), Set("condition_released"),
      Spin("wake_done"), Acquire("plock"), Do("pop"), Do("publish")>>
    \o syncproject_sleep_published \o <<Do("sched")>> \o syncproject_sleep_resumed
    \o <<Do("unchan"), Release("plock"), Acquire("cond")>>

(* The loop: "test" leaves it when ready is set, "loop" goes back to it. *)
syncprojectwait(fixed) ==
    <<Do("claim"), Do("origin"), Acquire("cond"), RecOpen("WAIT_CHECK"), Do("test")>>
    \o (IF fixed THEN fixed_sleep ELSE broken_sleep)
    \o <<Do("loop"), RecOpen("WAIT_RECHECK"), Release("cond"), Do("exit")>>

(* Mutant: the origin hart is waited for before it is told to look. *)
syncprojectrescueHasty ==
    <<Do("oracle"), Release("plock"), Reset("wake_done"), Set("rescuing"),
      Rec("RESCUE_BEGIN")>> \o Wakeup
    \o <<Rec("RESCUE_DONE"), Spin("origin_skip_seen"), Set("wake_done"),
         Rec("MIGRATE_RELEASE"), Set("resume_allowed"), Reset("rescuing")>>
syncprojectrescue ==
    <<Do("oracle"), Release("plock"), Reset("wake_done"), Set("rescuing"),
      Rec("RESCUE_BEGIN")>> \o Wakeup
    \o <<Rec("RESCUE_DONE"), Set("wake_done"), Spin("origin_skip_seen"),
         Rec("MIGRATE_RELEASE"), Set("resume_allowed"), Reset("rescuing")>>

run_case(fixed) ==
    <<Ins("fork", "producer"), Spin("producer_started"), Ins("fork", "waiter")>>
    \o (IF fixed THEN <<>> ELSE <<Do("poll")>> \o syncprojectrescue)
    \o <<Do("wait"), Do("wait"), Do("final")>>

fixedMode == syMode = "fixed"
SyProgram(t) == CASE t = "parent"   -> run_case(fixedMode)
                [] t = "producer" -> syncprojectproduce(fixedMode)
                [] t = "waiter"   -> syncprojectwait(fixedMode)
----------------------------------------------------------------------------
Going == console.outcome = "run"
B(x) == IF x THEN 1 ELSE 0
Noff(h) == B(project.cond = h) + B(plock = h)
             + (IF syRun[h] \in Threads THEN pushed[syRun[h]] ELSE 0)
Gate(f) == f \in project.gates

(* record_event: the slot and the arguments now, the rest in Fill. *)
NoRecord == [slot |-> 0]
Claim(c, p, kind, target, held) ==
    /\ project' = [p EXCEPT !.events = Append(@, [kind |-> kind])]
    /\ pending' = [pending EXCEPT ![c] =
         [slot   |-> Len(p.events) + 1, kind |-> kind, target |-> target,
          state  |-> IF target THEN syState["waiter"] ELSE -1,
          chan   |-> B(target /\ held /\ chan), held |-> B(held)]]

(* Of some events the host reads neither the hart nor a lock; they are      *)
(* recorded without.                                                        *)
Unplaced == {"PRODUCER_ARMED", "WAKE_DONE", "BAD_ORACLE", "RESCUE_BEGIN",
             "RESCUE_MATCH", "RESCUE_DONE", "MIGRATE_RELEASE"}

Fill(c, h) ==
    LET r == pending[c]
        seen == [kind |-> r.kind, state |-> r.state, ready |-> B(Gate("ready")),
                 chan |-> r.chan, plock |-> r.held]
        full == [kind |-> r.kind, state |-> r.state, ready |-> B(Gate("ready")),
                 chan |-> r.chan, plock |-> r.held, hart |-> h,
                 cond |-> B(project.cond # None), cond_owner |-> project.cond,
                 proc_owner |-> IF r.target THEN plock ELSE None,
                 intr |-> B(Noff(h) = 0), noff |-> Noff(h)]
    IN  /\ Going /\ r # NoRecord
        /\ pending' = [pending EXCEPT ![c] = NoRecord]
        /\ project' = [project EXCEPT !.events[r.slot] =
                         IF r.kind \in Unplaced THEN seen ELSE full]
        /\ UNCHANGED <<syMode, syAt, syRun, syState, plock, pushed, chan, console>>

SyGoto(t, n)  == syAt' = [syAt EXCEPT ![t] = n]
Matched     == syState["waiter"] = SLEEPING /\ chan
BadState    == Matched /\ Gate("ready") /\ project.misses = 1
Used        == 2 + Cardinality({t \in Threads : syState[t] # UNUSED})
Find(t, op) == CHOOSE n \in DOMAIN SyProgram(t) : SyProgram(t)[n].op = op

(* wakeup() at the waiter: its lock is taken, the scan is counted and       *)
(* recorded; "woken" makes a match RUNNABLE and lets the lock go.           *)
syncproject_wakeup_scan(t) ==
    CASE Gate("rescuing") /\ Matched ->
           Claim(t, [project EXCEPT !.rescues = @ + 1], "RESCUE_MATCH", TRUE, TRUE)
      [] Gate("rescuing") /\ ~Matched -> UNCHANGED <<project, pending>>
      [] ~Gate("rescuing") /\ Matched ->
           Claim(t, [project EXCEPT !.matches = @ + 1], "WAKE_MATCH", TRUE, TRUE)
      [] OTHER ->
           Claim(t, [project EXCEPT !.misses = @ + 1], "WAKE_MISS", TRUE, TRUE)

Scan(t, h, ins) ==
    /\ ins.op = "scan" /\ plock = None /\ plock' = h
    /\ IF project.target THEN syncproject_wakeup_scan(t) ELSE UNCHANGED <<project, pending>>
    /\ UNCHANGED <<syState, pushed, chan>>

(* One instruction that only moves on in its program. *)
Straight(t, h, ins) ==
    \/ /\ ins.op \in {"rec", "recopen", "recheld"}
       /\ Claim(t, project, ins.x, ins.op # "rec", ins.op = "recheld")
       /\ UNCHANGED <<syState, plock, pushed, chan>>
    \/ /\ ins.op = "set" /\ project' = [project EXCEPT !.gates = @ \cup {ins.x}]
       /\ UNCHANGED <<syState, plock, pushed, chan, pending>>
    \/ /\ ins.op = "reset" /\ project' = [project EXCEPT !.gates = @ \ {ins.x}]
       /\ UNCHANGED <<syState, plock, pushed, chan, pending>>
    \/ /\ ins.op = "spin" /\ Gate(ins.x)
       /\ UNCHANGED <<syState, plock, pushed, chan, project, pending>>
    \/ /\ ins = Acquire("cond") /\ project.cond = None
       /\ project' = [project EXCEPT !.cond = h]
       /\ UNCHANGED <<syState, plock, pushed, chan, pending>>
    \/ /\ ins = Release("cond") /\ project' = [project EXCEPT !.cond = None]
       /\ UNCHANGED <<syState, plock, pushed, chan, pending>>
    \/ /\ ins = Acquire("plock") /\ plock = None /\ plock' = h
       /\ UNCHANGED <<syState, pushed, chan, project, pending>>
    \/ /\ ins = Release("plock") /\ plock' = None
       /\ UNCHANGED <<syState, pushed, chan, project, pending>>
    \/ /\ ins.op \in {"push", "pop"}
       /\ pushed' = [pushed EXCEPT ![t] = IF ins.op = "push" THEN @ + 1 ELSE @ - 1]
       /\ UNCHANGED <<syState, plock, chan, project, pending>>
    \/ /\ ins.op = "claim" /\ project' = [project EXCEPT !.target = TRUE]
       /\ UNCHANGED <<syState, plock, pushed, chan, pending>>
    \/ /\ ins.op = "origin" /\ project' = [project EXCEPT !.origin = h]
       /\ UNCHANGED <<syState, plock, pushed, chan, pending>>
    \/ /\ ins.op = "publish" /\ chan' = TRUE
       /\ syState' = [syState EXCEPT ![t] = SLEEPING]
       /\ UNCHANGED <<plock, pushed, project, pending>>
    \/ /\ ins.op = "unchan" /\ chan' = FALSE
       /\ UNCHANGED <<syState, plock, pushed, project, pending>>
    \/ /\ ins.op = "fork" /\ syState' = [syState EXCEPT ![ins.x] = RUNNABLE]
       /\ UNCHANGED <<plock, pushed, chan, project, pending>>
    \/ /\ ins.op = "woken" /\ plock' = None
       /\ syState' = [syState EXCEPT !["waiter"] = IF Matched THEN RUNNABLE ELSE @]
       /\ UNCHANGED <<pushed, chan, project, pending>>
    \/ Scan(t, h, ins)

(* The ones that do not. *)
Jump(t, ins) ==
    \/ ins.op = "test" /\ SyGoto(t, IF Gate("ready") THEN Find(t, "loop") + 1 ELSE syAt[t] + 1)
    \/ ins.op = "loop" /\ SyGoto(t, Find(t, "test"))

(* The thread leaves its hart: sched(), exit(), wait() without a zombie. *)
Leave(t, h, ins) ==
    \/ /\ ins.op = "sched" /\ syRun' = [syRun EXCEPT ![h] = "done"]
       /\ SyGoto(t, syAt[t] + 1) /\ UNCHANGED syState
    \/ /\ ins.op = "exit" /\ syRun' = [syRun EXCEPT ![h] = "sched"]
       /\ syState' = [u \in Threads |-> IF u = t THEN ZOMBIE
                        ELSE IF u = "parent" /\ syState[u] = SLEEPING THEN RUNNABLE
                        ELSE syState[u]]
       /\ SyGoto(t, syAt[t] + 1)
    \/ /\ ins.op = "wait" /\ \A u \in Threads : syState[u] # ZOMBIE
       /\ syRun' = [syRun EXCEPT ![h] = "sched"]
       /\ syState' = [syState EXCEPT ![t] = SLEEPING]
       /\ UNCHANGED syAt
Reap(t, ins) ==
    /\ ins.op = "wait"
    /\ \E u \in Threads : syState[u] = ZOMBIE /\ syState' = [syState EXCEPT ![u] = UNUSED]
    /\ SyGoto(t, syAt[t] + 1)

(* schedtrace's console: the poll for the bad state, and the end. *)
Poll(t, ins) ==
    /\ ins.op = "poll" /\ plock = None /\ BadState
    /\ console' = [console EXCEPT !.bad = Append(@,
         [ready |-> B(Gate("ready")), state |-> syState["waiter"], chan |-> B(chan),
          miss |-> project.misses])]
    /\ SyGoto(t, syAt[t] + 1)
    /\ UNCHANGED <<project, pending, plock>>

(* bad_state_recorded: without the bad state the guest gives up. *)
bad_state_recorded(t, h, ins) ==
    /\ ins.op = "oracle" /\ plock = None
    /\ IF BadState
       THEN /\ Claim(t, project, "BAD_ORACLE", TRUE, TRUE)
            /\ plock' = h /\ SyGoto(t, syAt[t] + 1) /\ UNCHANGED console
       ELSE console' = [console EXCEPT !.outcome = "FAIL"]
            /\ UNCHANGED <<project, pending, plock, syAt>>

Final(t, ins) ==
    LET f == [used |-> Used, target |-> B(syState["waiter"] # UNUSED),
              ready |-> B(Gate("ready")), miss |-> project.misses,
              match |-> project.matches, rescue |-> project.rescues,
              origin |-> project.origin, resume |-> project.resume,
              migrated |-> B(project.origin >= 0 /\ project.resume >= 0
                               /\ project.origin # project.resume),
              events |-> Len(project.events), cond |-> B(project.cond # None)]
        good == /\ f.used = 3 /\ f.target = 0 /\ f.cond = 0 /\ f.migrated = 1
                /\ <<f.miss, f.match, f.rescue>>
                     = (IF fixedMode THEN <<0, 1, 0>> ELSE <<1, 0, 1>>)
    IN  /\ ins.op = "final"
        /\ console' = [console EXCEPT !.final = f, !.outcome = IF good THEN "PASS" ELSE "FAIL"]
        /\ SyGoto(t, syAt[t] + 1)
        /\ UNCHANGED <<project, pending, plock>>

Step(t, h) ==
    /\ Going /\ syRun[h] = t /\ pending[t] = NoRecord /\ syAt[t] <= Len(SyProgram(t))
    /\ LET ins == SyProgram(t)[syAt[t]]
       IN  \/ Straight(t, h, ins) /\ SyGoto(t, syAt[t] + 1) /\ UNCHANGED <<syRun, console>>
           \/ /\ Jump(t, ins)
              /\ UNCHANGED <<syRun, syState, plock, pushed, chan, project, pending, console>>
           \/ /\ Leave(t, h, ins)
              /\ UNCHANGED <<plock, pushed, chan, project, pending, console>>
           \/ /\ Reap(t, ins)
              /\ UNCHANGED <<syRun, plock, pushed, chan, project, pending, console>>
           \/ /\ Poll(t, ins) \/ bad_state_recorded(t, h, ins) \/ Final(t, ins)
              /\ UNCHANGED <<syRun, syState, pushed, chan>>
    /\ UNCHANGED syMode

----------------------------------------------------------------------------
(* The scheduler of a hart. *)
Steered(p) == project.target /\ p = "waiter" /\ Gate("force_migrate") /\ project.resume < 0
MayMove    == Gate("origin_skip_seen") /\ Gate("resume_allowed")
syncproject_scheduler_skip(p, h) == Steered(p) /\ (h = project.origin \/ ~MayMove)

(* A timer interrupt: yield(). *)
Preempt(h) ==
    /\ Going /\ syRun[h] \in Threads /\ Noff(h) = 0
    /\ syRun' = [syRun EXCEPT ![h] = "sched"]
    /\ syState' = [syState EXCEPT ![syRun[h]] = RUNNABLE]
    /\ UNCHANGED <<syMode, syAt, plock, pushed, chan, project, pending, console>>

Dispatch(p, h) ==
    /\ Going /\ syRun[h] = "sched" /\ syState[p] = RUNNABLE /\ p # "waiter"
    /\ syRun' = [syRun EXCEPT ![h] = p]
    /\ syState' = [syState EXCEPT ![p] = RUNNING]
    /\ UNCHANGED <<syMode, syAt, plock, pushed, chan, project, pending, console>>

(* The waiter is passed over: the first time after the wakeup its origin    *)
(* hart leaves a record, and says so.                                       *)
Skip(h) ==
    /\ Going /\ syRun[h] = "sched" /\ plock = None /\ syState["waiter"] = RUNNABLE
    /\ syncproject_scheduler_skip("waiter", h)
    /\ h = project.origin /\ Gate("wake_done") /\ ~Gate("origin_skip_seen")
    /\ plock' = h /\ syRun' = [syRun EXCEPT ![h] = "skip"]
    /\ Claim(Sched(h), project, "ORIGIN_SKIP", TRUE, TRUE)
    /\ UNCHANGED <<syMode, syAt, syState, pushed, chan, console>>
Skipped(h) ==
    /\ Going /\ syRun[h] = "skip" /\ pending[Sched(h)] = NoRecord
    /\ project' = [project EXCEPT !.gates = @ \cup {"origin_skip_seen"}]
    /\ syRun' = [syRun EXCEPT ![h] = "done"]
    /\ UNCHANGED <<syMode, syAt, syState, plock, pushed, chan, pending, console>>

(* The waiter is chosen: its lock goes with it to the hart.  One that was   *)
(* preempted or is new lets it go at once.                                  *)
syncproject_scheduler_select(h) ==
    /\ Going /\ syRun[h] = "sched" /\ plock = None /\ syState["waiter"] = RUNNABLE
    /\ ~syncproject_scheduler_skip("waiter", h)
    /\ plock' = h /\ syRun' = [syRun EXCEPT ![h] = "select"]
    /\ IF Steered("waiter")
       THEN Claim(Sched(h), [project EXCEPT !.resume = h], "MIGRATE_SELECT", TRUE, TRUE)
       ELSE UNCHANGED <<project, pending>>
    /\ UNCHANGED <<syMode, syAt, syState, pushed, chan, console>>
Switch(h) ==
    /\ Going /\ syRun[h] = "select" /\ pending[Sched(h)] = NoRecord
    /\ syRun' = [syRun EXCEPT ![h] = "waiter"]
    /\ syState' = [syState EXCEPT !["waiter"] = RUNNING]
    /\ plock' = IF chan THEN plock ELSE None
    /\ UNCHANGED <<syMode, syAt, pushed, chan, project, pending, console>>

(* The scheduler's release after the switch back, or after a skip. *)
Return(h) ==
    /\ Going /\ syRun[h] = "done"
    /\ plock' = None /\ syRun' = [syRun EXCEPT ![h] = "sched"]
    /\ UNCHANGED <<syMode, syAt, syState, pushed, chan, project, pending, console>>

reset_fields == [gates |-> {}, cond |-> None, target |-> FALSE, origin |-> -1, resume |-> -1,
                 misses |-> 0, matches |-> 0, rescues |-> 0, events |-> <<>>]
SyStart(p, o) ==
    /\ syMode \in {"fixed", "broken"}
    /\ syAt = [t \in Threads |-> 1]
    /\ syRun = [h \in Harts |-> IF h = 0 THEN "parent" ELSE "sched"]
    /\ syState = [t \in Threads |-> IF t = "parent" THEN RUNNING ELSE UNUSED]
    /\ plock = None /\ pushed = [t \in Threads |-> 0] /\ chan = FALSE
    /\ project = p
    /\ pending = [c \in Threads \cup {Sched(h) : h \in Harts} |-> NoRecord]
    /\ console = [bad |-> <<>>, final |-> <<>>, outcome |-> o]
SyInit == SyStart(reset_fields, "run")

SyNext ==
    \E h \in Harts :
         \/ \E t \in Threads : Step(t, h) \/ (syRun[h] = t /\ Fill(t, h)) \/ Dispatch(t, h)
         \/ Fill(Sched(h), h) \/ Preempt(h) \/ Skip(h) \/ Skipped(h)
         \/ syncproject_scheduler_select(h) \/ Switch(h) \/ Return(h)

(* A hart that can execute does, a time slice being long enough for an      *)
(* instruction; a timer interrupt is taken once interrupts are on; the      *)
(* scheduler, going round the process table, does not pass the waiter over  *)
(* for ever.                                                                *)
Execute ==
    \E h \in Harts :
       \/ \E t \in Threads : Step(t, h) \/ (syRun[h] = t /\ Fill(t, h))
       \/ Skip(h)
SyFairness ==
    /\ SF_syVars(Execute)
    /\ \A h \in Harts : WF_syVars(Fill(Sched(h), h) \/ Skipped(h) \/ Switch(h) \/ Return(h))
    /\ \A h \in Harts : WF_syVars(Preempt(h))
    /\ \A t \in Threads : WF_syVars(\E h \in Harts : Dispatch(t, h))
    /\ SF_syVars(\E h \in Harts : syncproject_scheduler_select(h))

----------------------------------------------------------------------------
(* The host's judgement of a transcript: the order of events ... *)
FIXED_ORDER ==
    <<"PRODUCER_ARMED", "WAIT_CHECK", "WAIT_PLOCK", "PRODUCER_ATTEMPT",
      "WAIT_RELEASE_BOUNDARY", "PRODUCER_ACQUIRE", "WAIT_PUBLISH", "PRODUCER_READY",
      "WAKE_MATCH", "WAKE_DONE", "ORIGIN_SKIP", "MIGRATE_RELEASE", "MIGRATE_SELECT",
      "WAIT_RESUME", "WAIT_RECHECK">>
BROKEN_ORDER ==
    <<"PRODUCER_ARMED", "WAIT_CHECK", "WAIT_RELEASED", "PRODUCER_ATTEMPT",
      "PRODUCER_ACQUIRE", "PRODUCER_READY", "WAKE_MISS", "WAKE_DONE", "WAIT_PUBLISH",
      "BAD_ORACLE", "RESCUE_BEGIN", "RESCUE_MATCH", "RESCUE_DONE", "ORIGIN_SKIP",
      "MIGRATE_RELEASE", "MIGRATE_SELECT", "WAIT_RESUME", "WAIT_RECHECK">>

event_map(kind) ==
    project.events[CHOOSE n \in DOMAIN project.events : project.events[n].kind = kind]

(* ... the final line ... *)
validate_common(order) ==
    LET f == console.final
    IN  /\ console.outcome = "PASS"
        /\ [n \in DOMAIN project.events |-> project.events[n].kind] = order
        /\ f.used = 3 /\ f.target = 0 /\ f.ready = 1 /\ f.cond = 0 /\ f.migrated = 1
        /\ f.origin \in {0, 1} /\ f.resume \in {0, 1} /\ f.origin # f.resume
        /\ f.events = Len(project.events)

(* ... and what each event saw: state, locks, owners, interrupt depth. *)
validate_fixed ==
    LET f == console.final
        check == event_map("WAIT_CHECK")         held == event_map("WAIT_PLOCK")
        attempt == event_map("PRODUCER_ATTEMPT") released == event_map("WAIT_RELEASE_BOUNDARY")
        acquired == event_map("PRODUCER_ACQUIRE") published == event_map("WAIT_PUBLISH")
        ready == event_map("PRODUCER_READY")     match == event_map("WAKE_MATCH")
        skipped == event_map("ORIGIN_SKIP")      selected == event_map("MIGRATE_SELECT")
        resumed == event_map("WAIT_RESUME")      recheck == event_map("WAIT_RECHECK")
    IN  /\ validate_common(FIXED_ORDER)
        /\ check.state = RUNNING /\ check.ready = 0 /\ check.cond = 1
        /\ check.cond_owner = check.hart /\ check.noff = 1
        /\ held.cond_owner = held.hart /\ held.hart = held.proc_owner
        /\ held.plock = 1 /\ held.noff = 2
        /\ attempt.hart # held.hart /\ attempt.cond_owner = held.hart
        /\ released.proc_owner = held.hart /\ released.cond_owner = held.hart
        /\ released.cond = 1
        /\ acquired.hart = acquired.cond_owner /\ acquired.cond_owner = attempt.hart
        /\ acquired.noff = 2
        /\ published.state = SLEEPING /\ published.chan = 1 /\ published.ready = 0
        /\ published.proc_owner = held.hart
        /\ ready.ready = 1 /\ ready.cond_owner = attempt.hart
        /\ match.state = SLEEPING /\ match.chan = 1
        /\ match.proc_owner = match.hart /\ match.hart = attempt.hart
        /\ skipped.state = RUNNABLE /\ skipped.hart = f.origin
        /\ selected.state = RUNNABLE /\ selected.hart = f.resume
        /\ resumed.state = RUNNING /\ resumed.chan = 1
        /\ resumed.hart = resumed.proc_owner /\ resumed.hart = f.resume
        /\ recheck.ready = 1 /\ recheck.chan = 0 /\ recheck.cond_owner = recheck.hart
        /\ f.miss = 0 /\ f.match = 1 /\ f.rescue = 0
        /\ console.bad = <<>>

validate_broken ==
    LET f == console.final
        released == event_map("WAIT_RELEASED") miss == event_map("WAKE_MISS")
        published == event_map("WAIT_PUBLISH") oracle == event_map("BAD_ORACLE")
        rescue == event_map("RESCUE_MATCH")    selected == event_map("MIGRATE_SELECT")
        resumed == event_map("WAIT_RESUME")
    IN  /\ validate_common(BROKEN_ORDER)
        /\ released.cond = 0 /\ released.plock = 0 /\ released.intr = 0
        /\ released.noff = 1
        /\ miss.state = RUNNING /\ miss.ready = 1 /\ miss.chan = 0
        /\ miss.proc_owner = miss.hart
        /\ published.state = SLEEPING /\ published.ready = 1 /\ published.chan = 1
        /\ oracle.state = SLEEPING /\ oracle.ready = 1 /\ oracle.chan = 1
        /\ console.bad = <<[ready |-> 1, state |-> SLEEPING, chan |-> 1, miss |-> 1]>>
        /\ rescue.state = SLEEPING /\ rescue.chan = 1
        /\ selected.hart = f.resume /\ f.resume # f.origin /\ resumed.hart = f.resume
        /\ f.miss = 1 /\ f.match = 0 /\ f.rescue = 1

(* Whatever the two harts' schedulers and timers do, a finished experiment  *)
(* is one that run-lab.py accepts: the gates of the guest leave one order   *)
(* of events, in which each sees the locks and states the host asks for.    *)
EveryScheduleAccepted ==
    console.outcome \in {"PASS", "FAIL"} =>
        IF fixedMode THEN validate_fixed ELSE validate_broken

(* The experiment finishes: no gate, lock or steered scheduler of the guest *)
(* waits for something that only it holds up.                               *)
ExperimentEnds == <>[](console.outcome # "run")
=============================================================================
