------------------------------ MODULE AtomicDisk ------------------------------
(***************************************************************************)
(* What the logging layer promises the file system: a disk whose state     *)
(* changes only between groups of complete operations.                     *)
(*                                                                         *)
(*   mem      the blocks as the running system calls see them              *)
(*   durable  the blocks a machine that crashed now would come back with   *)
(*   active   how many operations are between begin_op() and end_op()      *)
(***************************************************************************)
EXTENDS Naturals

CONSTANTS Blocks, Data

VARIABLES mem, durable, active

vars == <<mem, durable, active>>

TypeOK ==
  /\ mem \in [Blocks -> Data]
  /\ durable \in [Blocks -> Data]
  /\ active \in Nat

Init ==
  /\ mem \in [Blocks -> Data]
  /\ durable = mem
  /\ active = 0

Begin ==
  /\ active' = active + 1
  /\ UNCHANGED <<mem, durable>>

Write(b, v) ==
  /\ active > 0
  /\ mem' = [mem EXCEPT ![b] = v]
  /\ UNCHANGED <<durable, active>>

End ==
  /\ active > 0
  /\ active' = active - 1
  /\ UNCHANGED <<mem, durable>>

\* All finished operations become durable together, and never while one of
\* them is still half way.
Commit ==
  /\ active = 0
  /\ durable' = mem
  /\ UNCHANGED <<mem, active>>

\* A crash keeps exactly the durable state.
Crash ==
  /\ mem' = durable
  /\ active' = 0
  /\ UNCHANGED durable

Next ==
  \/ Begin
  \/ \E b \in Blocks, v \in Data : Write(b, v)
  \/ End
  \/ Commit
  \/ Crash

Spec == Init /\ [][Next]_vars
===============================================================================
