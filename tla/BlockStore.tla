------------------------------ MODULE BlockStore ------------------------------
(***************************************************************************)
(* What the buffer cache promises: every disk block is one variable that a *)
(* process has to own to read or change it.  Which blocks are in memory,   *)
(* and which buffer holds them, cannot be told from outside.               *)
(***************************************************************************)
CONSTANTS Procs, Block, Value, Zero

VARIABLES
  content,  \* the value of each block
  owner     \* the process that works on the block, or Zero

bvars == <<content, owner>>

StoreInit ==
  /\ content \in [Block -> Value]
  /\ owner = [k \in Block |-> Zero]

Own(p, k) ==
  /\ owner[k] = Zero
  /\ owner' = [owner EXCEPT ![k] = p]
  /\ UNCHANGED content

Change(p, k, v) ==
  /\ owner[k] = p
  /\ content' = [content EXCEPT ![k] = v]
  /\ UNCHANGED owner

Disown(p, k) ==
  /\ owner[k] = p
  /\ owner' = [owner EXCEPT ![k] = Zero]
  /\ UNCHANGED content

StoreNext ==
  \E p \in Procs, k \in Block :
    \/ Own(p, k) \/ Disown(p, k)
    \/ \E v \in Value : Change(p, k, v)

StoreSpec == StoreInit /\ [][StoreNext]_bvars
===============================================================================
