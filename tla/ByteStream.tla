------------------------------ MODULE ByteStream ------------------------------
(***************************************************************************)
(* What a pipe promises to the processes that share it: a bounded queue of *)
(* bytes.  A byte is delivered once and in the order of the writes, and    *)
(* end-of-file is reported only when nothing is left and nobody can write. *)
(***************************************************************************)
EXTENDS Naturals, Sequences

CONSTANTS Byte, Capacity

VARIABLES
  q,               \* bytes written and not yet read
  rdopen, wropen,  \* the ends that are still open
  seen             \* what the last byte or the last end-of-file told a reader

svars == <<q, rdopen, wropen, seen>>

StreamInit ==
  /\ q = <<>>
  /\ rdopen = FALSE
  /\ wropen = FALSE
  /\ seen = "nothing"

\* A new pipe, after both ends of the previous one were closed.
Open ==
  /\ ~rdopen /\ ~wropen
  /\ q' = <<>>
  /\ rdopen' = TRUE
  /\ wropen' = TRUE
  /\ UNCHANGED seen

Put(b) ==
  /\ rdopen /\ wropen
  /\ Len(q) < Capacity
  /\ q' = Append(q, b)
  /\ UNCHANGED <<rdopen, wropen, seen>>

Take ==
  /\ rdopen
  /\ q # <<>>
  /\ seen' = Head(q)
  /\ q' = Tail(q)
  /\ UNCHANGED <<rdopen, wropen>>

Eof ==
  /\ rdopen /\ ~wropen
  /\ q = <<>>
  /\ seen' = "eof"
  /\ UNCHANGED <<q, rdopen, wropen>>

\* When the second end is closed the unread bytes are gone.
CloseRead ==
  /\ rdopen
  /\ rdopen' = FALSE
  /\ q' = IF wropen THEN q ELSE <<>>
  /\ UNCHANGED <<wropen, seen>>

CloseWrite ==
  /\ wropen
  /\ wropen' = FALSE
  /\ q' = IF rdopen THEN q ELSE <<>>
  /\ UNCHANGED <<rdopen, seen>>

StreamNext ==
  Open \/ Take \/ Eof \/ CloseRead \/ CloseWrite \/ \E b \in Byte : Put(b)

StreamSpec == StreamInit /\ [][StreamNext]_svars
===============================================================================
