------------------------------ MODULE LabShapes ------------------------------
(***************************************************************************)
(* What the twenty-four programs of RunnerPrograms have in common: the     *)
(* facts about their text on which the theorems about LabRun rest.  They   *)
(* speak of no behaviour, so they are decided by looking at the programs,  *)
(* which TLC does (ProgramsAssumption) before it explores anything.        *)
(***************************************************************************)
EXTENDS LabRun

(* The patches of all runners, and the form of an instruction. *)
Patches == D \cup F \cup A \cup C \cup Audit
Instructions == [op : STRING, set : SUBSET Patches, given : SUBSET Patches,
                 fact : STRING, soft : BOOLEAN]

(* Instruction i is in the body of a finally clause. *)
Cleanup(p, i) ==
    \E f \in 1..(i - 1) : /\ p[f].op = "finally"
                          /\ \A k \in (f + 1)..(i - 1) : p[k].op # "end"

(* Where an exception can be on its way. *)
Unwound(p, i) ==
    i \in DOMAIN p => p[i].op \in {"finally", "close"} \/ Cleanup(p, i)

(* What the instructions before i leave behind when each one does its work. *)
FactsBefore(p, i) == {p[k].fact : k \in 1..(i - 1)} \ {""}

AppliedBefore(p, i) ==
    {x \in Patches : \E k \in 1..(i - 1) :
       /\ p[k].op = "apply" /\ x \in p[k].set
       /\ \A e \in (k + 1)..(i - 1) : p[e].op # "export"}

OpenBefore(p, i) ==
    \E k \in 1..(i - 1) : /\ p[k].op = "open"
                          /\ \A e \in (k + 1)..(i - 1) : p[e].op # "close"

(* The patches applied and not reversed in the text before i. *)
Pending(p, i) ==
    {x \in Patches : \E k \in 1..(i - 1) :
       /\ p[k].op = "apply" /\ x \in p[k].set
       /\ \A h \in (k + 1)..(i - 1) : p[h].op = "reverse" => x \notin p[h].set}

----------------------------------------------------------------------------
(* A program has markers without an effect; only a cleanup notes failures, *)
(* and it is over before the program is.                                   *)
BlockShape(p) ==
    /\ p \in Seq(Instructions)
    /\ \A i \in DOMAIN p :
         /\ p[i].op \in Marks =>
              p[i].fact = "" /\ p[i].set = {} /\ p[i].given = {} /\ ~p[i].soft
         /\ p[i].soft => Cleanup(p, i)
    /\ ~Cleanup(p, Len(p) + 1)

(* Only an instruction that reverses a patch is ever skipped in a run in   *)
(* which nothing fails, and it establishes nothing.                        *)
FactShape(p) ==
    /\ \A i \in DOMAIN p :
         /\ \/ p[i].given \subseteq AppliedBefore(p, i)
            \/ p[i].op = "reverse" /\ p[i].fact = ""
         /\ p[i].fact = "repo" => p[i].op = "after"
    /\ ~OpenBefore(p, Len(p) + 1)

(* A report is written outside every cleanup, none follows, and all it     *)
(* states has been established.                                            *)
ReportShape(p, states) ==
    \A r \in DOMAIN p : p[r].op = "report" =>
      /\ ~Unwound(p, r)
      /\ \A k \in r..Len(p) : p[k].op # "finally"
      /\ states \subseteq FactsBefore(p, r)

(* Every patch applied is reversed once, by an instruction that looks at   *)
(* the record, and no exception other than one of git apply jumps past it. *)
Jumps(i) == IF i.op \in Marks THEN i.op \in {"end", "close"}
            ELSE i.op \notin {"apply", "reverse"} /\ ~i.soft

PatchShape(p) ==
    /\ \A i \in DOMAIN p :
         /\ p[i].op = "apply" => p[i].given = {} /\ p[i].set \cap Pending(p, i) = {}
         /\ p[i].op = "reverse" =>
              /\ p[i].given = p[i].set /\ \E x \in Patches : p[i].set = {x}
              /\ p[i].set \subseteq Pending(p, i)
                   \/ \A k \in DOMAIN p : p[k].op = "apply" => p[k].set \cap p[i].set = {}
         /\ p[i].op = "export" => Pending(p, i) = {}
         /\ Jumps(p[i]) =>
              /\ Pending(p, i) \subseteq Pending(p, Landing(p, i))
              /\ \A x \in Pending(p, Landing(p, i)) \ Pending(p, i) :
                   ~Unwound(p, i) /\ x \notin AppliedBefore(p, i)
    /\ Pending(p, Len(p) + 1) = {}

(* The runners whose cleanup is written to go on after a failure. *)
Thorough == {"persist", "recovery", "cow"}

ASSUME ProgramsAssumption ==
    \A l \in Runners, s \in BOOLEAN :
      LET p == Program(l, s)
      IN  /\ BlockShape(p) /\ FactShape(p) /\ ReportShape(p, States(l, s))
          /\ l # "persist" => \A r \in DOMAIN p : p[r].op = "report" => r = Len(p)
          /\ ~(l = "roundtrip" /\ s) => \E i \in DOMAIN p : p[i].fact = "repo"
          /\ l \in Thorough => PatchShape(p)
=============================================================================
