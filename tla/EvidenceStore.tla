--------------------------- MODULE EvidenceStore -----------------------------
(***************************************************************************)
(* What the lifecycle commands rely on when they write evidence: a set of  *)
(* registers that change atomically, whose value is durable once the       *)
(* operation that wrote it has returned, and history registers that are    *)
(* written once.  StateStore implements it.                                *)
(*                                                                         *)
(* The one exception is a home (a directory) whose very creation was       *)
(* interrupted: it is an orphan, and durability is not promised for what   *)
(* is kept in it until it is no longer one.                                *)
(***************************************************************************)
CONSTANTS Registers,
          Once,           \* the registers that are written once
          Values,
          Homes, HomesOf(_),   \* the directories a register depends on
          None

VARIABLES reg,      \* what a reader finds in each register
          may,      \* what it may find there after a power loss
          orphans,  \* the homes whose creation was interrupted
          done      \* the last operation that returned: the register and its value

vars == <<reg, may, orphans, done>>

Result == [f : Registers, v : Values \cup {None}]

Init ==
    /\ reg \in [Registers -> Values \cup {None}] /\ may = [f \in Registers |-> {reg[f]}]
    /\ orphans = {} /\ done = None

\* One register changes; before, nothing is known to have happened.
Change(f, v) ==
    /\ f \in Once => reg[f] \in {None, v}
    /\ reg' = [reg EXCEPT ![f] = v]
    /\ may' = [may EXCEPT ![f] = @ \cup {v}]
    /\ UNCHANGED <<orphans, done>>

\* A new home: until it is published nothing in it is certain.
Open(h) ==
    /\ may' = [f \in Registers |-> IF h \in HomesOf(f) THEN may[f] \cup {None} ELSE may[f]]
    /\ UNCHANGED <<reg, orphans, done>>

\* What was written becomes certain, all of it or some.
Settled ==
    /\ \A f \in Registers : may'[f] \subseteq may[f] /\ reg[f] \in may'[f]
    /\ orphans' \subseteq orphans
    /\ UNCHANGED reg

Settle == Settled /\ UNCHANGED done

\* An operation returns only what is there and, but for orphans, certain.
Return(f, v) ==
    /\ Settled
    /\ reg[f] = v
    /\ HomesOf(f) \cap orphans' = {} => may'[f] = {v}
    /\ done' = [f |-> f, v |-> v]

\* An operation is interrupted, by an exception or by a kill.
Interrupt ==
    /\ orphans' \in SUBSET Homes /\ orphans \subseteq orphans'
    /\ UNCHANGED <<reg, may, done>>

PowerLoss ==
    /\ \A f \in Registers : reg'[f] \in may[f] /\ may'[f] = {reg'[f]}
    /\ orphans' \subseteq orphans
    /\ UNCHANGED done

Next ==
    \/ \E f \in Registers, v \in Values \cup {None} : Change(f, v) \/ Return(f, v)
    \/ \E h \in Homes : Open(h)
    \/ Settle \/ Interrupt \/ PowerLoss

Spec == Init /\ [][Next]_vars
=============================================================================
