---------------------------- MODULE OperationLog ----------------------------
(***************************************************************************)
(* What the audit log promises its callers: one list of operations, each   *)
(* recorded in a single indivisible step at the end, numbered from 0       *)
(* without a gap, never altered afterwards.  Nothing is promised any more  *)
(* once the log has been harmed: altered from outside, cut short or        *)
(* re-anchored.                                                            *)
(***************************************************************************)
EXTENDS Naturals, Sequences

CONSTANT Ops
VARIABLES entries, harmed

Init == entries = <<>> /\ harmed = FALSE

Record(op) ==
  /\ ~harmed /\ UNCHANGED harmed
  /\ entries' = Append(entries, [sequence |-> Len(entries), of |-> op])

\* From here on the list may be anything, and the log stays harmed.
Harm == harmed'

Next == Harm \/ \E op \in Ops : Record(op)

Spec == Init /\ [][Next]_<<entries, harmed>>
=============================================================================
