--------------------------- MODULE OrderedDelivery ---------------------------
(***************************************************************************)
(* What the gateway promises about receipts, without logs, acknowledgments *)
(* or crashes: each queued receipt is recorded exactly once, in the order  *)
(* of its sequence number, and ai.market stores a prefix of the record     *)
(* (which it may partly forget before it has acknowledged for good).       *)
(***************************************************************************)
EXTENDS Integers, Sequences

VARIABLES queued,   \* receipts queued so far
          recorded, \* receipts in the audit log
          stored    \* receipts ai.market holds

vars == <<queued, recorded, stored>>

Init == queued = 0 /\ recorded = <<>> /\ stored = <<>>

Queue == queued' = queued + 1 /\ UNCHANGED <<recorded, stored>>

Record ==
    /\ Len(recorded) < queued
    /\ recorded' = Append(recorded, Len(recorded) + 1)
    /\ UNCHANGED <<queued, stored>>

Store ==
    /\ Len(stored) < Len(recorded)
    /\ stored' = Append(stored, recorded[Len(stored) + 1])
    /\ UNCHANGED <<queued, recorded>>

Forget ==
    /\ \E n \in 0 .. Len(stored) : stored' = SubSeq(stored, 1, n)
    /\ UNCHANGED <<queued, recorded>>

Next == Queue \/ Record \/ Store \/ Forget

Spec == Init /\ [][Next]_vars
=============================================================================
