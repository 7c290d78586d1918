------------------------- MODULE TransferRefinement -------------------------
(* TransferLedger implements DeliveryContract while the file keeps the size *)
(* of the ordered content.                                                  *)
EXTENDS TransferLedger

Contract == INSTANCE DeliveryContract WITH
    times    <- [b \in Bytes |-> Cardinality(SentBy(b))],
    reported <- transmitted,
    done     <- completed

\* Reservations, checkpoints, settlements and crash recovery together keep the
\* promise of DeliveryContract (Reserve, WriteChunk, settle, Recover).
RefinesContract == Contract!Spec
=============================================================================
