-------------------------- MODULE DeliveryContract --------------------------
(***************************************************************************)
(* What the ledger promises about one ordered file, without permissions,   *)
(* reservations, crashes or windows: every byte goes out at most MaxServe  *)
(* times, only bytes that went out are reported, and the order is closed   *)
(* once, when all of them are, after which nothing is sent or reported.    *)
(***************************************************************************)
EXTENDS Integers

CONSTANTS Bytes, MaxServe

VARIABLES times,    \* how often each byte was handed to the network
          reported, \* bytes ai.market has a receipt for
          done      \* the complete receipt is queued

vars == <<times, reported, done>>

Init == times = [b \in Bytes |-> 0] /\ reported = {} /\ done = FALSE

Send(S) ==
    /\ ~done
    /\ \A b \in S : times[b] < MaxServe
    /\ times' = [b \in Bytes |-> IF b \in S THEN times[b] + 1 ELSE times[b]]
    /\ UNCHANGED <<reported, done>>

Report(S) ==
    /\ ~done
    /\ \A b \in S : times[b] > 0
    /\ reported' = reported \cup S
    /\ UNCHANGED <<times, done>>

Complete ==
    /\ reported = Bytes
    /\ done' = TRUE
    /\ UNCHANGED <<times, reported>>

Next == Complete \/ \E S \in SUBSET Bytes : Send(S) \/ Report(S)

Spec == Init /\ [][Next]_vars
=============================================================================
