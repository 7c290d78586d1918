--------------------------- MODULE VerifierContract ---------------------------
(***************************************************************************)
(* What every verifier promises to the owner of the data and to ai.market, *)
(* without queues, leases, tables or crashes: a spec is admitted under a   *)
(* consent that admitted nothing before, its source is read once and only  *)
(* then, and at most one report about it is ever accepted by ai.market.    *)
(***************************************************************************)
EXTENDS Integers

CONSTANTS Specs,   \* signed scan specs, probes included
          AuthOf,  \* the owner authorization each of them names
          Reports  \* what a report may say

VARIABLES admitted, \* specs ever admitted
          runs,     \* reads of the source of each spec
          told      \* reports ai.market accepted

vars == <<admitted, runs, told>>

Init == admitted = {} /\ runs = [s \in Specs |-> 0] /\ told = [s \in Specs |-> {}]

Admit(s) ==
    /\ \A t \in admitted : AuthOf[t] # AuthOf[s]
    /\ admitted' = admitted \cup {s}
    /\ UNCHANGED <<runs, told>>

Read(s) ==
    /\ s \in admitted /\ runs[s] = 0 /\ told[s] = {}
    /\ runs' = [runs EXCEPT ![s] = 1]
    /\ UNCHANGED <<admitted, told>>

\* A result needs a read; the failure of an interrupted scan does not.
Tell(s, b) ==
    /\ s \in admitted /\ told[s] = {}
    /\ b = "result" => runs[s] = 1
    /\ told' = [told EXCEPT ![s] = {b}]
    /\ UNCHANGED <<admitted, runs>>

Next == \E s \in Specs : Admit(s) \/ Read(s) \/ \E b \in Reports : Tell(s, b)

Spec == Init /\ [][Next]_vars
=============================================================================
