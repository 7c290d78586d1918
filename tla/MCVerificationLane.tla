-------------------------- MODULE MCVerificationLane --------------------------
(* An instance of VerificationLane for TLC: who consents to what, and when.  *)
EXTENDS VerificationLane

CONSTANTS Scan, Probe, Again, \* Again: a probe under the consent of Probe
          Late                \* issue time of Again

MCAuthOf   == [s \in Specs |-> IF s = Again THEN Probe ELSE s]
MCConsentAt == [a \in {AuthOf[s] : s \in Specs} |-> 0]
MCIssuedAt == [s \in Specs |-> IF s = Again THEN Late ELSE 0]
=============================================================================
