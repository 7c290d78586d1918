----------------------------- MODULE MCVerifiers -----------------------------
(***************************************************************************)
(* Instances of the two hosted verifiers for TLC.                          *)
(***************************************************************************)
EXTENDS Verifiers, TLC

CONSTANTS Scan, Probe, Again, Other,   \* Probe names the consent of Scan
          ScanAt, LaterAt              \* when CloudflareVerifier is sent its specs

MCAuthOf == Scan :> 1 @@ Probe :> 1 @@ Again :> 2 @@ Other :> 3
MCBehind == <<0, 1>>
Never == MaxClock + 1
MCIssuedAt == Scan :> 0 @@ Probe :> 1 @@ Again :> Never @@ Other :> Never
\* The probe comes at the last moment its consent is kept for certain.
MCSentAt == Scan :> ScanAt @@ Probe :> Retain - LeaseLife @@ Again :> LaterAt @@ Other :> LaterAt
=============================================================================
