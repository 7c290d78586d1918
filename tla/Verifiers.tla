------------------------------ MODULE Verifiers ------------------------------
(***************************************************************************)
(* The two hosted verifiers.  A behaviour is one of AwsVerifier or one of  *)
(* CloudflareVerifier, as kind says; they share the variables that mean    *)
(* the same in both, and the promise.                                      *)
(***************************************************************************)
EXTENDS AwsVerifier

CONSTANTS Kinds,                         \* the verifiers that may run
          Compute, Exec,                 \* of CloudflareVerifier, as are the others
          Lease, LeaseTerminal, LeaseLife, SentAt

VARIABLES kind,
          lease, task, wake, due, boot, serving, run \* of CloudflareVerifier only

awsOnly == <<last, nonces, chunks, inv>>
cfOnly == <<lease, task, wake, due, boot, serving, run>>
all == <<kind, vars, cfOnly>>

Cf == INSTANCE CloudflareVerifier
    WITH IssuedAt <- SentAt, Grace <- Lease, Terminal <- LeaseTerminal, Life <- LeaseLife

ASSUME CfLasting == Cf!Lasting /\ Cf!ConsentLasts

Aws(A) == kind = "aws" /\ A /\ UNCHANGED <<kind, cfOnly>>

VerifiersInit ==
    /\ kind \in Kinds
    /\ \/ /\ kind = "aws" /\ Init
          /\ lease = None /\ task = None /\ wake = None /\ due = None
          /\ boot = None /\ serving = None /\ run = None
       \/ /\ kind = "cloudflare" /\ Cf!Init
          /\ last = None /\ nonces = None /\ chunks = None /\ inv = None

VerifiersNext ==
    \/ Aws(Next)
    \/ kind = "cloudflare" /\ Cf!Next /\ UNCHANGED <<kind, awsOnly>>

VerifiersSpec == VerifiersInit /\ [][VerifiersNext]_all

\* The schedule invokes the function again and again, an invocation runs or is
\* ended by the platform, and time passes.
VerifiersFairSpec ==
    /\ VerifiersSpec
    /\ \A i \in Slots : /\ WF_all(Aws(Start(i)))
                        /\ WF_all(Aws(Work(i)))
                        /\ WF_all(Aws(Timeout(i)))
    /\ WF_all(Aws(Tick))

-----------------------------------------------------------------------------
(* Properties; KeepsContract is the promise of both verifiers *)

\* AwsVerifier!NothingForgotten (ledger.go: Admit, Commit, Settle).
AwsForgetsNothing == kind = "aws" => NothingForgotten

\* However many invocations die, every admitted spec is settled in the end: it
\* does not block the only slot of the verifier for ever (handler.go: recover).
AwsAdmittedSettles ==
    \A s \in Specs : kind = "aws" /\ row[s].state \in Open ~> row[s].state \in Settled \cup {"absent"}
=============================================================================
