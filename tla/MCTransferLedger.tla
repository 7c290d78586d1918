-------------------------- MODULE MCTransferLedger --------------------------
(***************************************************************************)
(* Instances of TransferLedger for TLC: sizes, deadlines and symmetry.     *)
(* MCSpec runs up to two of them: `empty' says whether the ordered content *)
(* has no bytes, which FinishEmpty completes without a request while       *)
(* inventory scans may find another content and every permission may be    *)
(* revoked.                                                                *)
(***************************************************************************)
EXTENDS TransferRefinement, TLC

CONSTANTS OrderedSize,  \* bytes of the ordered content
          OtherSize,    \* bytes of every other content
          EarlyJTI,     \* the permission with the earlier transfer deadline
          StartBy, EarlyEnd, LateEnd,
          Empties,      \* the values of `empty' to check
          Changed       \* another content for the empty file

MCSizeOf == [c \in Content |-> IF c = Ordered THEN OrderedSize ELSE OtherSize]
MCSD     == [j \in JTI |-> StartBy]
MCTD     == [j \in JTI |-> IF j = EarlyJTI THEN EarlyEnd ELSE LateEnd]

RequestSymmetry == Permutations(Req)

VARIABLE empty

all == <<empty, vars>>

Empty == INSTANCE TransferLedger
    WITH Content <- {Ordered, Changed}, Revocable <- JTI,
         SizeOf <- [c \in {Ordered, Changed} |-> IF c = Ordered THEN 0 ELSE OtherSize]

File(A) == ~empty /\ A /\ UNCHANGED empty

MCInit ==
    /\ empty \in Empties
    /\ \/ ~empty /\ Init
       \/ empty /\ Empty!Init

MCNext ==
    \/ File(Next)
    \/ empty /\ Empty!Next /\ UNCHANGED empty

MCSpec == MCInit /\ [][MCNext]_all

\* TransferLedger!FairSpec, for the file that has bytes.
MCFairSpec ==
    /\ MCSpec
    /\ \A r \in Req : WF_all(File(Handler(r)))
    /\ WF_all(File(Recover))
=============================================================================
