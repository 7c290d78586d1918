--------------------------------- MODULE Census ---------------------------------
(***************************************************************************)
(* The census of the members of a version that are not tables              *)
(* (verification/census.go: PlannedReadSet, parallel, scanCensus,          *)
(* readCensusMember; verification/archive.go: readTarGzip,                 *)
(* finishPlainCandidate; verification/binding.go: ValidateCensusCoverage). *)
(*                                                                         *)
(* A seed orders the members and a budget of bytes chooses the planned     *)
(* ones; workers read those until the deadline; every member that was not  *)
(* read is then looked up once more; and the result is published whole or  *)
(* refused.  A byte of the model is a unit of the budget.  SourceReader    *)
(* says what a request returns; a ZIP archive is any result ZipArchive     *)
(* allows.                                                                 *)
(***************************************************************************)
EXTENDS Integers, Sequences, FiniteSets, FiniteSetsExt, SequencesExt

CONSTANTS Members,            \* sequence of [format, size, decoded: length of what a
                              \* tar.gz decodes to, corrupt, digest: one is declared]
          Budget, Allowance,  \* PlannedProcessedBytes, ArchiveAllowanceBytes
          Ratio,              \* ArchiveCaps.CompressionRatio
          Workers, Spools,    \* 16 and 2 of the code
          Floor,              \* counts below it are not published
          MaxChanges          \* bound of the model

Ids == DOMAIN Members
Archive(i) == Members[i].format \in {"zip", "tar.gz"}

VARIABLES order,    \* the members by their rank under the seed
          next,     \* the counter of parallel
          job,      \* what the census knows of each member
          expired,  \* the deadline has passed
          failed,   \* a worker could not get memory, or its spool failed
          phase,    \* "reads", "heads", "published" or "refused"
          looked,   \* members whose HEAD has been answered
          changed,  \* members the owner has overwritten
          before    \* those overwritten before the reads had ended

vars == <<order, next, job, expired, failed, phase, looked, changed, before>>

\* A worker has a member from "slot" to "done"; n counts decoded or read bytes.
NoJob == [at |-> "waiting", n |-> 0, plain |-> FALSE, state |-> "unread", reason |-> "",
          tag |-> "unread"]

Init ==
    /\ order \in {o \in [Ids -> Ids] : \A i, j \in Ids : o[i] = o[j] => i = j}
    /\ next = 1 /\ job = [i \in Ids |-> NoJob]
    /\ expired = FALSE /\ failed = FALSE /\ phase = "reads"
    /\ looked = {} /\ changed = {} /\ before = {}

-----------------------------------------------------------------------------
(* The plan *)

CostStored(i) == Members[i].size

Cost(i) == IF Archive(i) THEN Allowance ELSE Members[i].size

\* PlannedReadSet: a member that does not fit is left out, the next may fit.
Plan ==
    LET take(acc, i) == IF Cost(i) > acc.left THEN acc
                        ELSE [ids |-> acc.ids \cup {i}, left |-> acc.left - Cost(i)]
    IN  FoldLeft(take, [ids |-> {}, left |-> Budget], order).ids

-----------------------------------------------------------------------------
(* The workers *)

Active == {i \in Ids : job[i].at \notin {"waiting", "done"}}
Spooling == {i \in Ids : job[i].at \in {"open", "read"} /\ Members[i].format = "tar.gz" /\ ~job[i].plain}
Smaller(a, b) == IF a < b THEN a ELSE b

\* What the decoder may deliver of a tar.gz, and whether the cap on the ratio
\* stops it before the allowance.
Limit(i) == Smaller(Allowance, Members[i].size * Ratio)
Capped(i) == Members[i].size * Ratio < Allowance

At(i, at) == job' = [job EXCEPT ![i].at = at] /\ UNCHANGED failed
Unread(i, reason, n) ==
    /\ job' = [job EXCEPT ![i] = [@ EXCEPT !.at = "done", !.reason = reason, !.n = n]]
    /\ UNCHANGED failed
FullyRead(i, n) ==
    /\ job' = [job EXCEPT ![i] = [@ EXCEPT !.at = "done", !.state = "fully_read", !.n = n, !.tag = "full"]]
    /\ UNCHANGED failed
PartlyRead(i, reason) ==
    /\ job' = [job EXCEPT ![i] = [@ EXCEPT !.at = "done", !.state = "partly_read", !.reason = reason,
                                          !.tag = "decoded_prefix"]]
    /\ UNCHANGED failed
Idle == UNCHANGED <<order, next, expired, phase, looked, changed, before>>

\* parallel, scanCensus: the next member goes to a free worker.
Take ==
    LET i == next
    IN  /\ phase = "reads" /\ next <= Len(Members) /\ Cardinality(Active) < Workers
        /\ next' = next + 1
        /\ IF i \notin Plan THEN Unread(i, "not_sampled", 0)
           ELSE IF expired THEN Unread(i, "budget_exhausted", 0)
           ELSE At(i, IF Members[i].format = "tar.gz" THEN "slot" ELSE "open")
        /\ UNCHANGED <<order, expired, phase, looked, changed, before>>

\* readTarGzip: a place for the spool comes before the request.
Slot(i) ==
    /\ job[i].at = "slot"
    /\ \/ Cardinality(Spooling) < Spools /\ At(i, "open")
       \/ expired /\ Unread(i, "budget_exhausted", 0)
    /\ Idle

\* OpenRange.  It fails for a member that was overwritten, or for any reason.
Open(i) ==
    /\ job[i].at = "open"
    /\ \/ i \notin changed /\ ~expired /\ At(i, "read")
       \/ Unread(i, IF expired THEN "budget_exhausted" ELSE "read_error", 0)
    /\ Idle

\* A plain file: all of it, or an error; the deadline is looked at last.  A
\* declared digest has to match; it may not.
ReadPlain(i) ==
    LET size == Members[i].size
    IN  /\ job[i].at = "read" /\ Members[i].format = "plain"
        /\ \E n \in 0 .. size :
              IF expired THEN Unread(i, "budget_exhausted", n)
              ELSE \/ n = size /\ FullyRead(i, n)
                   \/ (n < size \/ Members[i].digest) /\ Unread(i, "read_error", n)
        /\ Idle

\* An archive by its name only gives its spool back and is read as a plain
\* file, within the allowance.
NotAnArchive(i) ==
    /\ job[i].at = "read" /\ Members[i].format = "tar.gz"
    /\ Members[i].decoded = 0 /\ ~job[i].plain
    /\ job' = [job EXCEPT ![i].plain = TRUE] /\ UNCHANGED failed
    /\ Idle

FinishPlain(i) ==
    LET size == Members[i].size
    IN  /\ job[i].at = "read" /\ job[i].plain
        /\ \E n \in 0 .. Smaller(size, Allowance) :
              IF expired \/ (n = Allowance /\ n < size) THEN Unread(i, "budget_exhausted", n)
              ELSE IF n < size THEN Unread(i, "read_error", n)
              ELSE FullyRead(i, n)
        /\ Idle

Tar(i) == job[i].at = "read" /\ Members[i].format = "tar.gz" /\ Members[i].decoded > 0

\* One more byte of the archive is decoded and spooled.
Decode(i) ==
    /\ Tar(i) /\ job[i].n < Smaller(Limit(i), Members[i].decoded)
    /\ job' = [job EXCEPT ![i].n = @ + 1] /\ UNCHANGED failed
    /\ Idle

\* The end of the archive, of the allowance, of the stream or of the time.
\* An archive earns credit as a whole only when the limit was not reached and
\* the trailer agrees.
FinishTar(i) ==
    /\ Tar(i)
    /\ \/ expired /\ PartlyRead(i, "budget_exhausted")
       \/ PartlyRead(i, "read_error")
       \/ /\ job[i].n >= Limit(i)
          /\ PartlyRead(i, IF Capped(i) THEN "archive_over_cap" ELSE "budget_exhausted")
       \/ /\ job[i].n = Members[i].decoded /\ job[i].n < Limit(i)
          /\ IF Members[i].corrupt THEN PartlyRead(i, "archive_corrupt") ELSE FullyRead(i, job[i].n)
    /\ Idle

\* readZip: ZipArchive says how it comes to its result.
ReadZip(i) ==
    /\ job[i].at = "read" /\ Members[i].format = "zip"
    /\ \/ \E n \in 0 .. Allowance, reason \in {"read_error", "archive_over_cap", "budget_exhausted"} :
             /\ job' = [job EXCEPT ![i] = [@ EXCEPT !.at = "done", !.state = "partly_read", !.n = n,
                                                   !.reason = reason, !.tag = "zip_entries"]]
             /\ UNCHANGED failed
       \/ \E n \in 0 .. Allowance : FullyRead(i, n)
       \/ Unread(i, "archive_corrupt", 0)
    /\ Idle

\* Memory that is not to be had, or a spool that cannot be written.
Fails(i) ==
    /\ i \in Active /\ ~failed
    /\ failed' = TRUE
    /\ job' = [job EXCEPT ![i] = [@ EXCEPT !.at = "done", !.reason = "read_error"]]
    /\ Idle

-----------------------------------------------------------------------------
(* The end *)

NeedsHeadUnsampled(i) == job[i].reason = "not_sampled"

NeedsHead(i) == job[i].state = "unread"

\* scanCensus: all workers have returned.  The look-ups have a time of their own.
EndReads ==
    /\ phase = "reads" /\ \A i \in Ids : job[i].at = "done"
    /\ phase' = IF failed THEN "refused" ELSE "heads"
    /\ before' = changed
    /\ UNCHANGED <<order, next, job, expired, failed, looked, changed>>

\* A HEAD names the size, the tag and the version that were signed.
LookUp(i) ==
    /\ phase = "heads" /\ NeedsHead(i) /\ i \notin looked
    /\ \/ i \notin changed /\ looked' = looked \cup {i} /\ UNCHANGED phase
       \/ phase' = "refused" /\ UNCHANGED looked
    /\ UNCHANGED <<order, next, job, expired, failed, changed, before>>

Publish ==
    /\ phase = "heads" /\ \A i \in Ids : NeedsHead(i) => i \in looked
    /\ phase' = "published"
    /\ UNCHANGED <<order, next, job, expired, failed, looked, changed, before>>

Deadline ==
    /\ ~expired /\ expired' = TRUE
    /\ UNCHANGED <<order, next, job, failed, phase, looked, changed, before>>

\* The owner overwrites the object of a member.
Overwrite(i) ==
    /\ i \notin changed /\ Cardinality(changed) < MaxChanges /\ phase \in {"reads", "heads"}
    /\ changed' = changed \cup {i}
    /\ UNCHANGED <<order, next, job, expired, failed, phase, looked, before>>

Next ==
    \/ Take \/ EndReads \/ Publish \/ Deadline
    \/ \E i \in Ids :
          \/ Slot(i) \/ Open(i) \/ ReadPlain(i) \/ NotAnArchive(i) \/ FinishPlain(i)
          \/ Decode(i) \/ FinishTar(i) \/ ReadZip(i) \/ Fails(i) \/ LookUp(i) \/ Overwrite(i)

Spec == Init /\ [][Next]_vars

-----------------------------------------------------------------------------
(* Properties *)

Shown == INSTANCE Disclosure
    WITH Classes <- <<"other">>, Units <- 1, MaxCount <- 1, MaxRows <- 1, input <- phase

Count(state) == Cardinality({i \in Ids : job[i].state = state})
ReadStates == [state \in {"fully_read", "partly_read", "unread"} |-> Count(state)]

\* ValidateCensusCoverage, of the cells that are shown for the read states.
ValidateCensusCoverage(members, planned) ==
    LET cells == Shown!partition(ReadStates, members, TRUE)[2]
        sum(states) == MapThenSumSet(LAMBDA c : c[2], {c \in cells : c[1] \in states})
        reads == {"fully_read", "partly_read", "other"}
    IN  /\ Count("fully_read") = members => planned = members
        /\ cells # {} => /\ sum(reads \cup {"unread"}) = members
                         /\ sum(reads) <= planned
                         /\ sum({"unread"}) >= members - planned

\* However the workers, the deadline and the owner interleave: what is read
\* stays within the budget that was signed; a member published as unread was
\* still the signed one when the reads had ended, one published as fully read
\* was read to its end; and the coverage is one the backend accepts
\* ("timing stops are publishable only after unread metadata was checked",
\* census.go:268; binding.go:89).
CensusHolds ==
    /\ MapThenSumSet(LAMBDA i : job[i].n, Ids) <= Budget
    /\ phase = "published" =>
          /\ \A i \in Ids :
                /\ job[i].state = "unread" => i \notin before
                /\ job[i].tag = "full" /\ Members[i].format = "plain" => job[i].n = Members[i].size
                /\ job[i].tag = "full" /\ Members[i].decoded > 0 =>
                      job[i].n = Members[i].decoded /\ ~Members[i].corrupt
          /\ ValidateCensusCoverage(Len(Members), Cardinality(Plan))
=================================================================================
