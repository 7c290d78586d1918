--------------------------- MODULE TransferLedger ---------------------------
(***************************************************************************)
(* The durable transfer ledger of internal/ledger/ledger.go for ONE order  *)
(* and file (every table it keeps is keyed by that pair), together with    *)
(* the download handlers of internal/door/door.go that drive it.           *)
(*                                                                         *)
(* The ledger is a single-connection SQLite database with synchronous=FULL:*)
(* a transaction is one step.  A handler is a goroutine; between its steps *)
(* other handlers, revocations, inventory scans, the clock and a crash may *)
(* intervene.  WriteChunk and the settlements take the order/file mutex    *)
(* ("lock"); Reserve, Revoke, PutOffer, PutFile and CloseExpired do not.   *)
(*                                                                         *)
(* A segment list is modelled by what it denotes: `serves' is the count of *)
(* every byte and `transmitted' the set of bytes.  Segments.tla checks the *)
(* list algorithms against exactly these readings.  A byte of the model    *)
(* stands for an arbitrary unit and Window units stand for 8 MiB.          *)
(***************************************************************************)
EXTENDS Integers, Sequences, FiniteSets

CONSTANTS
    JTI,           \* permissions issued for this order and file
    Req,           \* identifiers of rows of table requests
    Content,       \* contents the file may be found to have
    Ordered,       \* the content every permission of the order names (sha256)
    SizeOf,        \* size of each content
    SD, TD,        \* start and transfer deadline of each permission
    Window,        \* inventory.BlockSize, the checkpoint and crash window
    MaxServe,      \* serves allowed per byte: 2
    MaxIntervals,  \* bound of isolated coverage: 1024
    MaxAttempts,   \* tries of RecoverRequest after a failed checkpoint: 6
    MaxClock,      \* bound of the model's clock
    OfferStates,   \* states instructions may put the offer into
    Revocable,     \* permissions ai.market may revoke
    Crashes,       \* whether the process may die
    DBFaults,      \* whether a transaction may fail with an I/O error
    None           \* no request, no permission

ASSUME ConstantsAssumption ==
    /\ IsFiniteSet(Req) /\ None \notin Req /\ None \notin JTI
    /\ Ordered \in Content
    /\ SizeOf \in [Content -> Nat]
    /\ SD \in [JTI -> Nat] /\ TD \in [JTI -> Nat]
    /\ Window \in Nat \ {0}
    /\ MaxServe \in Nat \ {0}
    /\ MaxIntervals \in Nat /\ MaxAttempts \in Nat \ {0} /\ MaxClock \in Nat
    /\ OfferStates \subseteq {"offered", "withdrawn"} /\ Revocable \subseteq JTI
    /\ Crashes \in BOOLEAN /\ DBFaults \in BOOLEAN

VARIABLES
    (* durable: tables of the SQLite ledger *)
    file,        \* files: the content last recorded for the file
    offer,       \* offers: state of the listing-key offer of Ordered
    perm,        \* permissions: state of each jti
    revocations, \* revocations: every jti ever revoked
    serves,      \* serves: reserved or spent serves of each byte
    transmitted, \* transmitted: bytes checkpointed as written
    rq,          \* requests: one row per reservation
    completed,   \* completed: whether the order/file row exists
    outbox,      \* receipts_outbox, in seq order
    (* volatile: the process *)
    up,          \* whether ledger.Open has returned
    lock,        \* holder of the order/file transferLock
    pc,          \* where the handler of each request is
    chunk,       \* bounds of the WriteChunk call in progress
    outcome,     \* the outcome the handler will settle with
    attempts,    \* failed RecoverRequest calls
    (* environment and history *)
    clock,       \* time.Now().Unix()
    sentTo,      \* history: last byte of each request handed to the network
    hold         \* history: last byte each request still charges a serve for

tables   == <<file, offer, perm, revocations, serves, transmitted, rq, completed, outbox>>
volatile == <<lock, pc, chunk, outcome, attempts>>
vars     == <<tables, up, volatile, clock, sentTo, hold>>

-----------------------------------------------------------------------------
Bytes    == 0 .. SizeOf[Ordered] - 1
Outcomes == {"none", "aborted_deadline", "aborted_block_mismatch"}
Request  == [jti : JTI \cup {None}, start : Nat, end : Int,
             written_through : Int, open : BOOLEAN, isolated : BOOLEAN]
Receipt  == [outcome : Outcomes \cup {"in_progress", "complete"},
             tr : SUBSET Bytes, content : Content]
Labels   == {"free", "idle", "send", "checkpoint", "final", "settle",
             "recover", "gone"}

NoRequest == [jti |-> None, start |-> 0, end |-> -1, written_through |-> -1,
              open |-> FALSE, isolated |-> FALSE]
NoChunk   == [from |-> -1, goal |-> -1]

Least(a, b)    == IF a < b THEN a ELSE b
Monus(a, b)    == IF a > b THEN a - b ELSE 0

\* covered(tr, 0, size-1), and size = 0: the whole of content c is in t.
Full(t, c) == 0 .. SizeOf[c] - 1 \subseteq t

\* len(tr): maximal runs of consecutive bytes of t.
Intervals(t) == Cardinality({b \in t : b - 1 \notin t})

OpenIsolatedIgnored == 0
OpenIsolated == Cardinality({r \in Req : rq[r].open /\ rq[r].isolated})

Truncates(e, lo, hi) ==
    /\ \A b \in lo .. e : serves[b] # MaxServe
    /\ e < hi => serves[e + 1] = MaxServe

\* serves + 1 on lo..hi
ChargeShort(lo, hi) ==
    [b \in Bytes |-> IF b \in lo .. hi - 1 THEN serves[b] + 1 ELSE serves[b]]
Charge(lo, hi) ==
    [b \in Bytes |-> IF b \in lo .. hi THEN serves[b] + 1 ELSE serves[b]]

\* serves - 1 on max(start, keep+1)..end for every request of R
Release(R, keep) ==
    [b \in Bytes |->
        Monus(serves[b], Cardinality({r \in R : b \in rq[r].start .. rq[r].end
                                                /\ b > keep[r]}))]

\* UPDATE permissions SET state='closed' WHERE state IN ('issued','bound') ...
CloseBoundAny(P) ==
    [j \in JTI |-> IF j \in P /\ perm[j] # "absent" THEN "closed" ELSE perm[j]]
CloseBound(P) ==
    [j \in JTI |-> IF j \in P /\ perm[j] = "bound" THEN "closed" ELSE perm[j]]

Expired == {j \in JTI : TD[j] <= clock}

\* queueTx: the receipt is cumulative and carries the file row as it is now.
QueueReceipt(o, t) ==
    outbox' = Append(outbox, [outcome |-> o, tr |-> t, content |-> file])

-----------------------------------------------------------------------------
Init ==
    /\ file = Ordered /\ offer = "offered"
    /\ perm = [j \in JTI |-> "absent"] /\ revocations = {}
    /\ serves = [b \in Bytes |-> 0] /\ transmitted = {}
    /\ rq = [r \in Req |-> NoRequest]
    /\ completed = FALSE /\ outbox = <<>>
    /\ up = TRUE /\ lock = None
    /\ pc = [r \in Req |-> "free"] /\ chunk = [r \in Req |-> NoChunk]
    /\ outcome = [r \in Req |-> "none"] /\ attempts = [r \in Req |-> 0]
    /\ clock = 0
    /\ sentTo = [r \in Req |-> -1] /\ hold = [r \in Req |-> -1]

\* Every refusal of Reserve that does not depend on the range.
MayReserveRevoked(j) ==
    /\ perm[j] \in {"absent", "bound"} /\ clock < TD[j]
    /\ perm[j] = "bound" \/ (clock < SD[j] /\ offer = "offered")
    /\ ~completed /\ ~Full(transmitted, file)
MayReserve(j) ==
    /\ perm[j] \in {"absent", "bound"}
    /\ clock < TD[j]
    /\ perm[j] = "bound" \/ (clock < SD[j] /\ offer = "offered")
    /\ j \notin revocations
    /\ ~completed
    /\ ~Full(transmitted, file)

\* One request is admitted: first bind and reservation commit together.
Reserve(r, j, start, end) ==
    /\ up /\ pc[r] = "free"
    /\ MayReserve(j)
    /\ \E last \in start .. end :
         LET isolated == start > 0 /\ start - 1 \notin transmitted
         IN
           /\ Truncates(last, start, end)
           /\ isolated => Intervals(transmitted) + OpenIsolated + 1 <= MaxIntervals
           /\ perm' = [perm EXCEPT ![j] = "bound"]
           /\ serves' = Charge(start, last)
           /\ rq' = [rq EXCEPT ![r] =
                       [jti |-> j, start |-> start, end |-> last,
                        written_through |-> start - 1, open |-> TRUE,
                        isolated |-> isolated]]
           /\ sentTo' = [sentTo EXCEPT ![r] = start - 1]
           /\ hold' = [hold EXCEPT ![r] = last]
    /\ pc' = [pc EXCEPT ![r] = "idle"]
    /\ UNCHANGED <<file, offer, revocations, transmitted, completed, outbox,
                   up, lock, chunk, outcome, attempts, clock>>

\* FinishEmpty: an empty file completes without a request.
MayFinishEmptyAgain(j) ==
    /\ file = Ordered /\ SizeOf[file] = 0
    /\ j \notin revocations
    /\ clock < SD[j] /\ clock < TD[j]
    /\ perm[j] \in {"absent", "bound"}
    /\ perm[j] # "bound" => offer = "offered"
MayFinishEmptyRevoked(j) ==
    /\ file = Ordered /\ SizeOf[file] = 0
    /\ ~completed
    /\ clock < SD[j] /\ clock < TD[j]
    /\ perm[j] \in {"absent", "bound"}
    /\ perm[j] # "bound" => offer = "offered"
MayFinishEmpty(j) ==
    /\ file = Ordered /\ SizeOf[file] = 0
    /\ ~completed
    /\ j \notin revocations
    /\ clock < SD[j] /\ clock < TD[j]
    /\ perm[j] \in {"absent", "bound"}
    /\ perm[j] # "bound" => offer = "offered"

FinishEmpty(j) ==
    /\ up /\ lock = None
    /\ MayFinishEmpty(j)
    /\ perm' = [CloseBound(JTI) EXCEPT ![j] = "closed"]
    /\ completed' = TRUE
    /\ QueueReceipt("complete", transmitted)
    /\ UNCHANGED <<file, offer, revocations, serves, transmitted, rq, up,
                   volatile, clock, sentTo, hold>>

-----------------------------------------------------------------------------
(* WriteChunk *)

WritableWhenOpen(r) == rq[r].open
Writable(r) ==
    /\ rq[r].open /\ perm[rq[r].jti] = "bound"
    /\ ~completed /\ ~Full(transmitted, file)

\* The handler enters WriteChunk with the bytes up to goal: it takes the
\* lock, and keeps it for the network writes when every check passes.
BeginChunk(r, goal) ==
    /\ up /\ pc[r] = "idle" /\ lock = None
    /\ rq[r].written_through < rq[r].end
    /\ Writable(r) /\ clock < TD[rq[r].jti]
    /\ goal \in rq[r].written_through + 1 .. rq[r].end
    /\ lock' = r
    /\ pc' = [pc EXCEPT ![r] = "send"]
    /\ chunk' = [chunk EXCEPT ![r] = [from |-> rq[r].written_through, goal |-> goal]]
    /\ UNCHANGED <<tables, up, outcome, attempts, clock, sentTo, hold>>

\* A check of WriteChunk fails: the handler returns, and a passed transfer
\* deadline also closes every expired permission.
RefuseChunk(r) ==
    /\ up /\ pc[r] = "idle" /\ lock = None
    /\ rq[r].written_through < rq[r].end
    /\ \/ /\ ~(rq[r].open /\ perm[rq[r].jti] = "bound")
          /\ UNCHANGED <<perm, outcome>>
       \/ /\ rq[r].open /\ perm[rq[r].jti] = "bound"
          /\ clock >= TD[rq[r].jti]
          /\ perm' = CloseBound(Expired)
          /\ outcome' = [outcome EXCEPT ![r] = "aborted_deadline"]
       \/ /\ rq[r].open /\ perm[rq[r].jti] = "bound" /\ clock < TD[rq[r].jti]
          /\ ~Writable(r)
          /\ UNCHANGED <<perm, outcome>>
    /\ pc' = [pc EXCEPT ![r] = "settle"]
    /\ UNCHANGED <<file, offer, revocations, serves, transmitted, rq, completed,
                   outbox, up, lock, chunk, attempts, clock, sentTo, hold>>

\* End of the checkpoint window in which the next network write falls.
LimitUnwindowed(r) == chunk[r].goal
Limit(r) == Least(chunk[r].goal, rq[r].written_through + Window)

\* One network write of n bytes, possibly short or failed; it is called only
\* before the transfer deadline.
SendBytes(r, n) ==
    /\ up /\ pc[r] = "send" /\ clock < TD[rq[r].jti]
    /\ n \in 0 .. Limit(r) - sentTo[r]
    /\ sentTo' = [sentTo EXCEPT ![r] = @ + n]
    /\ IF sentTo'[r] = Limit(r) /\ Limit(r) < chunk[r].goal
       THEN pc' = [pc EXCEPT ![r] = "checkpoint"]
       ELSE \/ pc' = [pc EXCEPT ![r] = "final"]
            \/ n > 0 /\ sentTo'[r] < chunk[r].goal /\ UNCHANGED pc
    /\ UNCHANGED <<tables, up, lock, chunk, outcome, attempts, clock, hold>>

\* The deadline passes between two network writes of the same call.
SendExpired(r) ==
    /\ up /\ pc[r] = "send" /\ clock >= TD[rq[r].jti]
    /\ pc' = [pc EXCEPT ![r] = "final"]
    /\ UNCHANGED <<tables, up, lock, chunk, outcome, attempts, clock, sentTo, hold>>

\* Progress(id, w): the coverage, the row and an in_progress receipt commit
\* together.
ProgressReserved(r, w) ==
    /\ rq[r].open
    /\ transmitted' = transmitted \cup (rq[r].start .. rq[r].end)
    /\ QueueReceipt("in_progress", transmitted')
    /\ rq' = [rq EXCEPT ![r].written_through = w]
ProgressStaleReceipt(r, w) ==
    /\ rq[r].open
    /\ transmitted' = transmitted \cup (rq[r].written_through + 1 .. w)
    /\ QueueReceipt("in_progress", transmitted)
    /\ rq' = [rq EXCEPT ![r].written_through = w]
Progress(r, w) ==
    /\ rq[r].open /\ w >= rq[r].written_through /\ w <= rq[r].end
    /\ IF w > rq[r].written_through
       THEN /\ transmitted' = transmitted \cup (rq[r].written_through + 1 .. w)
            /\ QueueReceipt("in_progress", transmitted')
       ELSE UNCHANGED <<transmitted, outbox>>
    /\ rq' = [rq EXCEPT ![r].written_through = w]

\* A full window is checkpointed before the call writes on; a failed write
\* ends the loop after its window was checkpointed.
Checkpoint(r) ==
    /\ up /\ pc[r] = "checkpoint"
    /\ Progress(r, sentTo[r])
    /\ \E l \in {"send", "final"} : pc' = [pc EXCEPT ![r] = l]
    /\ UNCHANGED <<file, offer, perm, revocations, serves, completed, up, lock,
                   chunk, outcome, attempts, clock, sentTo, hold>>

\* The loop has ended: the rest is checkpointed, the deadline is looked at
\* again, the lock is released.  The handler goes on only after progress.
FinishChunkLocked(r) ==
    /\ up /\ pc[r] = "final"
    /\ Progress(r, sentTo[r])
    /\ pc' = [pc EXCEPT ![r] = "settle"]
    /\ chunk' = [chunk EXCEPT ![r] = NoChunk]
    /\ UNCHANGED <<file, offer, perm, revocations, serves, completed, up, lock,
                   outcome, attempts, clock, sentTo, hold>>
FinishChunk(r) ==
    /\ up /\ pc[r] = "final"
    /\ Progress(r, sentTo[r])
    /\ \/ /\ clock >= TD[rq[r].jti]
          /\ perm' = CloseBound(Expired)
          /\ outcome' = [outcome EXCEPT ![r] = "aborted_deadline"]
          /\ pc' = [pc EXCEPT ![r] = "settle"]
       \/ /\ clock < TD[rq[r].jti] \/ DBFaults
          /\ pc' = [pc EXCEPT ![r] = "settle"]
          /\ UNCHANGED <<perm, outcome>>
       \/ /\ clock < TD[rq[r].jti] /\ sentTo[r] > chunk[r].from
          /\ pc' = [pc EXCEPT ![r] = "idle"]
          /\ UNCHANGED <<perm, outcome>>
    /\ lock' = None
    /\ chunk' = [chunk EXCEPT ![r] = NoChunk]
    /\ UNCHANGED <<file, offer, revocations, serves, completed, up, attempts,
                   clock, sentTo, hold>>

\* The checkpoint transaction fails: bytes are sent that no table records, so
\* the door leaves the settlement to RecoverRequest (ErrProgress).
ProgressFails(r) ==
    /\ DBFaults
    /\ up /\ pc[r] \in {"checkpoint", "final"}
    /\ sentTo[r] > rq[r].written_through
    /\ pc' = [pc EXCEPT ![r] = "recover"]
    /\ lock' = None
    /\ chunk' = [chunk EXCEPT ![r] = NoChunk]
    /\ UNCHANGED <<tables, up, outcome, attempts, clock, sentTo, hold>>

\* The door stops between two chunks: the range is done, the buyer is gone,
\* the file cannot be read or a block does not have its recorded hash.
StopDownload(r, o) ==
    /\ up /\ pc[r] = "idle"
    /\ o \in {"none", "aborted_block_mismatch"}
    /\ o # "none" => rq[r].written_through < rq[r].end
    /\ outcome' = [outcome EXCEPT ![r] = o]
    /\ pc' = [pc EXCEPT ![r] = "settle"]
    /\ UNCHANGED <<tables, up, lock, chunk, attempts, clock, sentTo, hold>>

-----------------------------------------------------------------------------
(* Settlement *)

\* A complete receipt must report as many bytes as the file row has.
Reportable == completed \/ Cardinality(transmitted) = SizeOf[file]

\* Variants of SettleTx: a crash settlement that never completes the order,
\* one that forgets the completed row, one that reports an outcome after it.
SettleRows(R, keep) ==
    /\ serves' = Release(R, keep)
    /\ rq' = [r \in Req |-> IF r \in R THEN [rq[r] EXCEPT !.open = FALSE] ELSE rq[r]]
    /\ hold' = [r \in Req |-> IF r \in R THEN keep[r] ELSE hold[r]]
    /\ UNCHANGED <<file, offer, revocations, transmitted>>
SettleComplete ==
    /\ perm' = CloseBound(JTI) /\ completed' = TRUE
    /\ QueueReceipt("complete", transmitted)
SettleTxCrashSilent(R, keep, crash, o) ==
    /\ SettleRows(R, keep)
    /\ IF R # {} /\ ~crash /\ ~completed /\ Full(transmitted, file)
       THEN SettleComplete ELSE UNCHANGED <<perm, completed, outbox>>
SettleTxTwice(R, keep, crash, o) ==
    /\ SettleRows(R, keep)
    /\ IF R # {} /\ Full(transmitted, file)
       THEN SettleComplete ELSE UNCHANGED <<perm, completed, outbox>>
SettleTxTail(R, keep, crash, o) ==
    /\ SettleRows(R, keep)
    /\ IF R # {} /\ ~completed /\ Full(transmitted, file)
       THEN SettleComplete
       ELSE /\ IF R # {} /\ o # "none" THEN QueueReceipt(o, transmitted)
                                   ELSE UNCHANGED outbox
            /\ UNCHANGED <<perm, completed>>

\* settle for every request of R (its rows still open), in one transaction:
\* keep[r] is the last byte r is charged for.
SettleTx(R, keep, crash, o) ==
    /\ serves' = Release(R, keep)
    /\ rq' = [r \in Req |-> IF r \in R THEN [rq[r] EXCEPT !.open = FALSE] ELSE rq[r]]
    /\ hold' = [r \in Req |-> IF r \in R THEN keep[r] ELSE hold[r]]
    /\ IF R # {} /\ Full(transmitted, file)
       THEN /\ Reportable
            /\ perm' = CloseBound(JTI)
            /\ completed' = TRUE
            /\ IF completed THEN UNCHANGED outbox
                            ELSE QueueReceipt("complete", transmitted)
       ELSE /\ IF R # {} /\ ~crash /\ o # "none" THEN QueueReceipt(o, transmitted)
                                             ELSE UNCHANGED outbox
            /\ UNCHANGED <<perm, completed>>
    /\ UNCHANGED <<file, offer, revocations, transmitted>>

Written      == [r \in Req |-> rq[r].written_through]
CrashChargedWritten == Written
CrashCharged == [r \in Req |-> Least(rq[r].end, rq[r].written_through + Window)]

\* The goroutine of r ends and its local variables with it.
Leave(r) ==
    /\ pc' = [pc EXCEPT ![r] = "gone"]
    /\ outcome' = [outcome EXCEPT ![r] = "none"]
    /\ attempts' = [attempts EXCEPT ![r] = 0]

SettleOutcome(r) ==
    /\ up /\ pc[r] = "settle" /\ lock = None
    /\ SettleTx({r} \cap {q \in Req : rq[q].open}, Written, FALSE, outcome[r])
    /\ Leave(r)
    /\ UNCHANGED <<up, lock, chunk, clock, sentTo>>

SettleBlocked == Full(transmitted, file) /\ ~Reportable

\* The door ignores the error of SettleOutcome: the row stays open.
SettleFails(r) ==
    /\ up /\ pc[r] = "settle" /\ lock = None
    /\ DBFaults \/ (rq[r].open /\ SettleBlocked)
    /\ Leave(r)
    /\ UNCHANGED <<tables, up, lock, chunk, clock, sentTo, hold>>

RecoverRequest(r) ==
    /\ up /\ pc[r] = "recover" /\ lock = None
    /\ SettleTx({r} \cap {q \in Req : rq[q].open}, CrashCharged, TRUE, "none")
    /\ Leave(r)
    /\ UNCHANGED <<up, lock, chunk, clock, sentTo>>

\* A failed RecoverRequest is tried again, MaxAttempts times in all.
RecoverRequestFails(r) ==
    /\ up /\ pc[r] = "recover" /\ lock = None
    /\ DBFaults \/ (rq[r].open /\ SettleBlocked)
    /\ IF attempts[r] + 1 < MaxAttempts
       THEN /\ attempts' = [attempts EXCEPT ![r] = @ + 1]
            /\ UNCHANGED <<pc, outcome>>
       ELSE Leave(r)
    /\ UNCHANGED <<tables, up, lock, chunk, clock, sentTo, hold>>

\* The process dies, or its context ends: every handler is lost with its
\* local variables, the tables stay.
Crash ==
    /\ Crashes
    /\ up /\ up' = FALSE
    /\ lock' = None
    /\ pc' = [r \in Req |-> IF pc[r] = "free" THEN "free" ELSE "gone"]
    /\ chunk' = [r \in Req |-> NoChunk]
    /\ outcome' = [r \in Req |-> "none"]
    /\ attempts' = [r \in Req |-> 0]
    /\ UNCHANGED <<tables, clock, sentTo, hold>>

\* ledger.Open runs Recover: every open row is settled as after a crash, or
\* Open fails and the process ends again.
Recover ==
    /\ ~up /\ up' = TRUE
    /\ SettleTx({r \in Req : rq[r].open}, CrashCharged, TRUE, "none")
    /\ UNCHANGED <<volatile, clock, sentTo>>

-----------------------------------------------------------------------------
(* The other users of the tables *)

\* An expired permission presented at the door closes every expired one.
CloseExpired ==
    /\ up
    /\ \E j \in JTI : clock >= (IF perm[j] = "bound" THEN TD[j] ELSE Least(SD[j], TD[j]))
    /\ perm' = CloseBound(Expired)
    /\ perm' # perm
    /\ UNCHANGED <<file, offer, revocations, serves, transmitted, rq, completed,
                   outbox, up, volatile, clock, sentTo, hold>>

Revoke(j) ==
    /\ up
    /\ perm' = [perm EXCEPT ![j] = IF @ = "absent" THEN "absent" ELSE "revoked"]
    /\ revocations' = revocations \cup {j}
    /\ UNCHANGED <<file, offer, serves, transmitted, rq, completed, outbox, up,
                   volatile, clock, sentTo, hold>>

PutOffer(s) ==
    /\ up
    /\ offer' = s
    /\ UNCHANGED <<file, perm, revocations, serves, transmitted, rq, completed,
                   outbox, up, volatile, clock, sentTo, hold>>

\* An inventory scan records the content it finds under the same file id.
PutFile(c) ==
    /\ up
    /\ file' = c
    /\ UNCHANGED <<offer, perm, revocations, serves, transmitted, rq, completed,
                   outbox, up, volatile, clock, sentTo, hold>>

Tick ==
    /\ clock < MaxClock
    /\ clock' = clock + 1
    /\ UNCHANGED <<tables, up, volatile, sentTo, hold>>

-----------------------------------------------------------------------------
\* A step of the handler of r after its reservation.
Handler(r) ==
    \/ \E goal \in Bytes : BeginChunk(r, goal)
    \/ RefuseChunk(r)
    \/ \E n \in 0 .. Window : SendBytes(r, n)
    \/ SendExpired(r)
    \/ Checkpoint(r)
    \/ FinishChunk(r)
    \/ ProgressFails(r)
    \/ \E o \in Outcomes : StopDownload(r, o)
    \/ SettleOutcome(r)
    \/ SettleFails(r)
    \/ RecoverRequest(r)
    \/ RecoverRequestFails(r)

Next ==
    \/ \E r \in Req, j \in JTI, start \in Bytes, end \in Bytes :
          start <= end /\ Reserve(r, j, start, end)
    \/ \E j \in JTI : FinishEmpty(j)
    \/ \E j \in Revocable : Revoke(j)
    \/ \E r \in Req : Handler(r)
    \/ \E s \in OfferStates : PutOffer(s)
    \/ \E c \in Content : PutFile(c)
    \/ CloseExpired \/ Crash \/ Recover \/ Tick

Spec == Init /\ [][Next]_vars

\* Handlers are goroutines the runtime keeps running, the response's write
\* deadline bounds a stalled write, and an exited process is started again.
FairSpec == Spec /\ (\A r \in Req : WF_vars(Handler(r))) /\ WF_vars(Recover)

-----------------------------------------------------------------------------
TablesOK ==
    /\ file \in Content /\ offer \in {"offered", "withdrawn"}
    /\ perm \in [JTI -> {"absent", "bound", "closed", "revoked"}]
    /\ revocations \subseteq JTI
    /\ serves \in [Bytes -> 0 .. MaxServe]
    /\ transmitted \subseteq Bytes
    /\ completed \in BOOLEAN
    /\ outbox \in Seq(Receipt)

RequestsOK ==
    /\ rq \in [Req -> Request]
    /\ sentTo \in [Req -> Int] /\ hold \in [Req -> Int]

ProcessOK ==
    /\ up \in BOOLEAN /\ lock \in Req \cup {None}
    /\ pc \in [Req -> Labels]
    /\ chunk \in [Req -> [from : Int, goal : Int]]
    /\ outcome \in [Req -> Outcomes]
    /\ attempts \in [Req -> 0 .. MaxAttempts]
    /\ clock \in 0 .. MaxClock

\* Every table, local variable and clock has a value of its kind; in
\* particular no byte is charged more than MaxServe serves.
TypeOK == TablesOK /\ RequestsOK /\ ProcessOK

(***************************************************************************)
(* Safety                                                                  *)
(***************************************************************************)
HeldBy(b) == {r \in Req : b \in rq[r].start .. hold[r]}
SentBy(b) == {r \in Req : b \in rq[r].start .. sentTo[r]}

\* The serve count of a byte is the number of requests charged for it: open
\* ones that reserved it and settled ones that kept it, whatever crashed
\* (Reserve, settle, Recover).
ServesAccounted == \A b \in Bytes : serves[b] = Cardinality(HeldBy(b))

\* No byte of the ordered file is handed to the network more than MaxServe
\* times, over all permissions, concurrent responses and restarts
\* (TestGLM2RepeatedCrashesNeverAllowThirdWrite).
NoThirdServe == \A b \in Bytes : Cardinality(SentBy(b)) <= MaxServe

\* What a request sent and the tables do not show yet is at most one window
\* after written_through, and a settled request is charged for what it sent.
OneWindowAtRisk ==
    \A r \in Req :
        /\ rq[r].start .. rq[r].written_through \subseteq transmitted
        /\ sentTo[r] <= rq[r].written_through + Window
        /\ sentTo[r] <= hold[r] /\ hold[r] <= rq[r].end

\* The coverage reported to ai.market contains only bytes some response sent.
TransmittedWasSent == \A b \in transmitted : SentBy(b) # {}

\* Isolated reservations are admitted against len(transmitted), so coverage
\* never has more than MaxIntervals + 1 runs: the extra one starts at byte 0
\* (TestExtendingShortWriteCapsAt1025).
CoverageBounded == Intervals(transmitted) <= MaxIntervals + 1

\* Receipts are cumulative, and the newest one always equals the coverage
\* table: Progress and settle queue it in the transaction that changes it.
ReceiptsCumulative ==
    /\ \A i, k \in 1 .. Len(outbox) : i < k => outbox[i].tr \subseteq outbox[k].tr
    /\ transmitted = IF outbox = <<>> THEN {} ELSE outbox[Len(outbox)].tr

\* The order completes once: one complete receipt exactly when the completed
\* row exists, it is the last word on the order, and no permission of the
\* order is usable afterwards (queueTx, settle,
\* TestGLM5EmptyCompletionClosesEveryJTI).
CompletesOnce ==
    /\ Cardinality({i \in 1 .. Len(outbox) : outbox[i].outcome = "complete"})
         = IF completed THEN 1 ELSE 0
    /\ \A i \in 1 .. Len(outbox) : outbox[i].outcome = "complete" => i = Len(outbox)
    /\ completed => \A j \in JTI : perm[j] # "bound"

\* A revocation outlives everything: the jti is unknown for ever or revoked
\* for ever (revokeTx, TestUnknownRevocationBlocksLaterBind).
RevokedNeverBound == \A j \in revocations : perm[j] \in {"absent", "revoked"}

\* Full coverage that is not completed yet always has an open request whose
\* settlement, or whose recovery at the next start, will complete the order.
CoverageHasCloser ==
    (SizeOf[Ordered] > 0 /\ Full(transmitted, Ordered) /\ ~completed)
        => \E r \in Req : rq[r].open

\* A complete receipt certifies the content the permissions name.
CompleteNamesOrdered ==
    \A i \in 1 .. Len(outbox) :
        outbox[i].outcome = "complete" => outbox[i].content = Ordered

(***************************************************************************)
(* Steps                                                                   *)
(***************************************************************************)
\* None writes after completion closes the order (comment of WriteChunk).
NoByteAfterComplete == [][completed => UNCHANGED sentTo]_vars

\* A permission never comes back: closed and revoked are left only for
\* revoked, and coverage and receipts are never taken back, by a crash or
\* otherwise.
LedgerOnlyAdvances ==
    [][/\ \A j \in JTI : /\ perm[j] = "revoked" => perm'[j] = "revoked"
                         /\ perm[j] = "closed" => perm'[j] \in {"closed", "revoked"}
       /\ transmitted \subseteq transmitted'
       /\ completed => completed'
       /\ Len(outbox) <= Len(outbox')]_vars

(***************************************************************************)
(* Liveness                                                                *)
(***************************************************************************)
\* No response leaves its reservation charged for ever.
EveryRequestSettles == \A r \in Req : rq[r].open ~> ~rq[r].open

\* Once every byte is reported, the complete receipt follows.
CoverageCompletes ==
    (SizeOf[Ordered] > 0 /\ Full(transmitted, Ordered)) ~> completed

\* A stopped gateway recovers its ledger and serves again (README, run).
RestartRecovers == ~up ~> up
=============================================================================
