# AIM Data Gateway: TLA+ models and proofs

The gateway runs beside a seller's files. It is paired with ai.market, tells it
which files exist, serves permitted downloads to buyers with an exact account of
every byte, and runs verification scans on its own data. This directory models
the parts of it that keep state, the two verifiers hosted with cloud providers
that belong to it, and the algorithms that decide what leaves the premises.
`TLC` checks every model on small instances; `TLAPS` proves the safety of all of
them, but for the census, the ZIP reader, the segment lists and the suppression
of small counts, for all values of the constants.
Paths below are relative to `src/`.

## 1. The system

| Component | Source | State | Operations | Correct when |
|---|---|---|---|---|
| Delivery ledger | `internal/ledger/ledger.go` | tables `files`, `offers`, `permissions`, `requests`, `serves`, `transmitted`, `completed`, `revocations`, `receipts_outbox` | `Reserve`, `WriteChunk`, `Progress`, `SettleOutcome`, `FinishEmpty`, `CloseExpired`, `Revoke`, `Recover`, `PutFile`, `PutOffer`, `Prepare`, `Approve` | no byte is served more than twice, receipts say exactly what was transmitted, an order completes once and stays silent afterwards |
| HTTP door | `internal/door/door.go` | one goroutine per request | the two downloads of `download` | every response is settled, however it ends |
| Audit log | `internal/audit/audit.go` | signed, chained lines in rotated files; `failed` latch | `Append`, `Read`, `Walk`, recovery in `Open` | one chain, also after torn or failed appends |
| Control channel | `internal/channel/channel.go`, `internal/gateway/gateway.go` | connection, lanes, `sent`; `seen_instructions`, `pins.json` | `Connect`, `sendNew`, ack and resume, `Handle`, `Poll`, `Reconcile` | the server's copy is a prefix of the log; each instruction takes effect, answers agree |
| Verification lane | `internal/verification/runner.go`, `audit.go`, `internal/ledger/verification.go` | admissions, daily quota, clock high-water, local events, one pending job, one worker | `Submit`, `run`, `Flush`, `Start`, `Recover`, `Prune` | a source is read once per consent, after the audit, and every admitted scan is reported |
| Keys and pairing | `internal/verification/keys.go`, `internal/pairing/pairing.go` | key, secret, pin and marker files | `Pair`, `Load`, `OpenKeys`, `Acknowledge` | never half a pairing, never a second identity |
| AWS verifier | `internal/awsverification` | DynamoDB items, Secrets Manager | `Invoke`, `recover`, `Admit`, `Commit`, `Settle` | as the verification lane, over optimistic transactions |
| Cloudflare verifier | `deploy/cloudflare-verifier`, `internal/cloudflareverification` | Durable Object tables, lease, task | `pollTask`, `recover`, `claim`, `admit`, `commit`, `settle` | as the verification lane, over a lease |
| Inventory | `internal/inventory`, `Gateway.Scan` | `previous`, rows of `files`, batches in the log | directory scan | a record is of the content it names; what was announced is also reported missing |
| Column profile | `internal/profile` | none across calls | `FileContext` | kinds, nulls and counts are those of all rows |
| Scanner library | `verification` | none across calls | two-pass table scan, census, ZIP and tar.gz, suppression | facts of one content, within the budget, no small count to be found |
| Cloud source readers | `awsverification/s3.go`, `cloudflareverification/reader.go`, `source.go` | one window of read-ahead | `Open`, `ReadAt` | only bytes of the signed object |
| Wire, config, ids, canary, self-check, commands | `internal/*`, `cmd` | none | parsing, signing, probes | |

**Interaction.** The channel reads instructions from one WebSocket, queues them
on a lane and calls `Gateway.Handle`, which changes the ledger and returns an
answer for the audit log. A download calls `Reserve`, then `WriteChunk` for each
window while holding `writeMu`, and settles when it ends. Settlement puts a
receipt into `receipts_outbox`; `Poll` copies it to the audit log; `sendNew` sends
log entries; the server acknowledges or, after a reconnect, resumes. Inventory
scans replace file rows while all of this goes on. Verification specs arrive on
the same connection, but have a lane of their own; its reports leave through the
same log.

**What is hard.** (1) Bytes go to the network before they can be recorded, so a
crash leaves a window nobody knows about. (2) Several requests of one order
overlap, end in any order and may all fail. (3) Revocation, withdrawal, expiry
and inventory scans come at any moment. (4) The log, the tables and the server
each hold a copy of what was delivered, with a failure possible between any two
updates; the inventory and the state volume have copies of their own. (5) A
verification job passes seven durable steps between consent and report, may be
redelivered at each, and may run once only. (6) Contexts of connections, leases
and deadlines of invocations end work that is half done, or fail to end work
that has a successor. (7) The owner of the data writes to it while it is
scanned. `PROJECT.json` lists each hazard at its line with the properties that
cover it, or why none does yet.

## 2. Modules

| Module | Stands for |
|---|---|
| `TransferLedger` | the ledger tables of one file of one order, the chunk writer and the door's download |
| `DeliveryContract` | what a delivery promises: bytes handed out, bytes reported, completion |
| `TransferRefinement` | the mapping of `TransferLedger` to `DeliveryContract` |
| `TransferLedgerProofs` | theorems about the ledger, its receipts, completion and refinement |
| `Segments` | the segment lists that store the counts and coverage of `TransferLedger` |
| `ReceiptDelivery` | outbox, audit log, channel and the server's copy |
| `OrderedDelivery` | its contract: each receipt reaches the log once and in order |
| `ReceiptDeliveryProofs` | theorems about both |
| `ControlChannel` | lanes and workers of a connection, the handling of instructions, offers, approvals, pins |
| `ControlChannelProofs` | theorems about it |
| `VerificationLane`, `VerificationLaneProofs` | the verification runner; theorems about it |
| `AwsVerifier`, `CloudflareVerifier` | the two hosted verifiers |
| `VerifierContract` | their contract: one admission per consent, one read, one report |
| `AwsVerifierProofs`, `CloudflareVerifierProofs` | theorems: each of the two implements the contract |
| `Verifiers` | the two of them beside each other |
| `RunnerSecret` | the secret of the AWS verifier, its fence, registration and key rotation |
| `StateVolume` | the files pairing and the verification keys leave on the volume of a gateway |
| `StateVolumeProofs` | theorems about it |
| `Inventory` | scans of directories that are written to, batches, restart |
| `Profile` | the column profile of one file |
| `SourceReader` | one object of a bucket as the scanner reads it |
| `Scanner` | the two passes over the tables of a listing |
| `Census`, `ZipArchive` | the census of all other members; one ZIP archive of it |
| `Disclosure` | the suppression of small counts, by value |
| `Parts`, `PartsProofs` | `StateVolume`, `RunnerSecret`, `SourceReader`, `Inventory`, `Profile`, `Scanner` and a small `TransferLedger` beside each other; theorems about them |
| `MCTransferLedger`, `MCControlChannel`, `MCVerificationLane`, `MCVerifiers`, `MCParts` | instances for TLC |

`MCTransferLedger` and `Verifiers` each run up to two instances that share
variables, and `Parts` and `MCParts` the parts that meet no other part at run time:
a behaviour is one of a single instance, chosen in the initial state, and a
property of one part says nothing of the others. `Parts` holds those that are
proved about, among them one permission of a `TransferLedger` with isolated
requests (`Frag`): it is an instance of `TransferLedgerProofs`, so its theorems hold of
it. `MCParts` gives the constants their values and adds `Segments`, `Disclosure`,
`Census` and `ZipArchive`, whose constants are fixed where they are instantiated and
whose variables are those of `Frag` (`p1` to `p18`); a behaviour of `MCParts` is one
of `Parts` together with that of an added part.

### TransferLedger

A `jti` is a permission, `Req` a request id that is used once. `serves` counts
for each byte how often it was charged, `transmitted` is the recorded coverage,
`rq` the rows of `requests` and `outbox` the receipts. `sentTo` and `hold` are
the volatile part: how far the response of a request got, and which request is
inside `WriteChunk` with `writeMu` held. Each transaction is one action, and so
is the handing of a window to the network between two transactions; that is
where crashes and concurrent requests come in. `Reserve`, `BeginChunk`,
`SendBytes`, `Checkpoint`, `FinishChunk`, `SettleTx`, `RecoverRequest`,
`FinishEmpty`, `CloseExpired`, `Revoke`, `PutOffer`, `PutFile` and `Recover` are
the operations of the same names; the actions ending in `Fails` are their error
paths. Files are abstracted to their content, and contents to sizes. The door's
checks before `Reserve` are merged into `MayReserve`, since `Reserve` repeats
those that matter in its transaction. `Segments` justifies that counts and sets
replace the lists of segments of the code.

### ReceiptDelivery

`outbox` and `audited` are the tables, `log` the audit log, `memory` of the
process are the unmarked receipt of `Poll` and the latch of the log; the channel
is a connection with the entries under way and the acknowledgments. An append
may fail with or without its line on disk; `Recovered` is what `audit.Open`
makes of the file; `MarkLogged` is the walk of `gateway.Open`. The server stores
entries in order and may forget a suffix while it is disconnected, which is the
external assumption behind `resume`.

### ControlChannel

`lane` holds the queued jobs of a connection, `worker` the instruction each lane
works on, with a program counter that stops before every statement, save and
append: `handle` (`WasSeen`), `effect`, `lock` (`keyMu`), `append`, `complete`.
`Drop` is the end of a connection. What its workers would do next on the ledger
fails on the cancelled context, so only those survive, as `old` workers, that are
about to save pins or to append an answer. `seen`, `offer`, `stored`, `revoked` and
`perm` are the tables as far as instructions touch them, for one file in one
listing version and one permission; `disk` and `pins` are `pins.json` and its copy
in memory. `KeepsApproval` is the `CASE` of the upsert in `PutOffer`. ai.market is
external: it sends any issued instruction at any time, seen or not, and one
behaviour follows one of the `Workloads`. The scan is the job that occupies the
lane, not its effect on files.

### VerificationLane

`adm` is the table of admissions with the state, the result and the log entry of
each spec; `daily` and `highWater` are the quota and the clock row; `events` and
`mirrored` are the local events in the table and in the synced file. `sub`,
`worker` and `flush` are the program counters of `Submit` (under `Runner.mu`), of
the worker goroutine and of whoever is in `flush` (under `outboxMu`). `sub.ctx` is
the context of the connection for which `Submit` works and `live` the jobs whose
connection stands. The clock is its highest reading; an operation may read up to
`MaxLag` less. Any statement, mirror or append may fail (`Faulty`), which latches
`failed` as `Runner.fail` does; the model separates these from failures caused by
a cancelled context alone. Events that only matter to a reader of the file
(`received`, `refused`) are steps that can fail but leave no trace.

### AwsVerifier and CloudflareVerifier

Both keep one unsettled spec in `active`, a row per spec in `row`, and the history
`ever`, `runs` and `told` that `VerifierContract` speaks of. In `AwsVerifier` an
invocation is a program counter with the copies it has read, several run at once,
and the platform ends each at `Kill`. A DynamoDB transaction is one action whose
guard is its condition; `AdmitUnanswered` is the one whose answer is lost. The
clocks of the hosts differ by `Behind`. In `CloudflareVerifier`, `run` is the one
poll task: it runs in the alarm of the object, which awaits it
(`deploy/cloudflare-verifier/worker.mjs:1322`), and alarms of one object do not
overlap. A step is what the task does between two awaits of I/O, so `Registered`
saves the registration and goes on into the recovery. The cron trigger, time and
the platform interleave with it. The container serves one call at a time, named
by `serving`; a call may last `Compute`. Eviction ends the task and keeps the tables
and the schedule (`due`), so the poll is run again; the container may work on for
the task that is gone (`Orphaned`), also when the lease has run out and the next
task has recovered its spec. Left out in both: rows of
events, the expiry of rotated keys, and the binding of an installation. Left out
in `AwsVerifier`: a body in several chunks. Left out in `CloudflareVerifier`:
backoff and `next_poll`, which only delay, `poll_stopped` and a registration
that expires, which only stop it, and signing a refused registration anew.

### RunnerSecret and StateVolume

`RunnerSecret` has the lease, the fence row, the immutable versions of the secret,
and invocations with the secret they loaded. A token that was rotated already
(`internal/awsverification/bootstrap.go:187`) changes nothing and is no step. A put may be done and its answer
lost. `StateVolume` separates what a directory shows from what is durable in it;
`Sync` makes the first the second, `HostCrash` keeps any subset of the changes and
`Kill` all of them. Each file is named by the attempt or random value it holds.
The backend takes a pairing code once and answers one nonce with one runner; the
operator changes code and image only while no process runs.

### Inventory and Profile

A file is its blocks and its time, and each write draws a fresh value for both, so
two writes within a tick of the file system's clock are not in the model. A scan
looks at a file (`Walk`), reads it block by block, puts rows, those of missing files
last and in any order, as they come from a map, and appends batches;
`disturbed` marks that two scans overlapped or an append failed, after which the
next scan may announce differently. `Profile` is the accumulators of one pass; a
cell is a value, a null or missing, and a row may fail to parse.

### SourceReader, Scanner, Census, ZipArchive, Disclosure

`SourceReader` has the generations of an object, the window of a reader and the
call in progress; the bridge may answer anything. `Scanner` reads every member
twice from a disk that changes, pins blocks in the first pass and compares them in
the second; a block is one cell. `Census` is the order a seed gives, the plan
under a budget, workers, the deadline, the HEAD of what was not read, and the
publication; a ZIP in it has any result that `ZipArchive` can have. `ZipArchive`
takes any directory its writer may have written: entries out of order,
overlapping, encrypted, of false sizes. `Disclosure` is a set of operators,
with the calls of `partition` as its initial states, by the field they are for
(`(*censusRaw).finish`): the population is the sum of the counts for classes and
read states, at least the sum for the reasons of unread members, since fully
read ones have none, and any number from the floor on for the reasons of unread
archive entries. Each field is judged by itself. Left out: the candidates of a
ZIP for which `Census` falls back to plain content, and nested columns of Parquet
in `Profile`.

## 3. Runs

| Run | Instance | Shows |
|---|---|---|
| `serve_cap` | 3 overlapping requests, window 1, crashes and failing transactions | counts, risk window, receipts, refinement of the contract |
| `permissions` | 2 permissions with different deadlines, 2 requests, 2 bytes, revocation, withdrawal, crashes; or an empty file that may change | completion is once, final, silent; liveness of settlement and completion |
| `wrong_content`, `restart_blocked` | the file shrinks | findings 1 and 2 |
| `receipts` | 2 receipts and another entry, failures, crashes, forgetting server | log, marks and server agree; every receipt is stored |
| `control` | six workloads of one or two instructions, a periodic scan, lanes of 3, two faults | seen is done, answers agree, approvals and pins survive, no instruction is lost |
| `key_classes` | one rotation | finding 4 |
| `verification` | a scan, a probe and a second probe under the consent of the first | reads, consent, quota, audit order, reports |
| `reconnect` | the same without failing operations | finding 3 |
| `verifiers` | two invocations, or a poll task and the container of one that was evicted; a scan, a probe under its consent, and more probes; a fault | both verifiers implement `VerifierContract`; the AWS one forgets no spec and settles every one |
| `parts` | the parts of `MCParts` one at a time, and three isolated requests over 5 bytes | list algorithms, interval limit, reader, identity, inventory, profile, disclosure, scanner, census and ZIP |
| `remainder` | the calls of `partition` alone | finding 5 |

Deadlock checking is off where the system may stop: bounded receipts, specs and
faults run out, and a scan or a profile ends.

**Bounds.** Two requests suffice for every race of a pair; a third one is there
for the serve cap of two and the interval limit, which two requests cannot
exceed. Files have 1 to 5 windows of one byte: `Window` only separates what is
recorded from what is not, and one window at risk is the interesting case. Two
permissions are needed for an order that is completed by the other one. Two
receipts and one foreign entry give every order of mark, append and ack. Three
specs give a queue that is full, a replay of a consent and a quota that is
exceeded; four clock readings let a probe be pruned and the clock fall back after
it; two faults give a crash during the recovery from a crash. Pairs of
instructions cover the interplay of two on one row, and a worker that outlives
its connection with the one that repeats its instruction; a lane of 3 is full
when the periodic scan meets a scan and two instructions. Two invocations, or
a task and the call an evicted one left behind, are the pair of a late one and its
successor; the clock runs just beyond the
last deadline of a spec, and the durations keep the order of the real ones. Two
processes, two codes, two images and one crash of the host in `StateVolume` give a
crash in an upgrade; two tokens and four invocations a rotation that dies at its
fence. Two files of up to two blocks and one write are a file that changes
while it is read. Two members of up to two blocks and one write separate the
passes of `Scanner`; four members, two workers and one overwritten object fill
every place of `Census`; two entries of any place and size, or three of size
one, lie out of order, overlap and exceed the allowance of a ZIP, and a fourth is
one more than are read. `Disclosure` has a floor of 3 instead of
10 and all counts up to 7 in three classes, which is where merging twice first
happens. The constants named
`Max...` are the only bounds on counters; `MaxServe`, `MaxIntervals` and `MaxAttempts` are limits
of the code itself.

**Fairness.** Weak fairness of a handler, of `Recover`, of the poll and send
loops and of the verification goroutines says that a goroutine that can run does
and that a stopped gateway is started again. `VerificationLane` assumes strong
fairness where the worker waits for `outboxMu`, because a Go mutex hands itself
over to a waiter of more than a millisecond. Nothing is assumed of the network,
of failures or of the clock, except that ai.market keeps sending what is not
seen (`ControlChannel`). For the AWS verifier, a schedule invokes it again and
again, an invocation runs or is ended by the platform, and time passes. In
`ControlChannel` an instruction is lost only with the key that signed it, and
only what fits into a lane beside the scan may be outstanding: with more than 63
instructions and a scan that lasts longer than their arrival, every connection
would end before the first instruction is handled. `EveryRequestSettles` is
checked with transactions that commit, since a disk that refuses for ever blocks
settlement for ever, and so is `CoverageCompletes`; what a failing transaction leaves
to be settled is `CoverageHasCloser`, in `serve_cap`. `PaidReported` assumes that the
signed spec of a scan is accepted again when `Recover` reads it
(`internal/verification/runner.go:580`): the refusal of that check is not modelled.

## 4. Proofs

Each proof module states an inductive invariant, shows that the initial states
satisfy it and that every action keeps it, and derives the properties from it.
The assumptions on constants are the named `ASSUME`s of the modules, which TLC
evaluates; where a theorem needs more, its `ASSUME` says so.

**`TransferLedgerProofs`**, for every number of requests, permissions and bytes,
every window and serve limit:

* `TypeCorrect` (`TypeOK`), from `TypeInv`: the types and `RowOK`, what the
  columns of a request row say of each other in each state. Without `RowOK` the
  counts could not be bounded, since `Release` subtracts what a row says was
  charged.
* `ServesExact` (`ServesAccounted`): the count of every byte is the number of
  requests charged for it. Each action changes the charge of one request, so
  the argument is a lemma on the cardinality of a set that gains or loses one.
* `CoverageSent`, `OneWindow`, `ServeCap` (`TransmittedWasSent`,
  `OneWindowAtRisk`, `NoThirdServe`), from `CoverageInv`: what is recorded lies
  within what was sent, and what was sent within what is charged. Together with
  `ServesExact` and the cap in `Reserve` no byte goes out a third time.
* `SilenceAfterComplete` (`NoByteAfterComplete`), from `WriterInv`: whoever is
  inside `WriteChunk` has a bound permission and an open row, and completion
  needs `writeMu`.
* `RevocationHolds` (`RevokedNeverBound`).
* `CumulativeReceipts` (`ReceiptsCumulative`): receipts name what was recorded
  when they were written, and that only grows.
* `NothingTakenBack` (`LedgerOnlyAdvances`), an action property.
* `FragmentsBounded` (`CoverageBounded`), from `FragmentInv`: an open request that
  may add an interval has reserved one, so intervals and reservations together
  stay within `MaxIntervals`. Run `parts` checks it of the instance `Frag`, of which
  `PartsBoundFragments` states it.
* `CompletionOnce`, `CoverageCloses` (`CompletesOnce`, `CoverageHasCloser`), from
  `CompleteInv`, and `LedgerRefinesContract`: every step of the ledger is a step or
  a stutter of `DeliveryContract`. These three assume `StableSize`: scans find
  content of the ordered size, or the order is of an empty file. The hypothesis is
  needed, as findings 1 and 2 show what a file that shrinks does.

**`ReceiptDeliveryProofs`**, for any receipts, crashes, failures and a server that
forgets: `ServerFollowsLog`, `AuditMapInverts` and `DeliveredMeansHeld`
(`NeverDivergent`, `AuditMapExact`, `DeliveredIsHeld`), and `DeliveryRefines`: outbox,
log and recovery implement `OrderedDelivery`. The invariant says what the log
holds in terms of the outbox (`LogInv`: its receipts are the first ones, in order),
that a failed append can have left only the next receipt or another entry, and
only until the next start (`TailInv`), that the table points at the entry of every
receipt but perhaps the newest, which the process then remembers (`AuditInv`), what
`Poll` is about to append or to mark (`PollInv`), and that the server has a prefix
of the log and the acknowledgments under way are of that prefix (`ServerInv`).

**`ControlChannelProofs`**: `SeenMeansDone`, `RevocationAnswersOnce`,
`ApprovalNeedsConsent`, `SeenStaysPinned` and `SeenNeverSets` (`SeenIsDone`,
`RevocationAnswersAgree`, `ApprovalIsConsent`, `SeenIsPinned`, `SeenSetsNothing`), for
any instructions and keys. `Done` is everything that must be there before an
instruction may count as seen: its answer, its revocation, its pins in memory and
on disk. `WorkerInv` says of each worker that its instruction is not seen while its
effect is still to come, and that it is `Done` before it is completed, also beside
an `old` worker whose connection is gone; `RevocationInv` ties the stored state of a
permission to every answer in the log, and `WorkerInv` to the answer about to be
appended.

**`VerificationLaneProofs`**: `ReadsOnceAudited`, `ConsentSpentOnce` and `ReportsOnce`
(`ReadOnceAudited`, `ConsentAndQuotaHeld`, `ReportedOnce`). They assume
`RetainOutlives`: a row is kept longer than a spec lives plus what the clock may
fall back (30 days for one day in the code; the run satisfies it). `SpentInv` is the
reason: a spec, a consent or a day is spent because its row is there, or because
it is so old (`Gone`) that no reading of the clock makes it valid again. `RunInv`
follows a spec from its event to the read; `ReportInv` says that a report whose row
does not name it yet is the one being linked, or waits for the next start.

**`AwsVerifierProofs`**: `AwsKeepsContract` (`KeepsContract`) and `NothingIsForgotten`, which
`AwsVerifierForgetsNothing` restates for `Verifiers` (`AwsForgetsNothing`), for any
number of invocations and any interleaving of them. A live scan is alone,
since an invocation is ended before its successor can take the spec as abandoned
(`Kill + Behind <= Grace` in `TimingAssumption`: `ScanInv`); the row of a consent
outlives the freshness of its specs (`ConsentInv`); and whatever invocations are
about to report of one spec says the same as its row (`BodyInv`).

**`CloudflareVerifierProofs`**: `CloudflareKeepsContract`. No length of a call or of the
lease matters for safety: the container may work for an evicted task beside its
successor, but the bridge serves only the accepted spec that is active, and only
the task that admitted a spec asks for a scan of it, once. `StageInv` says what is
true of the task, and of the task the container works for, at each of its
stages; `KnownInv`, `ConsentInv` and `BodyInv` tie admissions, consents, reads and
reports to the rows. It assumes `Lasting`, the order of the durations, and `ConsentLasts`: two specs of one
authorization are issued so close that neither is fresh when the row of the other
may be pruned (the checks of `accepted_at` and `issued_at` in
`internal/cloudflareverification/work.go` and 30 days of retention in `state.ts`).
`Verifiers` assumes both, so TLC evaluates them on its instance.

**`StateVolumeProofs`**: `IdentityIsKept` (`VolumeKeepsIdentity`), for any number of
processes, starts, images and crashes of the host, where `None` is a value of its
own. `DiskInv` says that a name that is given once shows what is durable or is not
durable yet, and that the marker appears when its three files are durable; so a
crash can only take back what no process has used (`UsedInv`). `AloneInv`: a code
works once, so one process pairs, and one is inside `OpenKeys`. As long as the host
does not crash, all processes go by one binding or by one pending request
(`Usable`), and a nonce has one answer, so one runner is acknowledged (`RunnerInv`).

**`PartsProofs`** takes the other parts one by one. Each section proves a theorem
about the specification of a part from an inductive invariant of its own; the
last section carries them, `IdentityIsKept` and `FragmentsBounded` over to `PartsSpec`,
for the properties that run `parts` checks. The assumptions are the named `ASSUME`s of
`Parts`: numbers are numbers, every value has a type, a listing has members, and
`None`, `Null` and `Absent` are values of their own.

* `KeyHistoryIsKept`, in `PartsKeepIdentity` (`IdentityKept`), for any number of
  invocations that overlap or die. Secrets Manager has no conditional write, so
  the fence is what orders them. `SecretInv` says that a secret of the newest
  version is the current one for whoever holds it, that at most one invocation may
  put the version the fence names, and that its secret has every rotation that
  was recorded or is about to be (`PlansOK`); and that everything is of one key,
  the one drawn under the lease (`OneKey`).
* `PartsReadPinnedBytes` (`ReadsPinnedBytes`), from `ReaderInv`: the window of
  read-ahead is a part of the signed object at the offset it says (`Genuine`),
  whatever request failed before, and so is what a call has copied.
* `PartsKeepRecordsCurrent` (`InventoryCurrent`), from `RecordsInv`. A time is given
  once to a file, so what a scan has read of a file that still has the time it had
  when the scan looked is a part of its content (`Partial`), and a record of the time
  and size of the file has its hash (`Fair`), whichever scan wrote it. What the
  backend was told is an invariant of the reports that are still to be appended
  (`Applied`), as long as one scan runs (`AloneOK`).
* `PartsTellOfOneContent` (`FactsOfOneContent`), from `TablesInv`: a pin is the content
  the first pass read (`PinOK`), and what the second pass has read or decoded so far
  agrees with it (`Repeated`). The kind of a member is the one of the blocks read
  so far, whatever their order (`Inferred`).
* `PartsDescribeEveryRow` (`DescribesEveryRow`), from `ProfileInv`: after `n` rows the
  accumulator of a column has the nulls, distinct values and type of the first `n`
  rows (`AccOK`), also when the column appears in a later row and the rows before
  it are counted as nulls at once. The rounding of a rate to steps of five is a
  lemma of its own.
* `PartsBoundFragments` (`CoverageBounded`): a file of any size, any finite number of
  requests and any bound.

**Only model-checked.** Everything under fairness, since liveness is out of the
prover's reach: `EveryRequestSettles`, `CoverageCompletes`, `EveryReceiptStored`,
`EveryInstructionSeen`, `PaidReported` and `AwsAdmittedSettles` stay with TLC. So do
`SegmentsExact`, `SmallCountsHidden`, `ComplementHidden` and `CensusExact`: the list algorithms of
`Segments`, the merging loop and binary search of `Disclosure`, and the plan of a
census and the walk through the entries of a ZIP are folds or recursion over data
whose meaning takes an induction that the installed provers cannot instantiate.

## 5. Findings

1. **A receipt for other content** (`wrong_content`). `settle` takes size and hash
   of a receipt from the current file row (`internal/ledger/ledger.go:763`). When
   the file shrinks to what was already sent, an open request settles with a
   signed `complete` receipt that names the new content.
2. **A restart that never succeeds** (`restart_blocked`). When the file shrinks
   below what was sent, `queueTx` refuses the receipt
   (`internal/ledger/ledger.go:919`), the single transaction of `Recover` fails,
   and so does every start.
3. **A disconnect closes the verification lane** (`reconnect`). `Submit` records
   with the context of its connection (`internal/verification/runner.go:173`). If
   the connection ends while it waits for the snapshot, the refusal cannot be
   recorded, the failure latches, and specs are refused until the gateway is
   restarted.
4. **Listing and permission keys may share an id** (`key_classes`). A rotation is
   compared with the scan keys only (`internal/gateway/gateway.go:257`). The two
   keys then share one expiry, and scan keys can no longer be bootstrapped.
5. **A small complement is published** (`remainder`). `partition` "never publishes a
   small complement" (`verification/occupancy.go:142`), but merges only cells that
   are small themselves. The reasons of unread members are published with the
   population of all members (`occupancy.go:281`), and fully read members have no
   reason: of 25 members, 12 unread for one reason, 11 for another and 2 read,
   the cells 12 and 11 beside 25 give the 2 that `read_state` merges away.

One more was met while proving and has no run, because no line of the
repository claims the opposite. `OpenKeys` goes on with a pending registration
that it finds, without syncing the directory (`internal/verification/keys.go:133`).
If the process that wrote it was killed before its sync, the host may crash after
the binding that followed from it: then the binding is kept and the registration
is the one before. Should the operator return to the image of that older
registration, it is current again, still without a runner, and a second runner
can be acknowledged. `VolumeKeepsIdentity` therefore promises one runner only until
the host crashes; TLC finds the two runners with one process, five starts and one
crash when the restriction is removed.

## 6. Plan

Modelled and proved first: the ledger, since every other part reports what it
says; then what carries its reports and its instructions, the verification lane,
the hosted verifiers and the state volume; then the parts below them. What is
left: `CensusExact`, whose claim about the budget is a sum over the members that
were read and needs induction over a finite set, and the same for `ZipArchive`;
`Segments`, whose lists could be proved to denote counts and coverage if the
induction over their length could be cited; and models of the refusal counter of
the channel, of the records that two overlapping scans leave, and of a file that
changes between scan and profile, the hazards no property covers.

## 7. Not modelled

Signatures, encodings, HTTP and configuration appear as what they accept. The
detectors of content kinds, the canonical encoding and the schema of facts are
pure functions of bytes, one case after another, where TLC would only repeat
their tests. Decoders of CSV, JSON, Parquet, gzip and deflate appear as the
cells and bytes they deliver. The canary, the self-check, the preview of a
verification and the counter of refused specs keep no state that another part
reads. Two scans that overlap share a slice without a lock
(`internal/gateway/gateway.go:127`); `Inventory` lets scans overlap but does not
model that race. Release scripts, contract vectors and the deployment templates
are build tooling. Rows of several files or orders are independent in the ledger
except for the outbox sequence, which `ReceiptDelivery` covers, so
`TransferLedger` has one of each.
