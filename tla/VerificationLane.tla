--------------------------- MODULE VerificationLane ---------------------------
(***************************************************************************)
(* The verification lane of the gateway: Runner.Submit admits signed specs *)
(* (internal/verification/runner.go, internal/ledger/verification.go), one *)
(* worker runs them, and their reports go through the outbox into the      *)
(* audit log.  Every event of the lane is a row of a local table that is   *)
(* mirrored to a synced file (internal/verification/audit.go).             *)
(*                                                                         *)
(* Submit runs with the context of its connection and the worker with the  *)
(* one of the job, so a disconnect makes their reads and statements fail.  *)
(* The table of events keeps the accepted, finished and interrupted ones;  *)
(* the received and refused ones only matter here by their failure.        *)
(***************************************************************************)
EXTENDS Integers, Sequences, FiniteSets, FiniteSetsExt

CONSTANTS
    Specs,      \* signed specs
    Paid,       \* those with variant "scan"; the others are probes
    AuthOf,     \* owner authorization (and nonce) of each spec
    IssuedAt,   \* issue time of each spec
    ConsentAt,  \* when the owner gave each authorization
    Life,       \* how long a spec and a consent are valid (1 day)
    Quota,      \* admissions per listing and day (10)
    Retain,     \* age after which a delivered probe is pruned (30 days)
    MaxLag,     \* how far a reading of the clock may fall behind an earlier one
    MaxClock,   \* bound: clock readings 0 .. MaxClock
    MaxFaults,  \* bound: crashes, disconnects and failed operations
    Faulty,     \* whether ledger, audit and log operations may fail
    None

ASSUME LaneAssumption ==
    /\ Paid \subseteq Specs
    /\ IssuedAt \in [Specs -> Nat]
    /\ \A s \in Specs : ConsentAt[AuthOf[s]] \in 0 .. IssuedAt[s]
    /\ Life \in Nat /\ Quota \in Nat /\ Retain \in Nat
    /\ MaxLag \in Nat /\ MaxClock \in Nat /\ MaxFaults \in Nat
    /\ Faulty \in BOOLEAN /\ None \notin Specs

VARIABLES
    (* durable *)
    adm,       \* verification_admissions
    daily,     \* verification_daily: admissions of each day
    highWater, \* verification_clock
    events,    \* verification_local_events
    mirrored,  \* events in verification-audit.jsonl
    log,       \* specs whose scan_report is in the audit log
    (* the process *)
    status,    \* "down", "recovering" or "up"
    failed,    \* Runner.failed
    queue,     \* the pending slot
    sub,       \* the Submit that holds Runner.mu
    worker,    \* the worker goroutine; ctx: whether it has read its source
    live,      \* jobs still to be read whose connection stands
    flush,     \* the flush that holds outboxMu
    (* environment *)
    conn, faults,
    clock,     \* highest reading of the clock so far
    (* history *)
    runs,      \* how often the source of each spec was read
    consents,  \* admissions of each authorization
    accepted   \* admissions on each day

vars == <<adm, daily, highWater, events, mirrored, log, status, failed, queue,
          sub, worker, live, flush, conn, clock, faults, runs, consents, accepted>>
rows    == <<adm, daily, highWater>>
process == <<status, failed, queue, worker, live>>
outside == <<conn, clock>>
history == <<runs, consents, accepted>>

-----------------------------------------------------------------------------
Absent == [state |-> "absent", result |-> "none", seq |-> 0, at |-> 0, delivered |-> FALSE]
Idle   == [spec |-> None, pc |-> "idle", ctx |-> FALSE]
Free   == [by |-> "nobody", todo |-> {}, cur |-> None]
Days   == 0 .. MaxClock
Auths  == {AuthOf[s] : s \in Specs}

Exists(s)  == adm[s].state # "absent"
Readings == {now \in Days : clock - MaxLag <= now /\ now <= clock}
Valid(s, now) == /\ IssuedAt[s] <= now /\ now <= IssuedAt[s] + Life
                 /\ now <= ConsentAt[AuthOf[s]] + Life
Unlinked   == {s \in Specs : Exists(s) /\ adm[s].result # "none" /\ adm[s].seq = 0}
InLog(s)   == \E i \in DOMAIN log : log[i] = s
LastAt(s)  == Max({i \in DOMAIN log : log[i] = s})

Fault == Faulty /\ faults < MaxFaults /\ faults' = faults + 1

Init ==
    /\ adm = [s \in Specs |-> Absent] /\ daily = [d \in Days |-> 0] /\ highWater = 0
    /\ events = {} /\ mirrored = {} /\ log = <<>>
    /\ status = "up" /\ failed = FALSE /\ queue = <<>> /\ sub = Idle
    /\ worker = Idle /\ live = {} /\ flush = Free
    /\ conn = TRUE /\ clock = 0 /\ faults = 0
    /\ runs = [s \in Specs |-> 0] /\ consents = [a \in Auths |-> 0]
    /\ accepted = [d \in Days |-> 0]

\* Runner.fail: the lane stays closed until the next start.
Fail == failed' = TRUE

\* record: a row and its mirror, under outboxMu.
Record(E) == flush = Free /\ events' = events \cup E /\ mirrored' = events'
RecordFails(E) ==
    /\ flush = Free
    /\ \E done \in SUBSET E : events' = events \cup done
    /\ UNCHANGED mirrored

-----------------------------------------------------------------------------
(* Submit *)

SubStep(pc) == sub' = [sub EXCEPT !.pc = pc]
SubSame     == UNCHANGED <<rows, log, process, outside, history>>

\* A delivered token reaches Submit; a closed lane refuses it at once.
Submit(s) ==
    /\ status = "up" /\ conn /\ sub = Idle /\ ~failed
    /\ sub' = [spec |-> s, pc |-> "received", ctx |-> TRUE]
    /\ UNCHANGED <<events, mirrored, flush, faults>> /\ SubSame

\* An expired token that was admitted before only flushes the outbox.
SubmitExpired ==
    /\ status = "up" /\ sub.pc = "received" /\ \E now \in Readings : ~Valid(sub.spec, now)
    /\ SubStep(IF Exists(sub.spec) /\ sub.ctx THEN "flush" ELSE "refuse")
    /\ UNCHANGED <<events, mirrored, flush, faults>> /\ SubSame

\* The received event is recorded; a known spec only flushes; a full slot
\* refuses.
SubmitReceived ==
    /\ status = "up" /\ sub.pc = "received" /\ sub.ctx /\ \E now \in Readings : Valid(sub.spec, now)
    /\ Record({})
    /\ SubStep(CASE Exists(sub.spec) -> "flush"
                 [] ~Exists(sub.spec) /\ Len(queue) = 1 -> "refuse"
                 [] OTHER -> "fetch")
    /\ UNCHANGED <<flush, faults>> /\ SubSame

\* fetchSnapshot and the metadata check.
SubmitFetched ==
    /\ status = "up" /\ sub.pc = "fetch" /\ sub.ctx
    /\ SubStep("admit")
    /\ UNCHANGED <<events, mirrored, flush, faults>> /\ SubSame
SubmitNotFetched ==
    /\ status = "up" /\ sub.pc = "fetch"
    /\ SubStep("refuse")
    /\ UNCHANGED <<events, mirrored, flush, faults>> /\ SubSame

\* Admit: consent, quota and clock high-water in one transaction.
MayAdmitAnyConsent(s, now) == Valid(s, now) /\ now >= highWater /\ daily[now] < Quota
MayAdmit(s, now) ==
    /\ Valid(s, now) /\ now >= highWater /\ daily[now] < Quota
    /\ \A t \in Specs : Exists(t) => AuthOf[t] # AuthOf[s]

AdmitUnaccounted(s, now) ==
    /\ adm' = [adm EXCEPT ![s] = [Absent EXCEPT !.state = "accepted", !.at = now]]
    /\ highWater' = now /\ UNCHANGED daily
Admit(s, now) ==
    /\ adm' = [adm EXCEPT ![s] = [Absent EXCEPT !.state = "accepted", !.at = now]]
    /\ daily' = [daily EXCEPT ![now] = @ + 1]
    /\ highWater' = now

SubmitAdmits ==
    /\ status = "up" /\ sub.pc = "admit" /\ sub.ctx
    /\ \E now \in Readings :
          /\ MayAdmit(sub.spec, now) /\ Admit(sub.spec, now)
          /\ accepted' = [accepted EXCEPT ![now] = @ + 1]
    /\ events' = events \cup {<<sub.spec, "accepted">>}
    /\ SubStep("mirror")
    /\ consents' = [consents EXCEPT ![AuthOf[sub.spec]] = @ + 1]
    /\ UNCHANGED <<mirrored, log, process, flush, outside, faults, runs>>

SubmitRefused ==
    /\ status = "up" /\ sub.pc = "admit"
    /\ \/ (sub.ctx => \E now \in Readings : ~MayAdmit(sub.spec, now)) /\ UNCHANGED faults
       \/ sub.ctx /\ Fault
    /\ SubStep("refuse")
    /\ UNCHANGED <<events, mirrored, flush>> /\ SubSame

\* The accepted event is synced before the job is dispatched.
SubmitUnmirrored ==
    /\ status = "up" /\ sub.pc = "mirror" /\ sub.ctx
    /\ SubStep("push")
    /\ UNCHANGED <<events, mirrored, flush, faults>> /\ SubSame
SubmitMirrored ==
    /\ status = "up" /\ sub.pc = "mirror" /\ sub.ctx /\ flush = Free
    /\ mirrored' = events
    /\ SubStep("push")
    /\ UNCHANGED <<events, flush, faults>> /\ SubSame

SubmitQueues ==
    /\ status = "up" /\ sub.pc = "push" /\ queue = <<>>
    /\ queue' = <<sub.spec>>
    /\ live' = IF sub.ctx THEN live \cup {sub.spec} ELSE live
    /\ sub' = Idle
    /\ UNCHANGED <<rows, events, mirrored, log, status, failed, worker, flush,
                   outside, faults, history>>

SubmitRefuses ==
    /\ status = "up" /\ sub.pc = "refuse" /\ sub.ctx
    /\ Record({}) /\ sub' = Idle
    /\ UNCHANGED <<flush, faults>> /\ SubSame

\* A statement or the mirror fails, by itself or because the connection is
\* gone; record and mirror then close the lane.
SubmitFails ==
    /\ status = "up" /\ sub.pc \in {"received", "mirror", "refuse"}
    /\ flush = Free
    /\ \/ ~sub.ctx /\ UNCHANGED faults
       \/ sub.ctx /\ Fault
    /\ Fail /\ sub' = Idle
    /\ UNCHANGED <<rows, events, mirrored, log, status, queue, worker, live, flush,
                   outside, history>>

-----------------------------------------------------------------------------
(* The worker *)

WorkStep(pc) == worker' = [worker EXCEPT !.pc = pc]
WorkStop     == worker' = [Idle EXCEPT !.pc = "stopped"]
WorkSame     == UNCHANGED <<highWater, daily, log, status, queue, sub, live, flush, outside>>

\* A closed lane cancels the worker's context; its select may still take a job.
WorkerTakes ==
    /\ status = "up" /\ worker.pc = "idle" /\ queue # <<>>
    /\ worker' = [spec |-> Head(queue), pc |-> "claim", ctx |-> FALSE]
    /\ queue' = <<>>
    /\ UNCHANGED <<rows, events, mirrored, log, status, failed, sub, live, flush,
                   outside, faults, history>>

WorkerStops ==
    /\ status = "up" /\ worker.pc = "idle" /\ failed
    /\ WorkStop
    /\ UNCHANGED <<adm, events, mirrored, failed, faults, history>> /\ WorkSame

WorkerClaims ==
    /\ status = "up" /\ worker.pc = "claim" /\ adm[worker.spec].state = "accepted"
    /\ adm' = [adm EXCEPT ![worker.spec].state = "running"]
    /\ WorkStep("read")
    /\ UNCHANGED <<events, mirrored, failed, faults, history>> /\ WorkSame

\* run up to the signed document: the source is opened only while the lane
\* is healthy and the job's connection stands.
WorkerReads ==
    /\ status = "up" /\ worker.pc = "read"
    /\ ~failed /\ worker.spec \in live
    /\ runs' = [runs EXCEPT ![worker.spec] = @ + 1]
    /\ worker' = [worker EXCEPT !.pc = "save", !.ctx = TRUE]
    /\ live' = live \ {worker.spec}
    /\ UNCHANGED <<rows, events, mirrored, log, status, failed, queue, sub, flush,
                   outside, faults, consents, accepted>>
WorkerReadsNothing ==
    /\ status = "up" /\ worker.pc = "read"
    /\ failed \/ worker.spec \notin live
    /\ WorkStep("save")
    /\ UNCHANGED <<adm, events, mirrored, failed, faults, history>> /\ WorkSame

\* SaveVerification keeps a result that is already there.
SaveState(s, state) ==
    adm' = [adm EXCEPT ![s] = IF @.result # "none" THEN @
                              ELSE [@ EXCEPT !.state = state, !.result = "saved"]]

WorkerSaves ==
    /\ status = "up" /\ worker.pc = "save"
    /\ \E state \in {"reported", "refused"} :
          /\ ~worker.ctx => state = (IF worker.spec \in Paid THEN "refused" ELSE "reported")
          /\ SaveState(worker.spec, state)
    /\ WorkStep("event")
    /\ UNCHANGED <<events, mirrored, failed, faults, history>> /\ WorkSame

WorkerRecords ==
    /\ status = "up" /\ worker.pc = "event"
    /\ Record({<<worker.spec, "done">>})
    /\ WorkStep("flush")
    /\ UNCHANGED <<adm, failed, faults, history>> /\ WorkSame

\* Any failure of run closes the lane and ends the worker.
WorkerFails ==
    /\ status = "up" /\ Fault
    /\ \/ worker.pc \in {"claim", "save"} /\ UNCHANGED <<events, mirrored>>
       \/ worker.pc = "event" /\ RecordFails({<<worker.spec, "done">>})
    /\ Fail /\ WorkStop
    /\ UNCHANGED <<adm, history>> /\ WorkSame

-----------------------------------------------------------------------------
(* flush: mirror, then append and link every unlinked report *)

Flushing(a) == \/ a = "submit" /\ status = "up" /\ sub.pc = "flush"
               \/ a = "worker" /\ status = "up" /\ worker.pc = "flush"
               \/ a = "start"  /\ status = "recovering" /\ sub.pc = "flush"
Ctx(a)      == a = "submit" => sub.ctx
FlushDone(a) ==
    CASE a = "submit" -> sub' = Idle /\ UNCHANGED <<worker, status>>
      [] a = "worker" -> worker' = Idle /\ UNCHANGED <<sub, status>>
      [] a = "start"  -> SubStep("prune") /\ UNCHANGED <<worker, status>>
\* An error ends the caller: Submit returns, the worker stops.
FlushAborts(a) ==
    CASE a = "submit" -> sub' = Idle /\ UNCHANGED worker
      [] a = "worker" -> WorkStop /\ UNCHANGED sub
FlushSame == UNCHANGED <<daily, highWater, queue, live, outside, history>>

FlushBegins(a) ==
    /\ Flushing(a) /\ flush = Free /\ ~failed /\ Ctx(a)
    /\ mirrored' = events
    /\ flush' = [by |-> a, todo |-> Unlinked, cur |-> None]
    /\ UNCHANGED <<adm, events, log, status, failed, sub, worker, faults>> /\ FlushSame

AppendAlways(a, s) == log' = Append(log, s)
AppendReport(a, s) == IF a = "start" /\ InLog(s) THEN UNCHANGED log
                                                 ELSE log' = Append(log, s)

FlushAppends(a) ==
    /\ Flushing(a) /\ flush.by = a /\ flush.cur = None
    /\ \E s \in flush.todo :
          /\ AppendReport(a, s)
          /\ flush' = [flush EXCEPT !.cur = s, !.todo = @ \ {s}]
    /\ UNCHANGED <<adm, events, mirrored, status, failed, sub, worker, faults>> /\ FlushSame

FlushLinks(a) ==
    /\ Flushing(a) /\ flush.by = a /\ flush.cur # None /\ Ctx(a)
    /\ adm' = [adm EXCEPT ![flush.cur].seq = LastAt(flush.cur)]
    /\ flush' = [flush EXCEPT !.cur = None]
    /\ UNCHANGED <<events, mirrored, log, status, failed, sub, worker, faults>> /\ FlushSame

FlushEnds(a) ==
    /\ Flushing(a) /\ flush.by = a /\ flush.cur = None /\ flush.todo = {}
    /\ flush' = Free /\ FlushDone(a)
    /\ UNCHANGED <<adm, events, mirrored, log, failed, faults>> /\ FlushSame

\* The lane is already closed, or an operation fails and closes it.  A failed
\* append may leave its line for the next start to find.
FlushFails(a) ==
    /\ Flushing(a)
    /\ \/ flush = Free /\ failed /\ UNCHANGED <<failed, faults, log>>
       \/ /\ flush = Free /\ ~failed /\ Fail /\ UNCHANGED log
          /\ IF Ctx(a) THEN Fault ELSE UNCHANGED faults
       \/ /\ flush.by = a /\ flush.cur = None /\ Fail /\ Fault
          /\ \E s \in flush.todo : log' \in {log, Append(log, s)}
       \/ /\ flush.by = a /\ flush.cur # None /\ Fail /\ UNCHANGED log
          /\ IF Ctx(a) THEN Fault ELSE UNCHANGED faults
    /\ flush' = Free /\ FlushAborts(a)
    /\ UNCHANGED <<adm, events, mirrored, status>> /\ FlushSame

-----------------------------------------------------------------------------
(* Start and Recover *)

UnfinishedClaimed(s) == adm[s].state = "running"
Unfinished(s) == adm[s].state \in {"accepted", "running"}

\* Unfinished work is interrupted, never run again.
Starts ==
    /\ status = "down" /\ status' = "recovering"
    /\ failed' = FALSE
    /\ mirrored' = events
    /\ adm' = [s \in Specs |-> IF Unfinished(s) THEN [adm[s] EXCEPT !.state = "interrupted"]
                               ELSE adm[s]]
    /\ sub' = [spec |-> None, pc |-> "jobs", ctx |-> TRUE]
    /\ UNCHANGED <<daily, highWater, events, log, queue, worker, live, flush,
                   outside, faults, history>>

Unresolved == {s \in Specs : adm[s].state = "interrupted" /\ adm[s].result = "none"}

\* An interrupted scan gets a terminal report; an interrupted probe has none and
\* is recorded as interrupted at every start, which leaves "events" as it is.
RecoverSaves(s) ==
    /\ status = "recovering" /\ sub.pc = "jobs" /\ sub.spec = None
    /\ s \in Unresolved \cap Paid
    /\ SaveState(s, "interrupted")
    /\ sub' = [sub EXCEPT !.spec = s]
    /\ UNCHANGED <<daily, highWater, events, mirrored, log, process, flush, outside,
                   faults, history>>
RecoverRecords(s) ==
    /\ status = "recovering" /\ sub.pc = "jobs"
    /\ \/ sub.spec = s
       \/ sub.spec = None /\ s \in Unresolved \ Paid /\ <<s, "interrupted">> \notin events
    /\ Record({<<s, "interrupted">>})
    /\ sub' = [sub EXCEPT !.spec = None]
    /\ UNCHANGED <<rows, log, process, flush, outside, faults, history>>
RecoverFlushes ==
    /\ status = "recovering" /\ sub.pc = "jobs" /\ sub.spec = None
    /\ \A s \in Unresolved : s \notin Paid /\ <<s, "interrupted">> \in events
    /\ SubStep("flush")
    /\ UNCHANGED <<events, mirrored, flush, faults>> /\ SubSame

\* PruneVerification: old delivered probes and the days without admissions.
\* (The rows of old events go too, but their lines stay in the file.)
PrunableAtOnce(s, now) ==
    /\ s \notin Paid /\ adm[s].delivered
    /\ adm[s].state \in {"reported", "refused", "interrupted"}
Prunable(s, now) ==
    /\ adm[s].at < now - Retain /\ s \notin Paid
    /\ adm[s].state \in {"reported", "refused", "interrupted"} /\ adm[s].delivered

RecoverPrunes ==
    /\ status = "recovering" /\ sub.pc = "prune"
    /\ \E now \in Readings :
          LET kept == {s \in Specs : Exists(s) /\ ~Prunable(s, now)}
              pastDays == {d \in Days : d < now - Retain /\ \A s \in kept : adm[s].at # d}
          IN  /\ adm' = [s \in Specs |-> IF s \in kept THEN adm[s] ELSE Absent]
              /\ daily' = [d \in Days |-> IF d \in pastDays THEN 0 ELSE daily[d]]
    /\ status' = "up" /\ sub' = Idle
    /\ UNCHANGED <<highWater, events, mirrored, log, failed, queue, worker, live,
                   flush, outside, faults, history>>

\* The process dies, also when a step of Recover fails; an event may be in the
\* table only.
Crash ==
    /\ status # "down" /\ faults < MaxFaults /\ faults' = faults + 1
    /\ status' = "down" /\ failed' = FALSE /\ queue' = <<>> /\ live' = {}
    /\ sub' = Idle /\ worker' = Idle /\ flush' = Free
    /\ \/ UNCHANGED events
       \/ worker.pc = "event" /\ events' = events \cup {<<worker.spec, "done">>}
    /\ conn' = FALSE
    /\ UNCHANGED <<rows, mirrored, log, clock, history>>

-----------------------------------------------------------------------------
(* Channel and clock *)

\* A connection ends: its context is cancelled for Submit and for its jobs.
Disconnect ==
    /\ status = "up" /\ conn /\ faults < MaxFaults /\ faults' = faults + 1
    /\ conn' = FALSE
    /\ sub' = [sub EXCEPT !.ctx = FALSE]
    /\ live' = {}
    /\ UNCHANGED <<rows, events, mirrored, log, status, failed, queue, worker,
                   flush, clock, history>>
Reconnect ==
    /\ ~conn /\ status = "up" /\ conn' = TRUE
    /\ UNCHANGED <<rows, events, mirrored, log, process, sub, flush, clock,
                   faults, history>>

\* ReconcileVerification, for an acknowledgment or a resume of the server.
Acknowledge ==
    /\ status = "up" /\ conn
    /\ \E k \in 1 .. Len(log) :
          adm' = [s \in Specs |-> IF adm[s].seq = 0 THEN adm[s]
                                  ELSE [adm[s] EXCEPT !.delivered = adm[s].seq <= k]]
    /\ adm' # adm
    /\ UNCHANGED <<daily, highWater, events, mirrored, log, process, sub, flush,
                   outside, faults, history>>

Tick ==
    /\ clock < MaxClock /\ clock' = clock + 1
    /\ UNCHANGED <<rows, events, mirrored, log, process, sub, flush, conn, faults, history>>

-----------------------------------------------------------------------------
SubmitSteps == SubmitExpired \/ SubmitReceived \/ SubmitFetched \/ SubmitNotFetched
               \/ SubmitAdmits \/ SubmitRefused \/ SubmitMirrored \/ SubmitQueues
               \/ SubmitRefuses \/ SubmitFails
WorkerSteps == WorkerTakes \/ WorkerStops \/ WorkerClaims \/ WorkerReads
               \/ WorkerReadsNothing \/ WorkerSaves \/ WorkerRecords
FlushSteps(a) == FlushBegins(a) \/ FlushAppends(a) \/ FlushLinks(a) \/ FlushEnds(a)
StartSteps  == Starts \/ RecoverFlushes \/ RecoverPrunes
               \/ \E s \in Specs : RecoverSaves(s) \/ RecoverRecords(s)

Next == \/ \E s \in Specs : Submit(s)
        \/ SubmitSteps \/ WorkerSteps \/ WorkerFails
        \/ \E a \in {"submit", "worker", "start"} : FlushSteps(a)
        \/ \E a \in {"submit", "worker"} : FlushFails(a)
        \/ StartSteps \/ Crash \/ Disconnect \/ Reconnect \/ Acknowledge \/ Tick

Spec == Init /\ [][Next]_vars

\* Goroutines run, outboxMu starves nobody (a Go mutex hands itself to a waiter
\* of more than a millisecond), and a stopped gateway is started again.
FairSpec ==
    /\ Spec
    /\ WF_vars(SubmitSteps) /\ WF_vars(WorkerSteps) /\ WF_vars(StartSteps)
    /\ \A a \in {"submit", "worker", "start"} : WF_vars(FlushSteps(a))
    /\ \A a \in {"submit", "worker"} : WF_vars(FlushFails(a))
    /\ SF_vars(FlushBegins("worker")) /\ SF_vars(WorkerRecords)

-----------------------------------------------------------------------------
\* A source is read in one run at most, whatever is redelivered, restarted or
\* pruned, and only after its accepted event is synced to the local audit
\* (README.md:46, docs/data-flow.md:32, TestRestartPaidNeverReruns).
ReadOnceAudited ==
    \A s \in Specs : /\ runs[s] <= 1
                     /\ runs[s] > 0 => <<s, "accepted">> \in mirrored

\* An authorization admits one spec in all time, although old probes are
\* pruned and the clock may fall back, and no day admits more than the quota
\* (docs/threat-model.md:33).
ConsentAndQuotaHeld ==
    /\ \A a \in Auths : consents[a] <= 1
    /\ \A d \in Days : accepted[d] <= Quota

\* Each report is in the audit log once, and the row of its spec names the
\* entry (runner.go:514-564, TestAppendBeforeSQLFailureRecoversOnlyAtRestart).
ReportedOnce ==
    /\ \A i, k \in DOMAIN log : log[i] = log[k] => i = k
    /\ \A s \in Specs : adm[s].seq # 0 => log[adm[s].seq] = s

\* Every admitted scan is reported, at the latest after a restart; only a
\* closed lane that nobody restarts keeps it waiting (runner.go:565-612).
PaidReported == \A s \in Paid : Exists(s) ~> InLog(s) \/ []failed

\* The lane is closed only by a failing disk or database: the worker is
\* independent of the connections (channel.go:525-526).
ClosedByFaultsOnly == failed => Faulty
=============================================================================
