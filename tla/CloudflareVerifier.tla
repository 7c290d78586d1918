-------------------------- MODULE CloudflareVerifier --------------------------
(***************************************************************************)
(* The Cloudflare verifier: the poll task of one Durable Object over its   *)
(* SQL tables, and one container that serves one call at a time            *)
(* (deploy/cloudflare-verifier/worker.ts and state.ts,                     *)
(* internal/cloudflareverification/service.go).                            *)
(*                                                                         *)
(* Poll tasks run from the alarm of the object, which awaits them          *)
(* (worker.mjs: alarm), so there is one at a time.  The cron trigger, the  *)
(* platform and a container that still works for a task that is gone       *)
(* interleave with it wherever it awaits I/O: a step is what happens       *)
(* between two such awaits, and the end of a task is a step of its own.  A *)
(* call to the container lasts up to Compute, everything else ends within  *)
(* the tick it began in.                                                   *)
(***************************************************************************)
EXTENDS Integers

CONSTANTS Specs, Paid, AuthOf, IssuedAt, \* as in AwsVerifier
          Compute,        \* limit of a call to the container: 890 s
          Exec,           \* age of a task at which its scan must end: 780 s
          Grace,          \* LEASE_GRACE, 1020 s
          Terminal,       \* age at which a report is too late: 1920 s
          Life, Retain, DayLength, Quota,
          MaxClock, MaxFaults, \* bounds of the model
          None

\* One call does not outlive the lease, but two may.
Lasting ==
    /\ {Compute, Exec, Grace, Terminal, Life, Retain} \subseteq Nat
    /\ Exec < Compute /\ Compute < Grace /\ Grace < Terminal /\ Life < Retain

\* Two specs of one authorization are issued within a day of its acceptance
\* (VerifyWork), so neither is fresh when the row of the other may be pruned.
ConsentLasts ==
    /\ IssuedAt \in [Specs -> Nat]
    /\ \A s, u \in Specs : AuthOf[s] = AuthOf[u] =>
          IssuedAt[s] + Life <= IssuedAt[u] + Retain

VARIABLES clock,
          active, row, daily,       \* meta active, admissions with outbox, daily
          lease, task, wake, due,   \* meta lease, task, wake; the scheduled poll
          boot,                     \* meta bootstrap and registered
          run,                      \* the poll task
          serving,                  \* the task in whose call the container is
          ever, runs, told,         \* history: admissions, reads, accepted reports
          faults

ledger == <<active, row, daily>>
lane == <<lease, task, wake, due>>
history == <<ever, runs, told>>
vars == <<clock, ledger, lane, boot, serving, run, history, faults>>

Absent == [state |-> "absent", pickup |-> 0, start |-> 0, body |-> None, until |-> 0]
Idle == [pc |-> "idle", start |-> 0, since |-> 0, final |-> FALSE, spec |-> None,
         pickup |-> 0, copy |-> Absent]
Open == {"accepted", "committed"}
Calls == {"create", "register", "terminal", "prepare", "scan"}

\* VerifyWork, and the freshness admit checks again: everything else about a
\* spec that can be wrong makes it no member of Specs.
VerifyWork(s) == IssuedAt[s] <= clock /\ clock <= IssuedAt[s] + Life
Late(pickup) == clock > pickup + Terminal
Day == clock \div DayLength

Init ==
    /\ clock = 0 /\ active = None
    /\ row = [s \in Specs |-> Absent]
    /\ daily = [d \in 0 .. MaxClock \div DayLength |-> 0]
    /\ lease = None /\ task = "" /\ wake = -1 /\ due = None
    /\ boot = "none"
    /\ serving = None /\ run = Idle
    /\ ever = {} /\ runs = [s \in Specs |-> 0] /\ told = [s \in Specs |-> {}]
    /\ faults = 0

-----------------------------------------------------------------------------
(* Helpers.  What the task does next is given its record r. *)

At(label) == run.pc = label
Fails == run' = [Idle EXCEPT !.pc = "finally"]

\* compute: the container refuses a call while it works on another one.  The
\* call of the task itself, if there was one, has been answered by then.
Released == IF serving = run THEN None ELSE serving
CallFrom(r, label) ==
    IF Released = None
    THEN run' = [r EXCEPT !.pc = label, !.since = clock] /\ serving' = run'
    ELSE Fails /\ serving' = Released
Answered(label) == At(label) /\ serving = run

\* After its recovery a task polls, after the report of its own scan it ends.
AfterRecovery(r) ==
    run' = [Idle EXCEPT !.pc = IF r.final THEN "finally" ELSE "work", !.start = r.start]

-----------------------------------------------------------------------------
(* Recovery *)

\* settle: writes the row as it was read, and frees the active slot.
SettlesRow(r, s, state) ==
    /\ row' = [row EXCEPT ![s] = [r EXCEPT !.state = state, !.body = None, !.until = clock + Retain]]
    /\ active' = None

\* recover, up to its first await.
Recovers(r) ==
    LET s == active
        q == row[s]
        abandoned == active # None /\ ~Late(q.pickup) /\ q.state = "accepted"
    IN  \/ /\ active = None
           /\ AfterRecovery(r) /\ serving' = Released
           /\ UNCHANGED <<active, row>>
        \/ /\ active # None /\ Late(q.pickup)
           /\ SettlesRow(q, s, "expired")
           /\ AfterRecovery(r) /\ serving' = Released
        \/ /\ abandoned /\ clock <= q.start + Grace
           /\ Fails /\ serving' = Released
           /\ UNCHANGED <<active, row>>
        \/ /\ abandoned /\ clock > q.start + Grace /\ s \notin Paid
           /\ SettlesRow(q, s, "interrupted")
           /\ AfterRecovery(r) /\ serving' = Released
        \/ /\ abandoned /\ clock > q.start + Grace /\ s \in Paid
           /\ CallFrom([r EXCEPT !.spec = s], "terminal")
           /\ UNCHANGED <<active, row>>
        \/ /\ active # None /\ ~Late(q.pickup) /\ q.state = "committed"
           /\ run' = [r EXCEPT !.pc = "report", !.spec = s, !.copy = q]
           /\ serving' = Released
           /\ UNCHANGED <<active, row>>

\* commit: the outbox is written once, for the active spec only; the report
\* that follows is of the row as it is now.
MayCommit(s) == row[s].state = "accepted" /\ active = s /\ ~Late(row[s].pickup)
Commits(s, body) == row' = [row EXCEPT ![s].state = "committed", ![s].body = body]
CommitsAndReports(s, body, final) ==
    IF MayCommit(s)
    THEN /\ Commits(s, body)
         /\ run' = [run EXCEPT !.pc = "report", !.since = 0, !.final = final, !.copy = row'[s]]
    ELSE Fails /\ UNCHANGED row

Terminated ==
    /\ Answered("terminal")
    /\ CommitsAndReports(run.spec, "failure", FALSE)
    /\ serving' = None
    /\ UNCHANGED <<clock, active, daily, lane, boot, history, faults>>

\* marketplace: ai.market stores the report, its answer is on the way.
Report ==
    /\ At("report")
    /\ told' = [told EXCEPT ![run.spec] = @ \cup {run.copy.body}]
    /\ run' = [run EXCEPT !.pc = "answer"]
    /\ UNCHANGED <<clock, ledger, lane, boot, serving, ever, runs, faults>>

\* recover, after its last await.
Acknowledged ==
    /\ At("answer")
    /\ SettlesRow(run.copy, run.spec, "reported")
    /\ AfterRecovery(run)
    /\ UNCHANGED <<clock, daily, lane, boot, serving, history, faults>>

-----------------------------------------------------------------------------
(* Scheduling and the first boot *)

\* scheduled, enqueue, wake: the cron trigger arms a poll, unless one is due
\* later or may still be running.
Cron ==
    /\ due # None => due <= clock
    /\ wake < clock
    /\ task # "" => clock > (IF task = "queued" THEN wake ELSE lease) + Grace
    /\ wake' = clock /\ task' = "queued" /\ due' = clock
    /\ UNCHANGED <<clock, ledger, lease, boot, serving, run, history, faults>>

\* claim: a lease of LEASE_GRACE.
Claimable == lease # None => clock > lease + Grace

\* pollTask, from runtimeConfig on: what is missing before the verifier may ask
\* for work.
Boots(r) ==
    \/ /\ boot = "none"
       /\ run' = [r EXCEPT !.pc = "pull"] /\ serving' = Released
       /\ UNCHANGED <<active, row>>
    \/ boot = "initializing" /\ CallFrom(r, "create") /\ UNCHANGED <<active, row>>
    \/ boot = "saved" /\ CallFrom(r, "register") /\ UNCHANGED <<active, row>>
    \/ boot = "registered" /\ Recovers(r)

\* alarm, pollTask: claims the lease, or comes back when it has run out.  The
\* schedule is deleted when the task has ended, so one that is evicted with its
\* object is run again.
Poll ==
    /\ At("idle") /\ due # None /\ due <= clock
    /\ \/ /\ Claimable
          /\ lease' = clock /\ task' = "running"
          /\ Boots([Idle EXCEPT !.start = clock])
          /\ UNCHANGED due
       \/ /\ ~Claimable
          /\ due' = lease + Grace + 1
          /\ UNCHANGED <<active, row, lease, task, run, serving>>
    /\ UNCHANGED <<clock, daily, wake, boot, history, faults>>

\* pullConfig and firstStart.
Pulled ==
    /\ At("pull")
    /\ boot' = "initializing"
    /\ CallFrom(run, "create")
    /\ UNCHANGED <<clock, ledger, lane, history, faults>>

Created ==
    /\ Answered("create")
    /\ boot' = "saved"
    /\ CallFrom(run, "register")
    /\ UNCHANGED <<clock, ledger, lane, history, faults>>

\* save, and on into recover.
Registered ==
    /\ Answered("register")
    /\ boot' = "registered"
    /\ Recovers(run)
    /\ UNCHANGED <<clock, daily, lane, history, faults>>

-----------------------------------------------------------------------------
(* Work *)

\* Nothing to do, or a spec; an exact replay ends here.
Work ==
    /\ At("work")
    /\ \/ Fails /\ UNCHANGED serving
       \/ \E s \in Specs :
             /\ row[s].state = "absent"
             /\ CallFrom([run EXCEPT !.spec = s, !.pickup = clock], "prepare")
    /\ UNCHANGED <<clock, ledger, lane, boot, history, faults>>

\* admit, after the container has verified the spec and fetched its snapshot.
MayAdmit(s, pickup) ==
    /\ row[s].state = "absent" /\ active = None
    /\ VerifyWork(s) /\ ~Late(pickup)
    /\ daily[Day] < Quota
    /\ \A u \in Specs : row[u].state # "absent" => AuthOf[u] # AuthOf[s]
Admits(s) ==
    /\ row' = [row EXCEPT ![s] = [state |-> "accepted", pickup |-> run.pickup,
                  start |-> run.start, body |-> None, until |-> clock + Retain]]
    /\ active' = s /\ daily' = [daily EXCEPT ![Day] = @ + 1]
    /\ ever' = ever \cup {s}

\* /execute: refused when the task is too old to finish a scan.
Executes ==
    IF clock < run.start + Exec THEN CallFrom(run, "scan") ELSE Fails /\ serving' = None

Prepared ==
    /\ Answered("prepare")
    /\ \/ MayAdmit(run.spec, run.pickup) /\ Admits(run.spec) /\ Executes
       \/ /\ ~MayAdmit(run.spec, run.pickup)
          /\ Fails /\ serving' = None
          /\ UNCHANGED <<ledger, ever>>
    /\ UNCHANGED <<clock, lane, boot, runs, told, faults>>

\* The bridge serves the members of the active, accepted spec.
Bridged(s) == active = s /\ row[s].state = "accepted"
Reads(s) == runs' = IF Bridged(s) THEN [runs EXCEPT ![s] = @ + 1] ELSE runs

\* A scan that is refused an object ends in a terminal report.
Bodies(s) ==
    IF ~Bridged(s) THEN {"failure"} ELSE IF s \in Paid THEN {"result", "failure"} ELSE {"result"}

Scanned ==
    /\ Answered("scan")
    /\ Reads(run.spec)
    /\ \E b \in Bodies(run.spec) : CommitsAndReports(run.spec, b, TRUE)
    /\ serving' = None
    /\ UNCHANGED <<clock, active, daily, lane, boot, ever, told, faults>>

-----------------------------------------------------------------------------
(* The end of a task, and faults *)

\* Mutant: a prune that does not look at the retention.
PrunableUnaged(s) == row[s].state \notin Open \cup {"absent"} /\ active # s

\* prune: settled rows whose retention has ended.
Prunable(s) == row[s].state \notin Open \cup {"absent"} /\ row[s].until < clock /\ active # s

\* finally: releases the lease.
Finally ==
    /\ At("finally")
    /\ lease' = None /\ task' = ""
    /\ row' = [s \in Specs |-> IF Prunable(s) THEN Absent ELSE row[s]]
    /\ run' = [run EXCEPT !.pc = "stop"]
    /\ UNCHANGED <<clock, active, daily, wake, due, boot, serving, history, faults>>

\* stop ends whatever the container works on; nextPoll replaces the schedule.
Stop ==
    /\ At("stop")
    /\ serving' = None
    /\ \E delay \in 0 .. 1 : due' = clock + delay
    /\ run' = Idle
    /\ UNCHANGED <<clock, ledger, lease, task, wake, boot, history, faults>>

\* A call that reached its limit.
Lost ==
    /\ run.pc \in Calls /\ clock = run.since + Compute
    /\ Fails /\ serving' = Released
    /\ UNCHANGED <<clock, ledger, lane, boot, history, faults>>

\* A refusal, or an error of the network: the container may work on.
Refused ==
    /\ run.pc \in Calls \cup {"pull", "work", "report", "answer"}
    /\ faults < MaxFaults /\ faults' = faults + 1
    /\ Fails /\ serving' \in {Released, serving}
    /\ UNCHANGED <<clock, ledger, lane, boot, history>>

\* The platform evicts the object, or ends an alarm that runs too long, with the
\* task.  The container may work on.
Evict ==
    /\ ~At("idle")
    /\ faults < MaxFaults /\ faults' = faults + 1
    /\ run' = Idle /\ serving' \in {None, serving}
    /\ UNCHANGED <<clock, ledger, lane, boot, history>>

\* A call whose task is gone ends; the bridge does not ask for the task.
Orphaned ==
    /\ serving # None /\ serving # run
    /\ serving' = None
    /\ IF serving.pc = "scan" THEN Reads(serving.spec) ELSE UNCHANGED runs
    /\ UNCHANGED <<clock, ledger, lane, boot, run, ever, told, faults>>

\* Time passes in calls to the container, and while no task runs.
Tick ==
    /\ clock < MaxClock
    /\ At("idle") \/ run.pc \in Calls
    /\ serving # None => /\ clock < serving.since + Compute
                         /\ serving.pc = "scan" => clock < serving.start + Exec
    /\ clock' = clock + 1
    /\ UNCHANGED <<ledger, lane, boot, serving, run, history, faults>>

Step ==
    \/ Pulled \/ Created \/ Registered \/ Terminated \/ Report \/ Acknowledged
    \/ Work \/ Prepared \/ Scanned \/ Finally \/ Stop \/ Lost

Next == Cron \/ Poll \/ Step \/ Refused \/ Evict \/ Orphaned \/ Tick

Spec == Init /\ [][Next]_vars
=============================================================================
