----------------------------- MODULE AwsVerifier -----------------------------
(***************************************************************************)
(* The AWS verifier: invocations of a Lambda function that a schedule      *)
(* starts every few minutes, several at a time, each ended by the platform *)
(* at the latest after Kill, over one DynamoDB table                       *)
(* (internal/awsverification: handler.go, ledger.go, work.go).             *)
(*                                                                         *)
(* A conditional write succeeds only if what was read before still holds,  *)
(* so a read and the write that depends on it are one action where the     *)
(* condition covers all of it; where it does not, the copy that was read   *)
(* is kept in inv and written as it was.                                   *)
(***************************************************************************)
EXTENDS Integers, FiniteSets

CONSTANTS Specs, Paid,    \* Paid: scans; the other specs are probes
          AuthOf,         \* owner authorization of a spec
          IssuedAt,       \* when a spec was issued
          Slots,          \* invocations at a time
          Kill,           \* lifetime of an invocation: Timeout, 900 s
          Grace,          \* age at which a scan counts as interrupted: 1020 s
          Terminal,       \* age at which its report is too late: 1920 s
          Life,           \* how long a spec is fresh: 24 h
          Retain,         \* retention of settled rows: 30 days
          Behind,         \* how late the clock of the host of a slot is
          Tolerance,      \* how far the clock row may be ahead: 300 s
          DayLength, Quota,
          MaxClock, MaxFaults,  \* bounds of the model
          None

\* An invocation that can still run is never taken for an interrupted one, by
\* a host whose clock is late, and the row of a consent outlives every spec
\* that names it, because a consent is as fresh as a spec has to be (work.go).
ASSUME TimingAssumption ==
    /\ {Kill, Grace, Terminal, Life, Retain, Tolerance} \subseteq Nat
    /\ IssuedAt \in [Specs -> Nat]
    /\ Behind \in [Slots -> Nat]
    /\ \A i \in Slots :
          /\ Kill + Behind[i] <= Grace
          /\ \A s, t \in Specs : AuthOf[s] = AuthOf[t] =>
                IssuedAt[s] + Life + Behind[i] <= IssuedAt[t] + Retain
    /\ Grace < Terminal /\ 0 < Retain

VARIABLES clock,
          last, active,   \* the clock row: highest reading, unsettled spec
          row,            \* spec# items
          nonces,         \* authorization# items: when they expire
          daily,          \* daily# items
          chunks,         \* outbox# items
          inv,            \* the invocations
          ever, runs, told, \* history: admissions, reads, accepted reports
          faults

table == <<last, active, row, nonces, daily, chunks>>
history == <<ever, runs, told>>
vars == <<clock, table, inv, history, faults>>

Auths == {AuthOf[s] : s \in Specs}
Absent == [state |-> "absent", pickup |-> 0, body |-> None, until |-> 0]
Idle == [pc |-> "idle", born |-> 0, phase |-> "first", spec |-> None,
         pickup |-> 0, copy |-> Absent, body |-> None]
Open == {"running", "committed"}
Settled == {"reported", "expired", "interrupted"}
Larger(a, b) == IF a > b THEN a ELSE b

\* now() of a host.
Now(i) == IF clock > Behind[i] THEN clock - Behind[i] ELSE 0

\* A work response names at most one spec.
WorkResponses == Specs \cup {None}

\* VerifyWork, by what depends on the time: a response that is malformed, not
\* signed by ai.market or meant for another runner is as good as None.
VerifyWork(s, now) == s # None /\ IssuedAt[s] <= now /\ now <= IssuedAt[s] + Life
Day(now) == now \div DayLength
Late(r, now) == now > r.pickup + Terminal

Init ==
    /\ clock = 0 /\ last = 0 /\ active = None
    /\ row = [s \in Specs |-> Absent]
    /\ nonces = [a \in Auths |-> 0]
    /\ daily = [d \in 0 .. Day(MaxClock) |-> 0]
    /\ chunks = {} /\ inv = [i \in Slots |-> Idle]
    /\ ever = {} /\ runs = [s \in Specs |-> 0] /\ told = [s \in Specs |-> {}]
    /\ faults = 0

-----------------------------------------------------------------------------
(* Helpers *)

Alive(i) == inv[i].pc # "idle" /\ clock <= inv[i].born + Kill
At(i, label) == Alive(i) /\ inv[i].pc = label
Goto(i, label) == inv' = [inv EXCEPT ![i].pc = label]
End(i) == inv' = [inv EXCEPT ![i] = Idle]

\* A scan goes on to its recovery, a recovery to the poll or the end.
AfterRecovery(i) ==
    IF inv[i].phase = "first"
    THEN inv' = [inv EXCEPT ![i] = [Idle EXCEPT !.pc = "poll", !.born = inv[i].born]]
    ELSE End(i)

-----------------------------------------------------------------------------
(* One invocation *)

\* Invoke: Observe raises the clock row, also when nothing is to be done.
Start(i) ==
    /\ inv[i].pc = "idle"
    /\ last <= Now(i) + Tolerance
    /\ last' = Larger(last, Now(i))
    /\ inv' = [inv EXCEPT ![i] = [Idle EXCEPT !.pc = "recover", !.born = clock]]
    /\ UNCHANGED <<clock, active, row, nonces, daily, chunks, history, faults>>

\* recover: the clock row names the spec that is not settled.
FindActive(i) ==
    /\ At(i, "recover")
    /\ IF last > Now(i) + Tolerance THEN End(i)
       ELSE IF active = None THEN AfterRecovery(i)
       ELSE inv' = [inv EXCEPT ![i].pc = "row", ![i].spec = active]
    /\ UNCHANGED <<clock, table, history, faults>>

DecisionUnexpired(s, r, now) ==
    IF r.state = "committed" THEN "load"
    ELSE IF now <= r.pickup + Grace THEN "refused"
    ELSE IF s \notin Paid THEN "interrupted"
    ELSE "chunks"

\* recover: what to do about it.  A scan that may still run is left alone.
Decision(s, r, now) ==
    IF Late(r, now) THEN "expired"
    ELSE IF r.state = "committed" THEN "load"
    ELSE IF now <= r.pickup + Grace THEN "refused"
    ELSE IF s \notin Paid THEN "interrupted"
    ELSE "chunks"

Decide(i) ==
    LET s == inv[i].spec r == row[s]
    IN  /\ At(i, "row")
        /\ LET d == Decision(s, r, Now(i))
           IN  IF r.state = "absent" \/ d = "refused" THEN End(i)
               ELSE inv' = [inv EXCEPT ![i].pc = d, ![i].copy = r,
                                       ![i].body = IF d = "chunks" THEN "failure" ELSE r.body]
        /\ UNCHANGED <<clock, table, history, faults>>

\* Commit: the chunks are written before the descriptor that names them.
CommitChunks(i) ==
    LET s == inv[i].spec
    IN  /\ At(i, "chunks")
        /\ IF Late(inv[i].copy, Now(i))
           THEN End(i) /\ UNCHANGED chunks
           ELSE Goto(i, "describe") /\ chunks' = chunks \cup {<<s, inv[i].body>>}
        /\ UNCHANGED <<clock, last, active, row, nonces, daily, history, faults>>

UndescribedNever(s) == row[s].state # "absent"

\* Commit: the descriptor replaces a row without a state attribute only.
Undescribed(s) == row[s].state = "running"
CommitRow(i) ==
    LET s == inv[i].spec
    IN  /\ At(i, "describe")
        /\ IF Undescribed(s)
           THEN /\ row' = [row EXCEPT ![s] =
                             [inv[i].copy EXCEPT !.state = "committed", !.body = inv[i].body]]
                /\ \/ /\ inv[i].phase = "scan"
                      /\ inv' = [inv EXCEPT ![i].pc = "recover", ![i].phase = "final"]
                   \/ /\ inv[i].phase # "scan"
                      /\ Goto(i, "reread")
           ELSE /\ End(i)
                /\ UNCHANGED row
        /\ UNCHANGED <<clock, last, active, nonces, daily, chunks, history, faults>>

Reread(i) ==
    /\ At(i, "reread")
    /\ inv' = [inv EXCEPT ![i].pc = "load", ![i].copy = row[inv[i].spec]]
    /\ UNCHANGED <<clock, table, history, faults>>

\* Body, and the last look at the clock before the report is sent.
Load(i) ==
    LET s == inv[i].spec
    IN  /\ At(i, "load")
        /\ IF /\ inv[i].copy.state = "committed"
              /\ <<s, inv[i].copy.body>> \in chunks
              /\ ~Late(inv[i].copy, Now(i))
           THEN Goto(i, "send") ELSE End(i)
        /\ UNCHANGED <<clock, table, history, faults>>

\* Report: ai.market stores the report under the instruction of the spec.
Send(i) ==
    LET s == inv[i].spec
    IN  /\ At(i, "send")
        /\ told' = [told EXCEPT ![s] = @ \cup {inv[i].copy.body}]
        /\ Goto(i, "reported")
        /\ UNCHANGED <<clock, table, ever, runs, faults>>

\* Settle: frees the clock row, if the spec still holds it, and writes the row
\* as it was read before.
Holds(i) == active = inv[i].spec
Settle(i) ==
    LET s == inv[i].spec
    IN  /\ inv[i].pc \in Settled /\ Alive(i)
        /\ IF Holds(i)
           THEN /\ active' = None /\ last' = Larger(last, Now(i))
                /\ row' = [row EXCEPT ![s] =
                             [inv[i].copy EXCEPT !.state = inv[i].pc, !.until = Now(i) + Retain]]
                /\ AfterRecovery(i)
           ELSE /\ End(i)
                /\ UNCHANGED <<last, active, row>>
        /\ UNCHANGED <<clock, nonces, daily, chunks, history, faults>>

\* Invoke: the pickup is read before the request; an exact redelivery ends
\* here, also when it has expired meanwhile.
Poll(i) ==
    /\ At(i, "poll")
    /\ \E s \in WorkResponses :
             IF VerifyWork(s, Now(i)) /\ row[s].state = "absent"
             THEN inv' = [inv EXCEPT ![i].pc = "admit", ![i].spec = s, ![i].pickup = Now(i)]
             ELSE End(i)
    /\ UNCHANGED <<clock, table, history, faults>>

MayAdmitAnyConsent(s, now) ==
    /\ last <= now + Tolerance
    /\ active = None
    /\ row[s].state = "absent"
    /\ daily[Day(now)] < Quota

\* Admit: one transaction over the clock row, the three replay rows and the
\* counter of the day.  The spec is still fresh after the snapshot was fetched.
MayAdmit(s, now) ==
    /\ last <= now + Tolerance
    /\ active = None
    /\ row[s].state = "absent"
    /\ nonces[AuthOf[s]] = 0
    /\ daily[Day(now)] < Quota
Admitted(i, s, now) ==
    /\ active' = s /\ last' = Larger(last, now)
    /\ row' = [row EXCEPT ![s] = [state |-> "running", pickup |-> inv[i].pickup,
                                  body |-> None, until |-> 0]]
    /\ nonces' = [nonces EXCEPT ![AuthOf[s]] = now + Retain]
    /\ daily' = [daily EXCEPT ![Day(now)] = @ + 1]
    /\ ever' = ever \cup {s}

Admit(i) ==
    LET s == inv[i].spec
    IN  /\ At(i, "admit")
        /\ IF VerifyWork(s, Now(i)) /\ MayAdmit(s, Now(i))
           THEN /\ Admitted(i, s, Now(i))
                /\ inv' = [inv EXCEPT ![i].pc = "record", ![i].phase = "scan"]
           ELSE /\ End(i)
                /\ UNCHANGED <<last, active, row, nonces, daily, ever>>
        /\ UNCHANGED <<clock, chunks, runs, told, faults>>

\* The answer to the transaction is lost.  The next try finds the row, takes
\* it for a redelivery, and the invocation ends without a scan.
AdmitUnanswered(i) ==
    LET s == inv[i].spec
    IN  /\ At(i, "admit") /\ faults < MaxFaults
        /\ VerifyWork(s, Now(i)) /\ MayAdmit(s, Now(i))
        /\ Admitted(i, s, Now(i))
        /\ End(i)
        /\ faults' = faults + 1
        /\ UNCHANGED <<clock, chunks, runs, told>>

Record(i) ==
    /\ At(i, "record")
    /\ IF row[inv[i].spec].state = "absent" THEN End(i)
       ELSE inv' = [inv EXCEPT ![i].pc = "read", ![i].copy = row[inv[i].spec]]
    /\ UNCHANGED <<clock, table, history, faults>>

\* scan: the source is read; an error on the way is a report of its own.
Read(i) ==
    /\ At(i, "read")
    /\ runs' = [runs EXCEPT ![inv[i].spec] = @ + 1]
    /\ \E b \in IF inv[i].spec \in Paid THEN {"result", "failure"} ELSE {"result"} :
          inv' = [inv EXCEPT ![i].pc = "chunks", ![i].body = b]
    /\ UNCHANGED <<clock, table, ever, told, faults>>

\* The platform ends an invocation, or it fails anywhere.
Timeout(i) ==
    /\ inv[i].pc # "idle" /\ clock > inv[i].born + Kill
    /\ End(i)
    /\ UNCHANGED <<clock, table, history, faults>>

Die(i) ==
    /\ inv[i].pc # "idle" /\ faults < MaxFaults
    /\ End(i)
    /\ faults' = faults + 1
    /\ UNCHANGED <<clock, table, history>>

-----------------------------------------------------------------------------
(* The table and the clock *)

\* Replay rows and rows of reported specs expire (item: expires_at).
ExpireNonce(a) ==
    /\ 0 < nonces[a] /\ nonces[a] < clock
    /\ nonces' = [nonces EXCEPT ![a] = 0]
    /\ UNCHANGED <<clock, last, active, row, daily, chunks, inv, history, faults>>

HasExpiry(r) == r.state = "reported"
ExpireRow(s) ==
    /\ HasExpiry(row[s]) /\ row[s].until < clock
    /\ row' = [row EXCEPT ![s] = Absent]
    /\ chunks' = {c \in chunks : c[1] # s \/ c[2] # row[s].body}
    /\ UNCHANGED <<clock, last, active, nonces, daily, inv, history, faults>>

Tick ==
    /\ clock < MaxClock
    /\ clock' = clock + 1
    /\ UNCHANGED <<table, inv, history, faults>>

Work(i) ==
    \/ FindActive(i) \/ Decide(i) \/ CommitChunks(i) \/ CommitRow(i) \/ Reread(i)
    \/ Load(i) \/ Send(i) \/ Settle(i) \/ Poll(i) \/ Admit(i) \/ Record(i) \/ Read(i)

Next ==
    \/ \E i \in Slots : Start(i) \/ Work(i) \/ AdmitUnanswered(i) \/ Timeout(i) \/ Die(i)
    \/ \E a \in Auths : ExpireNonce(a)
    \/ \E s \in Specs : ExpireRow(s)
    \/ Tick

Spec == Init /\ [][Next]_vars

-----------------------------------------------------------------------------
(* Properties *)

\* Whatever overlaps, dies or is answered late, the verifier keeps the promise
\* (handler.go: Invoke, recover; ledger.go: Admit, Commit, Settle).
Contract == INSTANCE VerifierContract
    WITH admitted <- ever, Reports <- {"result", "failure"}
KeepsContract == Contract!Spec

\* The clock row names every unsettled spec, so the next recovery finds it,
\* and a spec settled as reported was accepted by ai.market as committed.
NothingForgotten ==
    \A s \in Specs : /\ row[s].state \in Open => active = s
                     /\ row[s].state = "committed" => <<s, row[s].body>> \in chunks
                     /\ row[s].state = "reported" => told[s] = {row[s].body}
=============================================================================
