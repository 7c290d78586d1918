------------------------ MODULE VerificationLaneProofs ------------------------
(***************************************************************************)
(* Safety of VerificationLane for every set of specs, quota, life time and *)
(* number of faults, provided that delivered probes are retained longer    *)
(* than a spec lives and the clock falls back together (30 days in the     *)
(* code, for a life of one day).                                           *)
(***************************************************************************)
EXTENDS VerificationLane, FiniteSetTheorems, TLAPS

RetainOutlives == Life + MaxLag <= Retain

States == {"absent", "accepted", "running", "reported", "refused", "interrupted"}
Row == [state : States, result : {"none", "saved"}, seq : Nat, at : Nat, delivered : BOOLEAN]
Job(pcs) == [spec : Specs \cup {None}, pc : pcs, ctx : BOOLEAN]
SubPcs == {"idle", "received", "fetch", "admit", "mirror", "push", "refuse", "flush", "jobs",
           "prune"}
WorkerPcs == {"idle", "claim", "read", "save", "event", "flush", "stopped"}

StoreTypes ==
    /\ adm \in [Specs -> Row] /\ daily \in [Days -> Nat]
    /\ log \in Seq(Specs) /\ clock \in Days
    /\ runs \in [Specs -> Nat] /\ consents \in [Auths -> Nat] /\ accepted \in [Days -> Nat]
ProcessTypes ==
    /\ status \in {"down", "recovering", "up"} /\ failed \in BOOLEAN
    /\ sub \in Job(SubPcs) /\ worker \in Job(WorkerPcs)
    /\ sub.pc # "idle" /\ status = "up" => sub.spec \in Specs
    /\ worker.pc \notin {"idle", "stopped"} => worker.spec \in Specs
    /\ queue = <<>> \/ \E s \in Specs : queue = <<s>>
    /\ flush \in [by : {"nobody", "submit", "worker", "start"}, todo : SUBSET Specs,
                   cur : Specs \cup {None}]
TypeInv == StoreTypes /\ ProcessTypes

\* Which goroutine may be where: nothing but Recover runs before it is done,
\* and a flush belongs to who is in it.
StageInv ==
    /\ status # "up" => worker.pc = "idle" /\ queue = <<>>
    /\ status = "down" => flush = Free
    /\ status = "recovering" =>
          sub.pc \in {"jobs", "flush", "prune"} /\ sub.spec \in Specs \cup {None}
    /\ flush = Free \/ Flushing(flush.by)

\* The specs that Submit, the queue and the worker hold.
Holds(s) ==
    \/ status = "up" /\ sub.pc \in {"mirror", "push"} /\ sub.spec = s
    \/ queue = <<s>>
    \/ worker.pc \in {"claim", "read", "save"} /\ worker.spec = s

\* A spec, its authorization and its day are spent for good: the row that
\* says so is there, or pruned so long ago that no reading of the clock can
\* make them valid again.
Gone(t) == clock > t + Retain
SpentInv ==
    /\ \A s \in Specs : Exists(s) => IssuedAt[s] <= adm[s].at
    /\ \A s \in Specs : Holds(s) => Exists(s)
    /\ \A s \in Specs : runs[s] > 0 \/ InLog(s) => Exists(s) \/ Gone(IssuedAt[s])
    /\ \A s \in Specs : consents[AuthOf[s]] > 0 =>
          \/ \E t \in Specs : Exists(t) /\ AuthOf[t] = AuthOf[s]
          \/ Gone(ConsentAt[AuthOf[s]])
    /\ \A a \in Auths : consents[a] <= 1
    /\ \A d \in Days : accepted[d] <= Quota /\ (accepted[d] = daily[d] \/ Gone(d))

\* A source is read between claim and save, after its event is synced.
Dispatched(s) ==
    \/ status = "up" /\ sub.pc = "push" /\ sub.spec = s
    \/ queue = <<s>>
    \/ worker.pc \in {"claim", "read"} /\ worker.spec = s
RunInv ==
    /\ \A s \in Specs : runs[s] <= 1 /\ (adm[s].state = "accepted" => runs[s] = 0)
    /\ worker.pc = "read" => runs[worker.spec] = 0 /\ adm[worker.spec].state = "running"
    /\ mirrored \subseteq events
    /\ \A s \in Specs : runs[s] > 0 \/ Dispatched(s) => <<s, "accepted">> \in mirrored
    /\ \A s \in Specs : Holds(s) => <<s, "accepted">> \in events

\* A report in the log whose row does not name it is the one being linked,
\* or waits for the next start to find it.
Pending(s) ==
    \/ failed \/ status = "down" \/ s = flush.cur
    \/ status = "recovering" /\ sub.pc = "jobs"
    \/ status = "recovering" /\ sub.pc = "flush" /\ (flush = Free \/ s \in flush.todo)
ReportInv ==
    /\ \A i, k \in 1 .. Len(log) : log[i] = log[k] => i = k
    /\ \A s \in Specs : adm[s].seq # 0 => adm[s].seq \in 1 .. Len(log) /\ log[adm[s].seq] = s
    /\ \A s \in Specs : InLog(s) /\ Exists(s) => adm[s].result # "none"
    /\ \A s \in Specs : InLog(s) /\ Exists(s) /\ adm[s].seq = 0 => Pending(s)
    /\ \A s \in flush.todo : Exists(s) /\ adm[s].result # "none" /\ adm[s].seq = 0
    /\ flush.by # "start" => \A s \in flush.todo : ~InLog(s)
    /\ flush.cur # None => InLog(flush.cur) /\ flush.cur \notin flush.todo

Inv == TypeInv /\ StageInv /\ SpentInv /\ RunInv /\ ReportInv

-----------------------------------------------------------------------------
(* What the helpers return. *)

\* A reading of the clock is a day that has begun.
LEMMA ReadingIsDay ==
  ASSUME StoreTypes, NEW now \in Readings PROVE now \in Days /\ now \in Nat /\ now <= clock
  BY LaneAssumption DEF StoreTypes, Readings, Days

LEMMA AuthIsAuth == ASSUME NEW s \in Specs PROVE AuthOf[s] \in Auths
  BY DEF Auths

LEMMA LogGrows == ASSUME log \in Seq(Specs), NEW s \in Specs PROVE Append(log, s) \in Seq(Specs)
  OBVIOUS

\* The updates of a row give a row.
LEMMA RowWith ==
  ASSUME NEW r \in Row
  PROVE  /\ \A st \in States : [r EXCEPT !.state = st] \in Row
         /\ \A st \in States : [r EXCEPT !.state = st, !.result = "saved"] \in Row
         /\ \A n \in Nat : [r EXCEPT !.seq = n] \in Row
         /\ \A b \in BOOLEAN : [r EXCEPT !.delivered = b] \in Row
  BY DEF Row

LEMMA FreshIsRow == /\ Absent \in Row
                    /\ \A n \in Nat : [Absent EXCEPT !.state = "accepted", !.at = n] \in Row
  BY DEF Absent, Row, States

\* SaveVerification keeps the table one of rows.
LEMMA SavesRow ==
  ASSUME adm \in [Specs -> Row], NEW s, NEW st \in States, SaveState(s, st)
  PROVE  adm' \in [Specs -> Row]
<1>1. CASE s \in Specs
  <2>1. adm[s] \in Row
    BY <1>1
  <2>2. [adm[s] EXCEPT !.state = st, !.result = "saved"] \in Row
    BY <2>1, RowWith
  <2>3. adm' = adm \/ adm' = [adm EXCEPT ![s] = [adm[s] EXCEPT !.state = st, !.result = "saved"]]
    BY <1>1, <2>1 DEF SaveState
  <2> QED
    BY <1>1, <2>2, <2>3
<1>2. CASE s \notin Specs
  BY <1>2 DEF SaveState
<1> QED
  BY <1>1, <1>2

\* The last entry of a spec, where flush links its row, is an entry of it.
LEMMA LastIsEntry ==
  ASSUME StoreTypes, ReportInv, NEW s \in Specs, InLog(s)
  PROVE  LastAt(s) \in 1 .. Len(log) /\ log[LastAt(s)] = s
<1>1. DOMAIN log = 1 .. Len(log)
  BY DEF StoreTypes
<1>2. PICK i \in 1 .. Len(log) : log[i] = s
  BY <1>1 DEF InLog
<1>3. {k \in DOMAIN log : log[k] = s} = {i}
  BY <1>1, <1>2 DEF ReportInv
<1>4. Max({i}) = i
  BY <1>2 DEF Max
<1> QED
  BY <1>2, <1>3, <1>4 DEF LastAt

-----------------------------------------------------------------------------
(* Types and stages *)

\* Every step keeps the types of what is stored.
LEMMA StoreStep == ASSUME Inv, [Next]_vars PROVE StoreTypes'
<1>a. StoreTypes /\ ProcessTypes /\ StageInv /\ ReportInv
  BY DEF Inv, TypeInv
<1>b. /\ adm \in [Specs -> Row] /\ daily \in [Days -> Nat]
      /\ log \in Seq(Specs) /\ clock \in Days
      /\ runs \in [Specs -> Nat] /\ consents \in [Auths -> Nat] /\ accepted \in [Days -> Nat]
  BY <1>a DEF StoreTypes
<1>1. ASSUME NEW s \in Specs, Submit(s) PROVE StoreTypes'
  BY <1>b, <1>1 DEF Submit, StoreTypes, SubSame, rows, process, outside, history
<1>2. CASE SubmitSteps /\ ~SubmitAdmits
  BY <1>b, <1>2 DEF SubmitSteps, SubmitExpired, SubmitReceived, SubmitFetched,
     SubmitNotFetched, SubmitRefused, SubmitMirrored, SubmitQueues, SubmitRefuses,
     SubmitFails, StoreTypes, SubSame, rows, process, outside, history
<1>3. CASE SubmitAdmits
  <2>1. PICK now \in Readings : Admit(sub.spec, now) /\ accepted' = [accepted EXCEPT ![now] = @ + 1]
    BY <1>3 DEF SubmitAdmits
  <2>2. now \in Days /\ now \in Nat /\ [Absent EXCEPT !.state = "accepted", !.at = now] \in Row
    BY <1>a, <2>1, ReadingIsDay, FreshIsRow
  <2>3. adm' \in [Specs -> Row]
    BY <1>b, <2>1, <2>2 DEF Admit
  <2>4. daily' \in [Days -> Nat] /\ accepted' \in [Days -> Nat]
    BY <1>b, <2>1, <2>2 DEF Admit
  <2>5. consents' \in [Auths -> Nat]
    <3>1. AuthOf[sub.spec] \in Auths
      BY <1>a, <1>3, AuthIsAuth DEF SubmitAdmits, ProcessTypes
    <3>2. consents[AuthOf[sub.spec]] + 1 \in Nat
      BY <1>b, <3>1
    <3> QED
      BY <1>b, <1>3, <3>1, <3>2 DEF SubmitAdmits
  <2> QED
    BY <1>b, <1>3, <2>3, <2>4, <2>5 DEF SubmitAdmits, StoreTypes, outside
<1>4. CASE WorkerSteps /\ ~WorkerClaims /\ ~WorkerReads /\ ~WorkerSaves
  BY <1>b, <1>4 DEF WorkerSteps, WorkerTakes, WorkerStops, WorkerReadsNothing, WorkerRecords,
     StoreTypes, WorkSame, rows, outside, history
<1>5. CASE WorkerClaims
  <2>1. adm' \in [Specs -> Row]
    <3>1. worker.spec \in Specs
      BY <1>a, <1>5 DEF ProcessTypes, WorkerClaims
    <3>2. [adm[worker.spec] EXCEPT !.state = "running"] \in Row
      BY <1>b, <3>1, RowWith DEF States
    <3> QED
      BY <1>b, <1>5, <3>1, <3>2 DEF WorkerClaims
  <2> QED
    BY <1>b, <1>5, <2>1 DEF WorkerClaims, StoreTypes, WorkSame, outside, history
<1>6. CASE WorkerReads
  <2>1. runs' \in [Specs -> Nat]
    <3>1. worker.spec \in Specs /\ runs[worker.spec] + 1 \in Nat
      BY <1>a, <1>b, <1>6 DEF WorkerReads, ProcessTypes
    <3> QED
      BY <1>b, <1>6, <3>1 DEF WorkerReads
  <2> QED
    BY <1>b, <1>6, <2>1 DEF WorkerReads, StoreTypes, rows, outside
<1>7. CASE WorkerSaves
  <2>1. adm' \in [Specs -> Row]
    <3>1. PICK st \in {"reported", "refused"} : SaveState(worker.spec, st)
      BY <1>7 DEF WorkerSaves
    <3> QED
      BY <1>b, <3>1, SavesRow DEF States
  <2> QED
    BY <1>b, <1>7, <2>1 DEF WorkerSaves, StoreTypes, WorkSame, outside, history
<1>8. CASE WorkerFails \/ RecoverFlushes \/ Crash \/ Disconnect \/ Reconnect
  BY <1>b, <1>8 DEF WorkerFails, RecoverFlushes, Crash, Disconnect, Reconnect, StoreTypes,
     SubSame, WorkSame, rows, process, outside, history
<1>9. CASE Starts
  <2>1. adm' \in [Specs -> Row]
    BY <1>b, <1>9, RowWith DEF Starts, States
  <2> QED
    BY <1>b, <1>9, <2>1 DEF Starts, StoreTypes, outside, history
<1>10. CASE RecoverPrunes
  <2>1. adm' \in [Specs -> Row]
    BY <1>b, <1>10, FreshIsRow DEF RecoverPrunes
  <2>2. daily' \in [Days -> Nat]
    BY <1>b, <1>10 DEF RecoverPrunes
  <2> QED
    BY <1>b, <1>10, <2>1, <2>2 DEF RecoverPrunes, StoreTypes, outside, history
<1>11. CASE Acknowledge
  <2>1. PICK k \in 1 .. Len(log) :
          adm' = [s \in Specs |-> IF adm[s].seq = 0 THEN adm[s]
                                  ELSE [adm[s] EXCEPT !.delivered = adm[s].seq <= k]]
    BY <1>11 DEF Acknowledge
  <2>2. ASSUME NEW s \in Specs PROVE adm'[s] \in Row
    <3>1. (adm[s].seq <= k) \in BOOLEAN
      OBVIOUS
    <3> QED
      BY <1>b, <2>1, <3>1, RowWith
  <2>3. adm' \in [Specs -> Row]
    BY <2>1, <2>2
  <2> QED
    BY <1>b, <1>11, <2>3 DEF Acknowledge, StoreTypes, outside, history
<1>12. CASE Tick
  BY <1>b, <1>12, LaneAssumption DEF Tick, Days, StoreTypes, rows, history
<1>13. ASSUME NEW s \in Specs, RecoverSaves(s) PROVE StoreTypes'
  <2>1. adm' \in [Specs -> Row]
    BY <1>b, <1>13, SavesRow DEF RecoverSaves, States
  <2> QED
    BY <1>b, <1>13, <2>1 DEF RecoverSaves, StoreTypes, outside, process, history
<1>14. ASSUME NEW s \in Specs, RecoverRecords(s) PROVE StoreTypes'
  BY <1>b, <1>14 DEF RecoverRecords, StoreTypes, rows, process, outside, history
<1>15. ASSUME NEW a \in {"submit", "worker", "start"},
             FlushBegins(a) \/ FlushEnds(a)
      PROVE StoreTypes'
  BY <1>b, <1>15 DEF FlushBegins, FlushEnds, StoreTypes, FlushSame, outside, history
<1>16. ASSUME NEW a \in {"submit", "worker", "start"}, FlushAppends(a) PROVE StoreTypes'
  <2>1. PICK s \in flush.todo : AppendReport(a, s)
    BY <1>16 DEF FlushAppends
  <2>2. s \in Specs
    BY <1>a, <2>1 DEF ProcessTypes
  <2>3. log' \in Seq(Specs)
    BY <1>b, <2>1, <2>2, LogGrows DEF AppendReport
  <2> QED
    BY <1>b, <1>16, <2>3 DEF FlushAppends, StoreTypes, FlushSame, outside, history
<1>17. ASSUME NEW a \in {"submit", "worker", "start"}, FlushLinks(a) PROVE StoreTypes'
  <2>1. flush.cur \in Specs /\ LastAt(flush.cur) \in Nat
    BY <1>a, <1>17, LastIsEntry DEF FlushLinks, ReportInv, ProcessTypes
  <2>2. [adm[flush.cur] EXCEPT !.seq = LastAt(flush.cur)] \in Row
    BY <1>b, <2>1, RowWith
  <2>3. adm' \in [Specs -> Row]
    BY <1>b, <1>17, <2>1, <2>2 DEF FlushLinks
  <2> QED
    BY <1>b, <1>17, <2>3 DEF FlushLinks, StoreTypes, FlushSame, outside, history
<1>18. ASSUME NEW a \in {"submit", "worker"}, FlushFails(a) PROVE StoreTypes'
  <2>1. log' \in Seq(Specs)
    <3>1. \A s \in flush.todo : s \in Specs
      BY <1>a DEF ProcessTypes
    <3>2. log' = log \/ \E s \in flush.todo : log' = Append(log, s)
      BY <1>18 DEF FlushFails
    <3> QED
      BY <1>b, <3>1, <3>2, LogGrows
  <2> QED
    BY <1>b, <1>18, <2>1 DEF FlushFails, StoreTypes, FlushSame, outside, history
<1>19. CASE UNCHANGED vars
  BY <1>b, <1>19 DEF vars, StoreTypes
<1> QED
  BY <1>1, <1>2, <1>3, <1>4, <1>5, <1>6, <1>7, <1>8, <1>9, <1>10, <1>11, <1>12, <1>13, <1>14,
     <1>15, <1>16, <1>17, <1>18, <1>19
     DEF Next, SubmitSteps, WorkerSteps, FlushSteps, StartSteps

LEMMA IdleIsJob ==
  /\ Idle \in Job(SubPcs) /\ Idle \in Job(WorkerPcs) /\ Idle.pc = "idle"
  /\ [Idle EXCEPT !.pc = "stopped"] \in Job(WorkerPcs)
  /\ [Idle EXCEPT !.pc = "stopped"].pc = "stopped"
  /\ Free \in [by : {"nobody", "submit", "worker", "start"}, todo : SUBSET Specs,
               cur : Specs \cup {None}]
  BY DEF Idle, Free, Job, SubPcs, WorkerPcs

\* Nobody else is in a flush while Submit or the worker is elsewhere.
LEMMA FlushOfOther ==
  ASSUME StageInv, status = "up"
  PROVE  /\ sub.pc # "flush" => flush = Free \/ (flush.by = "worker" /\ worker.pc = "flush")
         /\ worker.pc # "flush" => flush = Free \/ (flush.by = "submit" /\ sub.pc = "flush")
<1>1. \/ flush = Free
      \/ flush.by = "submit" /\ sub.pc = "flush"
      \/ flush.by = "worker" /\ worker.pc = "flush"
  BY DEF StageInv, Flushing
<1> QED
  BY <1>1

\* Every step keeps the types of the process, and everybody at a stage of the
\* start, of a run or of a flush that the others leave to him.
LEMMA ProcessStep == ASSUME Inv, [Next]_vars PROVE ProcessTypes' /\ StageInv'
<1>b. ProcessTypes /\ StageInv
  BY DEF Inv, TypeInv
<1>1. ASSUME NEW s \in Specs, Submit(s) PROVE ProcessTypes' /\ StageInv'
  BY <1>b, <1>1 DEF Submit, ProcessTypes, StageInv, Job, SubPcs, WorkerPcs, Idle, Free,
     Flushing, SubSame, process
<1>2. CASE SubmitExpired
  BY <1>b, <1>2 DEF SubmitExpired, ProcessTypes, StageInv, Job, SubPcs, WorkerPcs, Idle, Free,
     Flushing, SubSame, SubStep, process
<1>3. CASE SubmitReceived
  BY <1>b, <1>3 DEF SubmitReceived, ProcessTypes, StageInv, Job, SubPcs, WorkerPcs, Idle,
     Free, Flushing, SubSame, SubStep, Record, process
<1>4. CASE SubmitFetched
  BY <1>b, <1>4 DEF SubmitFetched, ProcessTypes, StageInv, Job, SubPcs, WorkerPcs, Idle, Free,
     Flushing, SubSame, SubStep, process
<1>5. CASE SubmitNotFetched
  <2>1. flush = Free \/ (flush.by = "worker" /\ worker.pc = "flush")
    BY <1>b, <1>5, FlushOfOther DEF SubmitNotFetched
  <2>2. status' = "up" /\ flush' = flush /\ worker' = worker /\ queue' = queue /\ failed' = failed
    BY <1>5 DEF SubmitNotFetched, SubSame, process
  <2>3. sub' \in Job(SubPcs) /\ (sub'.pc # "idle" => sub'.spec \in Specs)
    BY <1>b, <1>5, IdleIsJob DEF SubmitNotFetched, ProcessTypes, SubStep, Job, SubPcs
  <2> QED
    BY <1>b, <2>1, <2>2, <2>3 DEF ProcessTypes, StageInv, Flushing
<1>6. CASE SubmitAdmits
  <2>1. flush = Free \/ (flush.by = "worker" /\ worker.pc = "flush")
    BY <1>b, <1>6, FlushOfOther DEF SubmitAdmits
  <2>2. status' = "up" /\ flush' = flush /\ worker' = worker /\ queue' = queue /\ failed' = failed
    BY <1>6 DEF SubmitAdmits, process
  <2>3. sub' \in Job(SubPcs) /\ (sub'.pc # "idle" => sub'.spec \in Specs)
    BY <1>b, <1>6, IdleIsJob DEF SubmitAdmits, ProcessTypes, SubStep, Job, SubPcs
  <2> QED
    BY <1>b, <2>1, <2>2, <2>3 DEF ProcessTypes, StageInv, Flushing
<1>7. CASE SubmitRefused
  BY <1>b, <1>7 DEF SubmitRefused, ProcessTypes, StageInv, Job, SubPcs, WorkerPcs, Idle, Free,
     Flushing, SubSame, SubStep, process
<1>8. CASE SubmitMirrored
  BY <1>b, <1>8 DEF SubmitMirrored, ProcessTypes, StageInv, Job, SubPcs, WorkerPcs, Idle,
     Free, Flushing, SubSame, SubStep, process
<1>9. CASE SubmitQueues
  BY <1>b, <1>9 DEF SubmitQueues, ProcessTypes, StageInv, Job, SubPcs, WorkerPcs, Idle, Free,
     Flushing
<1>10. CASE SubmitRefuses
  <2>1. flush = Free \/ (flush.by = "worker" /\ worker.pc = "flush")
    BY <1>b, <1>10, FlushOfOther DEF SubmitRefuses
  <2>2. status' = "up" /\ flush' = flush /\ worker' = worker /\ queue' = queue /\ failed' = failed
    BY <1>10 DEF SubmitRefuses, SubSame, Record, process
  <2>3. sub' \in Job(SubPcs) /\ (sub'.pc # "idle" => sub'.spec \in Specs)
    BY <1>b, <1>10, IdleIsJob DEF SubmitRefuses, ProcessTypes, Job, SubPcs
  <2> QED
    BY <1>b, <2>1, <2>2, <2>3 DEF ProcessTypes, StageInv, Flushing
<1>11. CASE SubmitFails
  BY <1>b, <1>11 DEF SubmitFails, ProcessTypes, StageInv, Job, SubPcs, WorkerPcs, Idle, Free,
     Flushing, Fail
<1>12. CASE WorkerTakes
  <2>1. /\ status' = status /\ flush' = flush /\ sub' = sub /\ failed' = failed
        /\ queue' = <<>> /\ status = "up" /\ worker.pc = "idle"
    BY <1>12 DEF WorkerTakes
  <2>2. PICK s \in Specs : queue = <<s>>
    BY <1>b, <1>12 DEF WorkerTakes, ProcessTypes
  <2>3. worker' = [spec |-> s, pc |-> "claim", ctx |-> FALSE]
    BY <1>12, <2>2 DEF WorkerTakes
  <2>4. worker' \in Job(WorkerPcs) /\ worker'.spec \in Specs
    BY <2>3 DEF Job, WorkerPcs
  <2>5. flush = Free \/ (flush.by = "submit" /\ sub.pc = "flush")
    BY <1>b, <2>1, FlushOfOther
  <2> QED
    BY <1>b, <2>1, <2>4, <2>5 DEF ProcessTypes, StageInv, Flushing
<1>13. CASE WorkerStops
  BY <1>b, <1>13 DEF WorkerStops, ProcessTypes, StageInv, Job, SubPcs, WorkerPcs, Idle, Free,
     Flushing, WorkSame, WorkStop
<1>14. CASE WorkerClaims
  BY <1>b, <1>14 DEF WorkerClaims, ProcessTypes, StageInv, Job, SubPcs, WorkerPcs, Idle, Free,
     Flushing, WorkSame, WorkStep
<1>15. CASE WorkerReads
  BY <1>b, <1>15 DEF WorkerReads, ProcessTypes, StageInv, Job, SubPcs, WorkerPcs, Idle, Free,
     Flushing
<1>16. CASE WorkerReadsNothing
  BY <1>b, <1>16 DEF WorkerReadsNothing, ProcessTypes, StageInv, Job, SubPcs, WorkerPcs, Idle,
     Free, Flushing, WorkSame, WorkStep
<1>17. CASE WorkerSaves
  BY <1>b, <1>17 DEF WorkerSaves, ProcessTypes, StageInv, Job, SubPcs, WorkerPcs, Idle, Free,
     Flushing, WorkSame, WorkStep
<1>18. CASE WorkerRecords
  BY <1>b, <1>18 DEF WorkerRecords, ProcessTypes, StageInv, Job, SubPcs, WorkerPcs, Idle,
     Free, Flushing, WorkSame, WorkStep, Record
<1>19. CASE WorkerFails
  <2>1. /\ status' = status /\ flush' = flush /\ sub' = sub /\ failed' = TRUE
        /\ queue' = queue /\ status = "up" /\ worker.pc # "flush"
        /\ worker' = [Idle EXCEPT !.pc = "stopped"]
    BY <1>19 DEF WorkerFails, WorkSame, WorkStop, Fail
  <2>2. worker' \in Job(WorkerPcs) /\ worker'.pc = "stopped"
    BY <2>1, IdleIsJob
  <2>3. flush = Free \/ (flush.by = "submit" /\ sub.pc = "flush")
    BY <1>b, <2>1, FlushOfOther
  <2> QED
    BY <1>b, <2>1, <2>2, <2>3 DEF ProcessTypes, StageInv, Flushing
<1>20. CASE Starts
  BY <1>b, <1>20 DEF Starts, ProcessTypes, StageInv, Job, SubPcs, WorkerPcs, Idle, Free,
     Flushing
<1>21. CASE RecoverFlushes
  BY <1>b, <1>21 DEF RecoverFlushes, ProcessTypes, StageInv, Job, SubPcs, WorkerPcs, Idle,
     Free, Flushing, SubSame, SubStep, process
<1>22. CASE RecoverPrunes
  BY <1>b, <1>22 DEF RecoverPrunes, ProcessTypes, StageInv, Job, SubPcs, WorkerPcs, Idle,
     Free, Flushing
<1>23. CASE Crash
  BY <1>b, <1>23 DEF Crash, ProcessTypes, StageInv, Job, SubPcs, WorkerPcs, Idle, Free, Flushing
<1>24. CASE Disconnect
  <2>1. sub' \in Job(SubPcs) /\ sub'.pc = sub.pc /\ sub'.spec = sub.spec
    BY <1>b, <1>24 DEF Disconnect, ProcessTypes, Job
  <2> QED
    BY <1>b, <1>24, <2>1 DEF Disconnect, ProcessTypes, StageInv, Flushing
<1>25. CASE Reconnect
  BY <1>b, <1>25 DEF Reconnect, ProcessTypes, StageInv, Job, SubPcs, WorkerPcs, Idle, Free,
     Flushing, process
<1>26. CASE Acknowledge
  BY <1>b, <1>26 DEF Acknowledge, ProcessTypes, StageInv, Job, SubPcs, WorkerPcs, Idle, Free,
     Flushing, process
<1>27. CASE Tick
  BY <1>b, <1>27 DEF Tick, ProcessTypes, StageInv, Job, SubPcs, WorkerPcs, Idle, Free,
     Flushing, process
<1>28. ASSUME NEW s \in Specs, RecoverSaves(s) PROVE ProcessTypes' /\ StageInv'
  BY <1>b, <1>28 DEF RecoverSaves, ProcessTypes, StageInv, Job, SubPcs, WorkerPcs, Idle, Free,
     Flushing, process
<1>29. ASSUME NEW s \in Specs, RecoverRecords(s) PROVE ProcessTypes' /\ StageInv'
  BY <1>b, <1>29 DEF RecoverRecords, ProcessTypes, StageInv, Job, SubPcs, WorkerPcs, Idle,
     Free, Flushing, Record, process
<1>30. ASSUME NEW a \in {"submit", "worker", "start"}, FlushBegins(a)
      PROVE ProcessTypes' /\ StageInv'
  <2>1. Unlinked \subseteq Specs
    BY DEF Unlinked
  <2> QED
    BY <1>b, <1>30, <2>1 DEF FlushBegins, ProcessTypes, StageInv, Job, SubPcs, WorkerPcs,
       Idle, Free, Flushing, FlushSame
<1>31. ASSUME NEW a \in {"submit", "worker", "start"}, FlushAppends(a)
      PROVE ProcessTypes' /\ StageInv'
  <2>1. PICK s \in flush.todo : flush' = [flush EXCEPT !.cur = s, !.todo = @ \ {s}]
    BY <1>31 DEF FlushAppends
  <2>2. s \in Specs /\ flush.todo \ {s} \subseteq Specs
    BY <1>b, <2>1 DEF ProcessTypes
  <2>3. /\ flush' \in [by : {"nobody", "submit", "worker", "start"}, todo : SUBSET Specs,
                      cur : Specs \cup {None}]
        /\ flush'.by = flush.by
    BY <1>b, <2>1, <2>2 DEF ProcessTypes
  <2> QED
    BY <1>b, <1>31, <2>3 DEF FlushAppends, ProcessTypes, StageInv, Flushing, FlushSame
<1>32. ASSUME NEW a \in {"submit", "worker", "start"}, FlushLinks(a)
      PROVE ProcessTypes' /\ StageInv'
  <2>1. /\ flush' \in [by : {"nobody", "submit", "worker", "start"}, todo : SUBSET Specs,
                      cur : Specs \cup {None}]
        /\ flush'.by = flush.by
    BY <1>b, <1>32 DEF FlushLinks, ProcessTypes
  <2> QED
    BY <1>b, <1>32, <2>1 DEF FlushLinks, ProcessTypes, StageInv, Flushing, FlushSame
<1>33. ASSUME NEW a \in {"submit", "worker", "start"}, FlushEnds(a)
      PROVE ProcessTypes' /\ StageInv'
  <2>1. CASE a = "submit"
    BY <1>b, <1>33, <2>1, IdleIsJob DEF FlushEnds, FlushDone, Flushing, ProcessTypes,
       StageInv, FlushSame
  <2>2. CASE a = "worker"
    BY <1>b, <1>33, <2>2, IdleIsJob DEF FlushEnds, FlushDone, Flushing, ProcessTypes,
       StageInv, FlushSame
  <2>3. CASE a = "start"
    BY <1>b, <1>33, <2>3 DEF FlushEnds, FlushDone, ProcessTypes, StageInv, Job, SubPcs,
       WorkerPcs, Idle, Free, Flushing, FlushSame, SubStep
  <2> QED
    BY <2>1, <2>2, <2>3
<1>34. ASSUME NEW a \in {"submit", "worker"}, FlushFails(a) PROVE ProcessTypes' /\ StageInv'
  <2>1. failed' \in BOOLEAN /\ flush' = Free /\ status' = status /\ queue' = queue
    BY <1>b, <1>34 DEF FlushFails, ProcessTypes, Fail, FlushSame
  <2>2. status = "up"
    BY <1>34 DEF FlushFails, Flushing
  <2>3. CASE a = "submit"
    <3>1. sub' = Idle /\ worker' = worker
      BY <1>34, <2>3 DEF FlushFails, FlushAborts
    <3> QED
      BY <1>b, <2>1, <2>2, <3>1, IdleIsJob DEF ProcessTypes, StageInv
  <2>4. CASE a = "worker"
    <3>1. worker' = [Idle EXCEPT !.pc = "stopped"] /\ sub' = sub
      BY <1>34, <2>4 DEF FlushFails, FlushAborts, WorkStop
    <3> QED
      BY <1>b, <2>1, <2>2, <3>1, IdleIsJob DEF ProcessTypes, StageInv
  <2> QED
    BY <2>3, <2>4
<1>35. CASE UNCHANGED vars
  BY <1>b, <1>35 DEF vars, ProcessTypes, StageInv, Job, SubPcs, WorkerPcs, Idle, Free, Flushing
<1> QED
  BY <1>1, <1>2, <1>3, <1>4, <1>5, <1>6, <1>7, <1>8, <1>9, <1>10, <1>11, <1>12, <1>13, <1>14,
     <1>15, <1>16, <1>17, <1>18, <1>19, <1>20, <1>21, <1>22, <1>23, <1>24, <1>25, <1>26,
     <1>27, <1>28, <1>29, <1>30, <1>31, <1>32, <1>33, <1>34, <1>35
     DEF Next, SubmitSteps, WorkerSteps, FlushSteps, StartSteps

-----------------------------------------------------------------------------
(* Which steps admit, forget and hold *)

\* The rows that exist, their times and all counts stay as they are.
RowsKept ==
    /\ \A s \in Specs : (Exists(s)' <=> Exists(s)) /\ adm'[s].at = adm[s].at
    /\ daily' = daily /\ consents' = consents /\ accepted' = accepted
    /\ clock <= clock'

\* A result of an admitted spec neither adds nor removes a row.
LEMMA SavesKeeps ==
  ASSUME adm \in [Specs -> Row], NEW t \in Specs, Exists(t),
         NEW st \in States \ {"absent"}, SaveState(t, st)
  PROVE  \A s \in Specs : (Exists(s)' <=> Exists(s)) /\ adm'[s].at = adm[s].at
<1>1. CASE adm[t].result # "none"
  BY <1>1 DEF SaveState, Exists
<1>2. CASE adm[t].result = "none"
  <2>1. adm' = [adm EXCEPT ![t] = [adm[t] EXCEPT !.state = st, !.result = "saved"]]
    BY <1>2 DEF SaveState
  <2>2. adm[t] \in Row
    OBVIOUS
  <2>3. /\ [adm[t] EXCEPT !.state = st, !.result = "saved"].state = st
        /\ [adm[t] EXCEPT !.state = st, !.result = "saved"].at = adm[t].at
    BY <2>2 DEF Row
  <2>4. st # "absent"
    OBVIOUS
  <2> QED
    BY <2>1, <2>3, <2>4 DEF Exists
<1> QED
  BY <1>1, <1>2

\* Only Admit adds a row and only PruneVerification removes one.
LEMMA RowsMostlyKept == ASSUME Inv, [Next]_vars PROVE RowsKept \/ SubmitAdmits \/ RecoverPrunes
<1>b. /\ adm \in [Specs -> Row] /\ clock \in Nat
  BY LaneAssumption DEF Inv, TypeInv, StoreTypes, Days
<1>c. UNCHANGED <<adm, daily, consents, accepted, clock>> => RowsKept
  BY <1>b DEF RowsKept, Exists
<1>1. ASSUME NEW s \in Specs, Submit(s) PROVE RowsKept
  BY <1>c, <1>1 DEF Submit, SubSame, rows, outside, history
<1>2. CASE SubmitSteps /\ ~SubmitAdmits
  BY <1>c, <1>2 DEF SubmitSteps, SubmitExpired, SubmitReceived, SubmitFetched,
     SubmitNotFetched, SubmitRefused, SubmitMirrored, SubmitQueues, SubmitRefuses,
     SubmitFails, SubSame, rows, outside, history
<1>3. CASE SubmitAdmits
  BY <1>3
<1>4. CASE WorkerSteps /\ ~WorkerClaims /\ ~WorkerSaves
  BY <1>c, <1>4 DEF WorkerSteps, WorkerTakes, WorkerStops, WorkerReads, WorkerReadsNothing,
     WorkerRecords, WorkSame, rows, outside, history
<1>5. CASE WorkerClaims
  <2>1. worker.spec \in Specs /\ adm[worker.spec].state = "accepted"
    BY <1>5 DEF Inv, TypeInv, ProcessTypes, WorkerClaims
  <2> QED
    BY <1>b, <1>5, <2>1 DEF WorkerClaims, RowsKept, Exists, Row, WorkSame, outside, history
<1>6. CASE WorkerSaves
  <2>1. PICK st \in {"reported", "refused"} : SaveState(worker.spec, st)
    BY <1>6 DEF WorkerSaves
  <2>2. worker.spec \in Specs /\ Holds(worker.spec)
    BY <1>6 DEF Inv, TypeInv, ProcessTypes, WorkerSaves, Holds
  <2>3. Exists(worker.spec)
    BY <2>2 DEF Inv, SpentInv
  <2>4. st \in States \ {"absent"}
    BY DEF States
  <2> QED
    BY <1>b, <1>6, <2>1, <2>2, <2>3, <2>4, SavesKeeps DEF WorkerSaves, RowsKept, WorkSame,
       outside, history
<1>7. CASE WorkerFails \/ RecoverFlushes \/ Crash \/ Disconnect \/ Reconnect
  BY <1>c, <1>7 DEF WorkerFails, RecoverFlushes, Crash, Disconnect, Reconnect, SubSame,
     WorkSame, rows, outside, history
<1>8. CASE Starts
  BY <1>b, <1>8 DEF Starts, Unfinished, RowsKept, Exists, Row, outside, history
<1>9. CASE RecoverPrunes
  BY <1>9
<1>10. CASE Acknowledge
  <2>1. PICK k \in 1 .. Len(log) :
          adm' = [s \in Specs |-> IF adm[s].seq = 0 THEN adm[s]
                                  ELSE [adm[s] EXCEPT !.delivered = adm[s].seq <= k]]
    BY <1>10 DEF Acknowledge
  <2>2. \A s \in Specs : adm'[s].state = adm[s].state /\ adm'[s].at = adm[s].at
    BY <1>b, <2>1 DEF Row
  <2> QED
    BY <1>b, <1>10, <2>2 DEF Acknowledge, RowsKept, Exists, outside, history
<1>11. CASE Tick
  BY <1>b, <1>11 DEF Tick, RowsKept, Exists, rows, history
<1>12. ASSUME NEW s \in Specs, RecoverSaves(s) PROVE RowsKept
  <2>1. Exists(s) /\ SaveState(s, "interrupted") /\ "interrupted" \in States \ {"absent"}
    BY <1>12 DEF RecoverSaves, Unresolved, Exists, States
  <2> QED
    BY <1>b, <1>12, <2>1, SavesKeeps DEF RecoverSaves, RowsKept, outside, history
<1>13. ASSUME NEW s \in Specs, RecoverRecords(s) PROVE RowsKept
  BY <1>c, <1>13 DEF RecoverRecords, rows, outside, history
<1>14. ASSUME NEW a \in {"submit", "worker", "start"},
             FlushBegins(a) \/ FlushAppends(a) \/ FlushEnds(a) \/ FlushFails(a)
      PROVE RowsKept
  BY <1>c, <1>14 DEF FlushBegins, FlushAppends, FlushEnds, FlushFails, FlushSame, outside,
     history
<1>15. ASSUME NEW a \in {"submit", "worker", "start"}, FlushLinks(a) PROVE RowsKept
  <2>1. \A s \in Specs : adm'[s].state = adm[s].state /\ adm'[s].at = adm[s].at
    BY <1>b, <1>15 DEF FlushLinks, Row
  <2> QED
    BY <1>b, <1>15, <2>1 DEF FlushLinks, RowsKept, Exists, FlushSame, outside, history
<1>16. CASE UNCHANGED vars
  BY <1>c, <1>16 DEF vars
<1> QED
  BY <1>1, <1>2, <1>3, <1>4, <1>5, <1>6, <1>7, <1>8, <1>9, <1>10, <1>11, <1>12, <1>13, <1>14,
     <1>15, <1>16
     DEF Next, SubmitSteps, WorkerSteps, FlushSteps, StartSteps

\* Nobody comes to hold a spec but by admitting it.
LEMMA HeldByAdmission ==
  ASSUME Inv, [Next]_vars, NEW s \in Specs, Holds(s)'
  PROVE  Holds(s) \/ (SubmitAdmits /\ s = sub.spec)
<1>b. /\ sub \in Job(SubPcs) /\ worker \in Job(WorkerPcs) /\ StageInv
      /\ queue = <<>> \/ \E t \in Specs : queue = <<t>>
  BY DEF Inv, TypeInv, ProcessTypes
<1> USE DEF Holds
<1>1. ASSUME NEW t \in Specs, Submit(t) PROVE Holds(s) \/ (SubmitAdmits /\ s = sub.spec)
  BY <1>b, <1>1 DEF Submit, Job, Idle, StageInv, SubSame, process
<1>2. CASE SubmitSteps
  BY <1>b, <1>2 DEF SubmitSteps, SubmitExpired, SubmitReceived, SubmitFetched,
     SubmitNotFetched, SubmitAdmits, SubmitRefused, SubmitMirrored, SubmitQueues,
     SubmitRefuses, SubmitFails, Job, Idle, StageInv, SubStep, SubSame, process
<1>3. CASE WorkerTakes
  BY <1>b, <1>3 DEF WorkerTakes, Job, Idle, StageInv
<1>4. CASE WorkerStops
  BY <1>b, <1>4 DEF WorkerStops, Job, Idle, StageInv, WorkStop, WorkSame
<1>5. CASE WorkerClaims
  BY <1>b, <1>5 DEF WorkerClaims, Job, Idle, StageInv, WorkStep, WorkSame
<1>6. CASE WorkerReads
  BY <1>b, <1>6 DEF WorkerReads, Job, Idle, StageInv
<1>7. CASE WorkerReadsNothing
  BY <1>b, <1>7 DEF WorkerReadsNothing, Job, Idle, StageInv, WorkStep, WorkSame
<1>8. CASE WorkerSaves
  BY <1>b, <1>8 DEF WorkerSaves, Job, Idle, StageInv, WorkStep, WorkSame
<1>9. CASE WorkerRecords
  BY <1>b, <1>9 DEF WorkerRecords, Job, Idle, StageInv, WorkStep, WorkSame
<1>10. CASE WorkerFails \/ Starts \/ RecoverFlushes \/ RecoverPrunes \/ Crash
         \/ Disconnect \/ Reconnect \/ Acknowledge \/ Tick
  BY <1>b, <1>10 DEF WorkerFails, Starts, RecoverFlushes, RecoverPrunes, Crash, Disconnect,
     Reconnect, Acknowledge, Tick, Job, Idle, StageInv, SubStep, WorkStop, SubSame, WorkSame,
     process
<1>11. ASSUME NEW t \in Specs, RecoverSaves(t) PROVE Holds(s) \/ (SubmitAdmits /\ s = sub.spec)
  BY <1>b, <1>11 DEF RecoverSaves, Job, Idle, StageInv, process
<1>12. ASSUME NEW t \in Specs, RecoverRecords(t) PROVE Holds(s) \/ (SubmitAdmits /\ s = sub.spec)
  BY <1>b, <1>12 DEF RecoverRecords, Job, Idle, StageInv, process
<1>13. ASSUME NEW a \in {"submit", "worker", "start"}, FlushBegins(a)
      PROVE Holds(s) \/ (SubmitAdmits /\ s = sub.spec)
  BY <1>b, <1>13 DEF FlushBegins, Job, Idle, StageInv, FlushSame
<1>14. ASSUME NEW a \in {"submit", "worker", "start"}, FlushAppends(a)
      PROVE Holds(s) \/ (SubmitAdmits /\ s = sub.spec)
  BY <1>b, <1>14 DEF FlushAppends, Job, Idle, StageInv, FlushSame
<1>15. ASSUME NEW a \in {"submit", "worker", "start"}, FlushLinks(a)
      PROVE Holds(s) \/ (SubmitAdmits /\ s = sub.spec)
  BY <1>b, <1>15 DEF FlushLinks, Job, Idle, StageInv, FlushSame
<1>16. ASSUME NEW a \in {"submit", "worker", "start"}, FlushEnds(a)
      PROVE Holds(s) \/ (SubmitAdmits /\ s = sub.spec)
  <2>1. CASE a = "submit"
    BY <1>b, <1>16, <2>1 DEF FlushEnds, FlushDone, Job, Idle, StageInv, SubStep, FlushSame
  <2>2. CASE a = "worker"
    BY <1>b, <1>16, <2>2 DEF FlushEnds, FlushDone, Job, Idle, StageInv, SubStep, FlushSame
  <2>3. CASE a = "start"
    BY <1>b, <1>16, <2>3 DEF FlushEnds, FlushDone, Job, Idle, StageInv, SubStep, FlushSame
  <2> QED
    BY <2>1, <2>2, <2>3
<1>17. ASSUME NEW a \in {"submit", "worker"}, FlushFails(a)
      PROVE Holds(s) \/ (SubmitAdmits /\ s = sub.spec)
  <2>1. CASE a = "submit"
    BY <1>b, <1>17, <2>1 DEF FlushFails, FlushAborts, Job, Idle, StageInv, WorkStop, FlushSame
  <2>2. CASE a = "worker"
    BY <1>b, <1>17, <2>2 DEF FlushFails, FlushAborts, Job, Idle, StageInv, WorkStop, FlushSame
  <2> QED
    BY <2>1, <2>2
<1>18. CASE UNCHANGED vars
  BY <1>b, <1>18 DEF vars, Job, Idle, StageInv
<1> QED
  BY <1>1, <1>2, <1>3, <1>4, <1>5, <1>6, <1>7, <1>8, <1>9, <1>10, <1>11, <1>12, <1>13, <1>14,
     <1>15, <1>16, <1>17, <1>18
     DEF Next, SubmitSteps, WorkerSteps, FlushSteps, StartSteps

-----------------------------------------------------------------------------
(* Specs, authorizations and days are spent for good *)

\* What makes a spec valid again after it is forgotten would be a reading of
\* the clock before it was.
LEMMA GoneIsInvalid ==
  ASSUME RetainOutlives, StoreTypes, NEW s \in Specs, NEW now \in Readings, Valid(s, now)
  PROVE  ~Gone(IssuedAt[s]) /\ ~Gone(ConsentAt[AuthOf[s]]) /\ ~Gone(now)
<1>1. /\ IssuedAt[s] \in Nat /\ ConsentAt[AuthOf[s]] \in Nat
      /\ Life \in Nat /\ MaxLag \in Nat /\ Retain \in Nat
  BY LaneAssumption
<1>2. now \in Nat /\ clock \in Nat /\ clock - MaxLag <= now
  BY LaneAssumption DEF StoreTypes, Readings, Days
<1> QED
  BY <1>1, <1>2 DEF RetainOutlives, Valid, Gone

\* PruneVerification forgets a spec when its time is over.
LEMMA ForgottenIsGone ==
  ASSUME Inv, NEW now \in Readings, NEW s \in Specs, Exists(s), Prunable(s, now)
  PROVE  Gone(IssuedAt[s]) /\ Gone(ConsentAt[AuthOf[s]])
<1>1. /\ IssuedAt[s] \in Nat /\ ConsentAt[AuthOf[s]] \in Nat /\ ConsentAt[AuthOf[s]] <= IssuedAt[s]
      /\ Retain \in Nat
  BY LaneAssumption
<1>2. now \in Nat /\ clock \in Nat /\ now <= clock /\ adm[s].at \in Nat
  BY LaneAssumption, ReadingIsDay DEF Inv, TypeInv, StoreTypes, Days, Row
<1>3. IssuedAt[s] <= adm[s].at /\ adm[s].at < now - Retain
  BY DEF Inv, SpentInv, Prunable
<1> QED
  BY <1>1, <1>2, <1>3 DEF Gone

\* What is over stays so.
LEMMA GoneForever == ASSUME Inv, [Next]_vars PROVE clock' \in Nat /\ clock <= clock'
<1>1. clock' \in Nat /\ clock \in Nat
  BY StoreStep, LaneAssumption DEF Inv, TypeInv, StoreTypes, Days
<1> QED
  BY <1>1, RowsMostlyKept DEF RowsKept, SubmitAdmits, RecoverPrunes, outside

\* A source is read by nobody but the worker.
LEMMA ReadByWorker ==
  ASSUME Inv, [Next]_vars
  PROVE  runs' = runs \/ (WorkerReads /\ runs' = [runs EXCEPT ![worker.spec] = @ + 1])
<1> DEFINE Goal == runs' = runs \/ (WorkerReads /\ runs' = [runs EXCEPT ![worker.spec] = @ + 1])
<1>1. ASSUME NEW s \in Specs, Submit(s) PROVE Goal
  BY <1>1 DEF Submit, SubSame, history
<1>2. CASE SubmitSteps
  BY <1>2 DEF SubmitSteps, SubmitExpired, SubmitReceived, SubmitFetched, SubmitNotFetched,
     SubmitAdmits, SubmitRefused, SubmitMirrored, SubmitQueues, SubmitRefuses, SubmitFails,
     SubSame, history
<1>3. CASE WorkerSteps
  BY <1>3 DEF WorkerSteps, WorkerTakes, WorkerStops, WorkerClaims, WorkerReads,
     WorkerReadsNothing, WorkerSaves, WorkerRecords, WorkSame, history
<1>4. CASE WorkerFails \/ Starts \/ RecoverFlushes \/ RecoverPrunes \/ Crash
         \/ Disconnect \/ Reconnect \/ Acknowledge \/ Tick
  BY <1>4 DEF WorkerFails, Starts, RecoverFlushes, RecoverPrunes, Crash, Disconnect,
     Reconnect, Acknowledge, Tick, SubSame, WorkSame, history
<1>5. ASSUME NEW s \in Specs, RecoverSaves(s) PROVE Goal
  BY <1>5 DEF RecoverSaves, history
<1>6. ASSUME NEW s \in Specs, RecoverRecords(s) PROVE Goal
  BY <1>6 DEF RecoverRecords, history
<1>7. ASSUME NEW a \in {"submit", "worker", "start"},
             FlushBegins(a) \/ FlushAppends(a) \/ FlushLinks(a) \/ FlushEnds(a) \/ FlushFails(a)
      PROVE Goal
  BY <1>7 DEF FlushBegins, FlushAppends, FlushLinks, FlushEnds, FlushFails, FlushSame, history
<1>8. CASE UNCHANGED vars
  BY <1>8 DEF vars
<1> QED
  BY <1>1, <1>2, <1>3, <1>4, <1>5, <1>6, <1>7, <1>8 DEF Next, SubmitSteps, WorkerSteps,
     FlushSteps, StartSteps

\* An entry is appended by the flush that has its spec to do.
Appends(t) ==
    /\ t \in flush.todo /\ flush.cur = None /\ flush # Free /\ Flushing(flush.by)
    /\ log' = Append(log, t)
    /\ \/ flush.by = "start" /\ ~InLog(t) /\ flush'.cur = t
       \/ flush.by # "start" /\ (flush'.cur = t \/ (flush' = Free /\ failed'))

LEMMA LogByFlush == ASSUME Inv, [Next]_vars PROVE log' = log \/ \E t \in flush.todo : Appends(t)
<1> DEFINE Goal == log' = log \/ \E t \in flush.todo : Appends(t)
<1>1. ASSUME NEW s \in Specs, Submit(s) PROVE Goal
  BY <1>1 DEF Submit, SubSame
<1>2. CASE SubmitSteps
  BY <1>2 DEF SubmitSteps, SubmitExpired, SubmitReceived, SubmitFetched, SubmitNotFetched,
     SubmitAdmits, SubmitRefused, SubmitMirrored, SubmitQueues, SubmitRefuses, SubmitFails,
     SubSame
<1>3. CASE WorkerSteps
  BY <1>3 DEF WorkerSteps, WorkerTakes, WorkerStops, WorkerClaims, WorkerReads,
     WorkerReadsNothing, WorkerSaves, WorkerRecords, WorkSame
<1>4. CASE WorkerFails \/ Starts \/ RecoverFlushes \/ RecoverPrunes \/ Crash
         \/ Disconnect \/ Reconnect \/ Acknowledge \/ Tick
  BY <1>4 DEF WorkerFails, Starts, RecoverFlushes, RecoverPrunes, Crash, Disconnect,
     Reconnect, Acknowledge, Tick, SubSame, WorkSame
<1>5. ASSUME NEW s \in Specs, RecoverSaves(s) PROVE Goal
  BY <1>5 DEF RecoverSaves
<1>6. ASSUME NEW s \in Specs, RecoverRecords(s) PROVE Goal
  BY <1>6 DEF RecoverRecords
<1>7. ASSUME NEW a \in {"submit", "worker", "start"},
             FlushBegins(a) \/ FlushLinks(a) \/ FlushEnds(a)
      PROVE Goal
  BY <1>7 DEF FlushBegins, FlushLinks, FlushEnds, FlushSame
<1>8. ASSUME NEW a \in {"submit", "worker", "start"}, FlushAppends(a) PROVE Goal
  <2>1. PICK t \in flush.todo :
          AppendReport(a, t) /\ flush' = [flush EXCEPT !.cur = t, !.todo = @ \ {t}]
    BY <1>8 DEF FlushAppends
  <2>2. flush'.cur = t /\ flush # Free
    BY <2>1 DEF Inv, TypeInv, ProcessTypes, Free
  <2> QED
    BY <1>8, <2>1, <2>2 DEF FlushAppends, AppendReport, Appends
<1>9. ASSUME NEW a \in {"submit", "worker"}, FlushFails(a) PROVE Goal
  <2>1. CASE log' = log
    BY <2>1
  <2>2. CASE log' # log
    <3>1. PICK t \in flush.todo : log' = Append(log, t)
      BY <1>9, <2>2 DEF FlushFails
    <3>2. flush.by = a /\ flush.cur = None /\ Flushing(a) /\ flush' = Free /\ failed'
      BY <1>9, <2>2 DEF FlushFails, Fail
    <3>3. flush # Free
      BY <3>1 DEF Free
    <3> QED
      BY <3>1, <3>2, <3>3 DEF Appends
  <2> QED
    BY <2>1, <2>2
<1>10. CASE UNCHANGED vars
  BY <1>10 DEF vars
<1> QED
  BY <1>1, <1>2, <1>3, <1>4, <1>5, <1>6, <1>7, <1>8, <1>9, <1>10
     DEF Next, SubmitSteps, WorkerSteps, FlushSteps, StartSteps

\* Appending an entry makes just its own spec one of the log.
LEMMA EntriesGrow ==
  ASSUME StoreTypes, NEW t \in Specs, log' = Append(log, t)
  PROVE  /\ \A s \in Specs : InLog(s)' <=> InLog(s) \/ s = t
         /\ Len(log') = Len(log) + 1 /\ Len(log) \in Nat /\ log'[Len(log) + 1] = t
         /\ \A i \in 1 .. Len(log) : log'[i] = log[i]
<1>1. log \in Seq(Specs) /\ Len(log) \in Nat /\ DOMAIN log = 1 .. Len(log)
  BY DEF StoreTypes
<1>2. /\ Len(log') = Len(log) + 1 /\ log'[Len(log) + 1] = t
      /\ \A i \in 1 .. Len(log) : log'[i] = log[i]
      /\ DOMAIN log' = 1 .. Len(log) + 1
  BY <1>1
<1>3. ASSUME NEW s \in Specs PROVE InLog(s)' <=> InLog(s) \/ s = t
  <2>1. InLog(s)' <=> \E i \in 1 .. Len(log) + 1 : log'[i] = s
    BY <1>2 DEF InLog
  <2>2. InLog(s) <=> \E i \in 1 .. Len(log) : log[i] = s
    BY <1>1 DEF InLog
  <2>3. 1 .. Len(log) + 1 = 1 .. Len(log) \cup {Len(log) + 1}
    BY <1>1
  <2> QED
    BY <1>2, <2>1, <2>2, <2>3
<1> QED
  BY <1>1, <1>2, <1>3

\* Every step keeps what is spent spent: see SpentInv.
LEMMA SpentStep == ASSUME RetainOutlives, Inv, [Next]_vars PROVE SpentInv'
<1>a. /\ StoreTypes /\ ProcessTypes /\ SpentInv /\ StoreTypes'
      /\ clock \in Nat /\ clock' \in Nat /\ clock <= clock'
  <2>1. StoreTypes /\ ProcessTypes /\ SpentInv
    BY DEF Inv, TypeInv
  <2>2. clock \in Nat
    BY <2>1, LaneAssumption DEF StoreTypes, Days
  <2> QED
    BY <2>1, <2>2, StoreStep, GoneForever
<1>g. ASSUME NEW t \in Nat, Gone(t) PROVE Gone(t)'
  BY <1>a, <1>g, LaneAssumption DEF Gone
<1>t. ASSUME NEW s \in Specs
      PROVE  IssuedAt[s] \in Nat /\ ConsentAt[AuthOf[s]] \in Nat /\ AuthOf[s] \in Auths
  BY LaneAssumption, AuthIsAuth
<1>n. ASSUME NEW s \in Specs, runs'[s] > 0 \/ InLog(s)' PROVE runs[s] > 0 \/ InLog(s) \/ Exists(s)
  <2>1. CASE runs'[s] > 0 /\ ~(runs[s] > 0)
    <3>1. WorkerReads /\ runs' = [runs EXCEPT ![worker.spec] = @ + 1]
      BY <2>1, ReadByWorker
    <3>2. worker.spec = s
      BY <1>a, <2>1, <3>1 DEF StoreTypes
    <3>3. Holds(s)
      BY <3>1, <3>2 DEF WorkerReads, Holds
    <3> QED
      BY <1>a, <3>3 DEF SpentInv
  <2>2. CASE InLog(s)' /\ ~InLog(s)
    <3>1. PICK t \in flush.todo : log' = Append(log, t)
      BY <2>2, LogByFlush DEF InLog, Appends
    <3>2. t \in Specs /\ Exists(t)
      BY <3>1 DEF Inv, ReportInv, TypeInv, ProcessTypes
    <3>3. s = t
      BY <1>a, <2>2, <3>1, <3>2, EntriesGrow
    <3> QED
      BY <3>2, <3>3
  <2> QED
    BY <1>n, <2>1, <2>2
<1>o. ASSUME NEW s \in Specs, runs'[s] > 0 \/ InLog(s)' PROVE Exists(s) \/ Gone(IssuedAt[s])
  BY <1>a, <1>n, <1>o DEF SpentInv
<1>1. CASE RowsKept
  <2>1. \A s \in Specs : Exists(s)' => IssuedAt[s] <= adm'[s].at
    BY <1>1, <1>a DEF RowsKept, SpentInv
  <2>2. ASSUME NEW s \in Specs, Holds(s)' PROVE Exists(s)'
    <3>1. CASE Holds(s)
      BY <1>1, <1>a, <3>1 DEF RowsKept, SpentInv
    <3>2. CASE SubmitAdmits /\ s = sub.spec
      <4>1. PICK now \in Readings : Admit(s, now)
        BY <3>2 DEF SubmitAdmits
      <4> QED
        BY <1>a, <4>1 DEF Admit, Exists, Absent, StoreTypes
    <3> QED
      BY <2>2, <3>1, <3>2, HeldByAdmission
  <2>3. ASSUME NEW s \in Specs, runs'[s] > 0 \/ InLog(s)' PROVE Exists(s)' \/ Gone(IssuedAt[s])'
    BY <1>1, <1>o, <1>g, <1>t, <2>3 DEF RowsKept
  <2>4. ASSUME NEW s \in Specs, consents'[AuthOf[s]] > 0
        PROVE  \/ \E t \in Specs : Exists(t)' /\ AuthOf[t] = AuthOf[s]
               \/ Gone(ConsentAt[AuthOf[s]])'
    <3>1. consents[AuthOf[s]] > 0
      BY <1>1, <2>4 DEF RowsKept
    <3>2. CASE Gone(ConsentAt[AuthOf[s]])
      BY <1>g, <1>t, <3>2
    <3>3. CASE \E t \in Specs : Exists(t) /\ AuthOf[t] = AuthOf[s]
      BY <1>1, <3>3 DEF RowsKept
    <3> QED
      BY <1>a, <3>1, <3>2, <3>3 DEF SpentInv
  <2>5. \A a \in Auths : consents'[a] <= 1
    BY <1>1, <1>a DEF RowsKept, SpentInv
  <2>6. ASSUME NEW d \in Days PROVE accepted'[d] <= Quota /\ (accepted'[d] = daily'[d] \/ Gone(d)')
    <3>1. d \in Nat
      BY LaneAssumption DEF Days
    <3> QED
      BY <1>1, <1>a, <1>g, <3>1 DEF RowsKept, SpentInv
  <2> QED
    BY <2>1, <2>2, <2>3, <2>4, <2>5, <2>6 DEF SpentInv
<1>2. CASE SubmitAdmits
  <2>1. PICK now \in Readings :
          /\ MayAdmit(sub.spec, now) /\ Admit(sub.spec, now)
          /\ accepted' = [accepted EXCEPT ![now] = @ + 1]
    BY <1>2 DEF SubmitAdmits
  <2>2. PICK t \in Specs : t = sub.spec
    BY <1>2, <1>a DEF ProcessTypes, SubmitAdmits
  <2>3. /\ adm' = [adm EXCEPT ![t] = [Absent EXCEPT !.state = "accepted", !.at = now]]
        /\ daily' = [daily EXCEPT ![now] = @ + 1]
        /\ consents' = [consents EXCEPT ![AuthOf[t]] = @ + 1]
    BY <1>2, <2>1, <2>2 DEF Admit, SubmitAdmits
  <2>4. now \in Days /\ now \in Nat /\ Valid(t, now)
    BY <1>a, <2>1, <2>2, ReadingIsDay DEF MayAdmit
  <2>5. /\ adm'[t].state = "accepted" /\ adm'[t].at = now
        /\ \A s \in Specs : s # t => adm'[s] = adm[s]
    BY <1>a, <2>3 DEF StoreTypes, Absent
  <2>6. \A s \in Specs : Exists(s)' <=> (s = t \/ Exists(s))
    BY <2>5 DEF Exists
  <2>7. ~Gone(IssuedAt[t]) /\ ~Gone(ConsentAt[AuthOf[t]]) /\ ~Gone(now)
    BY <1>a, <2>4, GoneIsInvalid
  <2>8. \A s \in Specs : Exists(s) => AuthOf[s] # AuthOf[t]
    BY <2>1, <2>2 DEF MayAdmit
  <2>9. AuthOf[t] \in Auths /\ consents[AuthOf[t]] = 0
    <3>1. ~(consents[AuthOf[t]] > 0)
      BY <1>a, <2>7, <2>8 DEF SpentInv
    <3>2. AuthOf[t] \in Auths
      BY <1>t
    <3> QED
      BY <1>a, <3>1, <3>2 DEF StoreTypes
  <2>10. \A s \in Specs : Exists(s)' => IssuedAt[s] <= adm'[s].at
    BY <1>a, <2>4, <2>5, <2>6 DEF SpentInv, Valid
  <2>11. ASSUME NEW s \in Specs, Holds(s)' PROVE Exists(s)'
    BY <1>a, <2>2, <2>6, <2>11, HeldByAdmission DEF SpentInv
  <2>12. ASSUME NEW s \in Specs, runs'[s] > 0 \/ InLog(s)' PROVE Exists(s)' \/ Gone(IssuedAt[s])'
    BY <1>o, <1>g, <1>t, <2>6, <2>12
  <2>13. ASSUME NEW s \in Specs, consents'[AuthOf[s]] > 0
         PROVE  \/ \E u \in Specs : Exists(u)' /\ AuthOf[u] = AuthOf[s]
                \/ Gone(ConsentAt[AuthOf[s]])'
    <3>1. CASE AuthOf[s] = AuthOf[t]
      BY <2>6, <3>1
    <3>2. CASE AuthOf[s] # AuthOf[t]
      <4>1. consents[AuthOf[s]] > 0
        BY <1>a, <1>t, <2>3, <2>13, <3>2 DEF StoreTypes
      <4>2. CASE Gone(ConsentAt[AuthOf[s]])
        BY <1>g, <1>t, <4>2
      <4>3. CASE \E u \in Specs : Exists(u) /\ AuthOf[u] = AuthOf[s]
        BY <2>6, <4>3
      <4> QED
        BY <1>a, <4>1, <4>2, <4>3 DEF SpentInv
    <3> QED
      BY <3>1, <3>2
  <2>14. \A a \in Auths : consents'[a] <= 1
    BY <1>a, <2>3, <2>9 DEF SpentInv, StoreTypes
  <2>15. ASSUME NEW d \in Days PROVE accepted'[d] <= Quota /\ (accepted'[d] = daily'[d] \/ Gone(d)')
    <3>1. d \in Nat /\ Quota \in Nat
      BY LaneAssumption DEF Days
    <3>2. CASE d = now
      <4>1. accepted[now] = daily[now] /\ daily[now] < Quota
        BY <1>a, <2>1, <2>4, <2>7 DEF SpentInv, MayAdmit
      <4>2. accepted[now] \in Nat /\ daily[now] \in Nat
        BY <1>a, <2>4 DEF StoreTypes
      <4>3. accepted'[now] = accepted[now] + 1 /\ daily'[now] = daily[now] + 1
        BY <1>a, <2>1, <2>3, <2>4 DEF StoreTypes
      <4> QED
        BY <3>1, <3>2, <4>1, <4>2, <4>3
    <3>3. CASE d # now
      <4>1. accepted'[d] = accepted[d] /\ daily'[d] = daily[d]
        BY <1>a, <2>1, <2>3, <3>3 DEF StoreTypes
      <4> QED
        BY <1>a, <1>g, <3>1, <4>1 DEF SpentInv
    <3> QED
      BY <3>2, <3>3
  <2> QED
    BY <2>10, <2>11, <2>12, <2>13, <2>14, <2>15 DEF SpentInv
<1>3. CASE RecoverPrunes
  <2>1. PICK now \in Readings :
          LET kept == {s \in Specs : Exists(s) /\ ~Prunable(s, now)}
              pastDays == {d \in Days : d < now - Retain /\ \A s \in kept : adm[s].at # d}
          IN  /\ adm' = [s \in Specs |-> IF s \in kept THEN adm[s] ELSE Absent]
              /\ daily' = [d \in Days |-> IF d \in pastDays THEN 0 ELSE daily[d]]
    BY <1>3 DEF RecoverPrunes
  <2>2. now \in Days /\ now \in Nat /\ now <= clock
    BY <1>a, ReadingIsDay
  <2>3. ASSUME NEW s \in Specs
        PROVE  /\ Exists(s)' => Exists(s) /\ adm'[s] = adm[s]
               /\ Exists(s) => Exists(s)' \/ (Gone(IssuedAt[s])' /\ Gone(ConsentAt[AuthOf[s]])')
    <3>1. CASE Exists(s) /\ ~Prunable(s, now)
      <4>1. adm'[s] = adm[s]
        BY <2>1, <3>1
      <4> QED
        BY <3>1, <4>1 DEF Exists
    <3>2. CASE ~(Exists(s) /\ ~Prunable(s, now))
      <4>1. adm'[s] = Absent
        BY <2>1, <3>2
      <4>2. ~Exists(s)'
        BY <4>1 DEF Exists, Absent
      <4>3. Exists(s) => Gone(IssuedAt[s]) /\ Gone(ConsentAt[AuthOf[s]])
        BY <3>2, ForgottenIsGone
      <4> QED
        BY <1>g, <1>t, <4>2, <4>3
    <3> QED
      BY <3>1, <3>2
  <2>4. consents' = consents /\ accepted' = accepted
    BY <1>3 DEF RecoverPrunes, history
  <2>5. \A s \in Specs : Exists(s)' => IssuedAt[s] <= adm'[s].at
    BY <1>a, <2>3 DEF SpentInv
  <2>6. \A s \in Specs : ~Holds(s)'
    BY <1>3 DEF RecoverPrunes, Holds, Idle, Inv, StageInv
  <2>7. ASSUME NEW s \in Specs, runs'[s] > 0 \/ InLog(s)' PROVE Exists(s)' \/ Gone(IssuedAt[s])'
    BY <1>o, <1>g, <1>t, <2>3, <2>7
  <2>8. ASSUME NEW s \in Specs, consents'[AuthOf[s]] > 0
        PROVE  \/ \E t \in Specs : Exists(t)' /\ AuthOf[t] = AuthOf[s]
               \/ Gone(ConsentAt[AuthOf[s]])'
    <3>1. consents[AuthOf[s]] > 0
      BY <2>4, <2>8
    <3>2. CASE Gone(ConsentAt[AuthOf[s]])
      BY <1>g, <1>t, <3>2
    <3>3. ASSUME NEW t \in Specs, Exists(t), AuthOf[t] = AuthOf[s]
          PROVE  Exists(t)' \/ Gone(ConsentAt[AuthOf[s]])'
      BY <2>3, <3>3
    <3> QED
      BY <1>a, <3>1, <3>2, <3>3 DEF SpentInv
  <2>9. ASSUME NEW d \in Days PROVE accepted'[d] <= Quota /\ (accepted'[d] = daily'[d] \/ Gone(d)')
    <3>1. d \in Nat /\ Retain \in Nat
      BY LaneAssumption DEF Days
    <3>2. CASE daily'[d] = daily[d]
      BY <1>a, <1>g, <2>4, <3>1, <3>2 DEF SpentInv
    <3>3. CASE daily'[d] # daily[d]
      <4>1. d < now - Retain
        BY <2>1, <3>3
      <4>2. Gone(d)'
        BY <1>a, <2>2, <3>1, <4>1 DEF Gone
      <4> QED
        BY <1>a, <2>4, <4>2 DEF SpentInv
    <3> QED
      BY <3>2, <3>3
  <2> QED
    BY <1>a, <2>4, <2>5, <2>6, <2>7, <2>8, <2>9 DEF SpentInv
<1> QED
  BY <1>1, <1>2, <1>3, RowsMostlyKept

-----------------------------------------------------------------------------
(* A source is read once, after its event is synced *)

LEMMA SavedState ==
  ASSUME adm \in [Specs -> Row], NEW s \in Specs, NEW t, NEW st, SaveState(t, st)
  PROVE  adm'[s].state = adm[s].state \/ (s = t /\ adm'[s].state = st)
<1>1. adm[s] \in Row
  OBVIOUS
<1>2. [adm[s] EXCEPT !.state = st, !.result = "saved"].state = st
  BY <1>1 DEF Row
<1> QED
  BY <1>2 DEF SaveState

\* The state of a row changes by admission, claim, result and start only.
LEMMA StateMoves ==
  ASSUME Inv, [Next]_vars, NEW s \in Specs
  PROVE  \/ adm'[s].state = adm[s].state
         \/ SubmitAdmits /\ s = sub.spec
         \/ WorkerClaims /\ s = worker.spec /\ adm'[s].state = "running"
         \/ WorkerSaves /\ s = worker.spec /\ adm'[s].state \in {"reported", "refused"}
         \/ status # "up" /\ adm'[s].state \in {"interrupted", "absent"}
<1> DEFINE Goal == \/ adm'[s].state = adm[s].state
                   \/ SubmitAdmits /\ s = sub.spec
                   \/ WorkerClaims /\ s = worker.spec /\ adm'[s].state = "running"
                   \/ WorkerSaves /\ s = worker.spec /\ adm'[s].state \in {"reported", "refused"}
                   \/ status # "up" /\ adm'[s].state \in {"interrupted", "absent"}
<1>b. adm \in [Specs -> Row] /\ adm[s] \in Row
  BY DEF Inv, TypeInv, StoreTypes
<1>1. ASSUME NEW t \in Specs, Submit(t) PROVE Goal
  BY <1>1 DEF Submit, SubSame, rows
<1>2. CASE SubmitSteps /\ ~SubmitAdmits
  BY <1>2 DEF SubmitSteps, SubmitExpired, SubmitReceived, SubmitFetched, SubmitNotFetched,
     SubmitRefused, SubmitMirrored, SubmitQueues, SubmitRefuses, SubmitFails, SubSame, rows
<1>3. CASE SubmitAdmits
  BY <1>b, <1>3 DEF SubmitAdmits, Admit
<1>4. CASE WorkerSteps /\ ~WorkerClaims /\ ~WorkerSaves
  BY <1>4 DEF WorkerSteps, WorkerTakes, WorkerStops, WorkerReads, WorkerReadsNothing,
     WorkerRecords, WorkSame, rows
<1>5. CASE WorkerClaims
  BY <1>b, <1>5 DEF WorkerClaims, Row
<1>6. CASE WorkerSaves
  <2>1. PICK st \in {"reported", "refused"} : SaveState(worker.spec, st)
    BY <1>6 DEF WorkerSaves
  <2> QED
    BY <1>b, <1>6, <2>1, SavedState
<1>7. CASE WorkerFails \/ RecoverFlushes \/ Crash \/ Disconnect \/ Reconnect \/ Tick
  BY <1>7 DEF WorkerFails, RecoverFlushes, Crash, Disconnect, Reconnect, Tick, SubSame,
     WorkSame, rows
<1>8. CASE Starts
  BY <1>b, <1>8 DEF Starts, Row
<1>9. CASE RecoverPrunes
  BY <1>b, <1>9 DEF RecoverPrunes, Absent
<1>10. CASE Acknowledge
  <2>1. PICK k \in 1 .. Len(log) :
          adm' = [r \in Specs |-> IF adm[r].seq = 0 THEN adm[r]
                                  ELSE [adm[r] EXCEPT !.delivered = adm[r].seq <= k]]
    BY <1>10 DEF Acknowledge
  <2> QED
    BY <1>b, <2>1 DEF Row
<1>11. ASSUME NEW t \in Specs, RecoverSaves(t) PROVE Goal
  BY <1>b, <1>11, SavedState DEF RecoverSaves
<1>12. ASSUME NEW t \in Specs, RecoverRecords(t) PROVE Goal
  BY <1>12 DEF RecoverRecords, rows
<1>13. ASSUME NEW a \in {"submit", "worker", "start"},
             FlushBegins(a) \/ FlushAppends(a) \/ FlushEnds(a) \/ FlushFails(a)
      PROVE Goal
  BY <1>13 DEF FlushBegins, FlushAppends, FlushEnds, FlushFails, FlushSame
<1>14. ASSUME NEW a \in {"submit", "worker", "start"}, FlushLinks(a) PROVE Goal
  BY <1>b, <1>14 DEF FlushLinks, Row
<1>15. CASE UNCHANGED vars
  BY <1>15 DEF vars
<1> QED
  BY <1>1, <1>2, <1>3, <1>4, <1>5, <1>6, <1>7, <1>8, <1>9, <1>10, <1>11, <1>12, <1>13, <1>14,
     <1>15
     DEF Next, SubmitSteps, WorkerSteps, FlushSteps, StartSteps

\* Who is about to read has just claimed the spec, or has not read yet.
LEMMA ReadIsClaimed ==
  ASSUME Inv, [Next]_vars, worker'.pc = "read"
  PROVE  worker'.spec = worker.spec /\ (WorkerClaims \/ (worker.pc = "read" /\ ~WorkerReads))
<1> DEFINE Goal == worker'.spec = worker.spec /\ (WorkerClaims \/ (worker.pc = "read" /\ ~WorkerReads))
<1>b. worker \in Job(WorkerPcs)
  BY DEF Inv, TypeInv, ProcessTypes
<1>c. ASSUME UNCHANGED worker PROVE Goal
  <2>1. WorkerReads => worker'.pc = "save"
    BY <1>b DEF WorkerReads, Job
  <2> QED
    BY <1>c, <2>1
<1>1. ASSUME NEW s \in Specs, Submit(s) PROVE Goal
  BY <1>c, <1>1 DEF Submit, SubSame, process
<1>2. CASE SubmitSteps
  BY <1>c, <1>2 DEF SubmitSteps, SubmitExpired, SubmitReceived, SubmitFetched,
     SubmitNotFetched, SubmitAdmits, SubmitRefused, SubmitMirrored, SubmitQueues,
     SubmitRefuses, SubmitFails, SubSame, process
<1>3. CASE WorkerTakes
  BY <1>b, <1>3 DEF WorkerTakes, Idle, Job
<1>4. CASE WorkerStops
  BY <1>b, <1>4 DEF WorkerStops, WorkStop, Idle, Job
<1>5. CASE WorkerClaims
  BY <1>b, <1>5 DEF WorkerClaims, WorkStep, Idle, Job
<1>6. CASE WorkerReads
  BY <1>b, <1>6 DEF WorkerReads, Idle, Job
<1>7. CASE WorkerReadsNothing
  BY <1>b, <1>7 DEF WorkerReadsNothing, WorkStep, Idle, Job
<1>8. CASE WorkerSaves
  BY <1>b, <1>8 DEF WorkerSaves, WorkStep, Idle, Job
<1>9. CASE WorkerRecords
  BY <1>b, <1>9 DEF WorkerRecords, WorkStep, Idle, Job
<1>10. CASE Starts \/ RecoverFlushes \/ RecoverPrunes \/ Disconnect \/ Reconnect
         \/ Acknowledge \/ Tick
  BY <1>c, <1>10 DEF Starts, RecoverFlushes, RecoverPrunes, Disconnect, Reconnect,
     Acknowledge, Tick, SubSame, process
<1>11. CASE WorkerFails
  BY <1>b, <1>11 DEF WorkerFails, WorkStop, Idle, Job
<1>12. CASE Crash
  BY <1>b, <1>12 DEF Crash, Idle, Job
<1>13. ASSUME NEW s \in Specs, RecoverSaves(s) PROVE Goal
  BY <1>c, <1>13 DEF RecoverSaves, process
<1>14. ASSUME NEW s \in Specs, RecoverRecords(s) PROVE Goal
  BY <1>c, <1>14 DEF RecoverRecords, process
<1>15. ASSUME NEW a \in {"submit", "worker", "start"},
             FlushBegins(a) \/ FlushAppends(a) \/ FlushLinks(a)
      PROVE Goal
  BY <1>c, <1>15 DEF FlushBegins, FlushAppends, FlushLinks, FlushSame
<1>16. ASSUME NEW a \in {"submit", "worker", "start"}, FlushEnds(a) PROVE Goal
  <2>1. CASE a = "submit"
    BY <1>b, <1>c, <1>16, <2>1 DEF FlushEnds, FlushDone, Idle, Job
  <2>2. CASE a = "worker"
    BY <1>b, <1>c, <1>16, <2>2 DEF FlushEnds, FlushDone, Idle, Job
  <2>3. CASE a = "start"
    BY <1>b, <1>c, <1>16, <2>3 DEF FlushEnds, FlushDone, Idle, Job
  <2> QED
    BY <2>1, <2>2, <2>3
<1>17. ASSUME NEW a \in {"submit", "worker"}, FlushFails(a) PROVE Goal
  <2>1. CASE a = "submit"
    BY <1>b, <1>c, <1>17, <2>1 DEF FlushFails, FlushAborts, WorkStop, Idle, Job
  <2>2. CASE a = "worker"
    BY <1>b, <1>c, <1>17, <2>2 DEF FlushFails, FlushAborts, WorkStop, Idle, Job
  <2> QED
    BY <2>1, <2>2
<1>18. CASE UNCHANGED vars
  BY <1>c, <1>18 DEF vars
<1> QED
  BY <1>1, <1>2, <1>3, <1>4, <1>5, <1>6, <1>7, <1>8, <1>9, <1>10, <1>11, <1>12, <1>13, <1>14,
     <1>15, <1>16, <1>17, <1>18
     DEF Next, SubmitSteps, WorkerSteps, FlushSteps, StartSteps

\* A spec is dispatched once its accepted event is mirrored.
LEMMA DispatchedBySubmit ==
  ASSUME Inv, [Next]_vars, NEW s \in Specs, Dispatched(s)'
  PROVE  Dispatched(s) \/ (Holds(s) /\ mirrored' = events)
<1> DEFINE Goal == Dispatched(s) \/ (Holds(s) /\ mirrored' = events)
<1>b. /\ sub \in Job(SubPcs) /\ worker \in Job(WorkerPcs) /\ StageInv
      /\ queue = <<>> \/ \E t \in Specs : queue = <<t>>
  BY DEF Inv, TypeInv, ProcessTypes
<1> USE DEF Dispatched
<1>1. ASSUME NEW t \in Specs, Submit(t) PROVE Goal
  BY <1>b, <1>1 DEF Submit, Job, Idle, StageInv, SubSame, process
<1>2. CASE SubmitSteps /\ ~SubmitMirrored
  BY <1>b, <1>2 DEF SubmitSteps, SubmitExpired, SubmitReceived, SubmitFetched,
     SubmitNotFetched, SubmitAdmits, SubmitRefused, SubmitQueues, SubmitRefuses, SubmitFails,
     Job, Idle, StageInv, SubStep, SubSame, process
<1>3. CASE SubmitMirrored
  BY <1>b, <1>3 DEF SubmitMirrored, Holds, Job, SubStep, SubSame, process
<1>4. CASE WorkerTakes
  BY <1>b, <1>4 DEF WorkerTakes, Job, Idle, StageInv
<1>5. CASE WorkerStops
  BY <1>b, <1>5 DEF WorkerStops, Job, Idle, StageInv, WorkStop, WorkSame
<1>6. CASE WorkerClaims
  BY <1>b, <1>6 DEF WorkerClaims, Job, Idle, StageInv, WorkStep, WorkSame
<1>7. CASE WorkerReads
  BY <1>b, <1>7 DEF WorkerReads, Job, Idle, StageInv
<1>8. CASE WorkerReadsNothing
  BY <1>b, <1>8 DEF WorkerReadsNothing, Job, Idle, StageInv, WorkStep, WorkSame
<1>9. CASE WorkerSaves
  BY <1>b, <1>9 DEF WorkerSaves, Job, Idle, StageInv, WorkStep, WorkSame
<1>10. CASE WorkerRecords
  BY <1>b, <1>10 DEF WorkerRecords, Job, Idle, StageInv, WorkStep, WorkSame
<1>11. CASE WorkerFails \/ Starts \/ RecoverFlushes \/ RecoverPrunes \/ Crash
         \/ Disconnect \/ Reconnect \/ Acknowledge \/ Tick
  BY <1>b, <1>11 DEF WorkerFails, Starts, RecoverFlushes, RecoverPrunes, Crash, Disconnect,
     Reconnect, Acknowledge, Tick, Job, Idle, StageInv, SubStep, WorkStop, SubSame, WorkSame,
     process
<1>12. ASSUME NEW t \in Specs, RecoverSaves(t) PROVE Goal
  BY <1>b, <1>12 DEF RecoverSaves, Job, Idle, StageInv, process
<1>13. ASSUME NEW t \in Specs, RecoverRecords(t) PROVE Goal
  BY <1>b, <1>13 DEF RecoverRecords, Job, Idle, StageInv, process
<1>14. ASSUME NEW a \in {"submit", "worker", "start"}, FlushBegins(a) PROVE Goal
  BY <1>b, <1>14 DEF FlushBegins, Job, Idle, StageInv, FlushSame
<1>15. ASSUME NEW a \in {"submit", "worker", "start"}, FlushAppends(a) PROVE Goal
  BY <1>b, <1>15 DEF FlushAppends, Job, Idle, StageInv, FlushSame
<1>16. ASSUME NEW a \in {"submit", "worker", "start"}, FlushLinks(a) PROVE Goal
  BY <1>b, <1>16 DEF FlushLinks, Job, Idle, StageInv, FlushSame
<1>17. ASSUME NEW a \in {"submit", "worker", "start"}, FlushEnds(a) PROVE Goal
  <2>1. CASE a = "submit"
    BY <1>b, <1>17, <2>1 DEF FlushEnds, FlushDone, Job, Idle, StageInv, SubStep, FlushSame
  <2>2. CASE a = "worker"
    BY <1>b, <1>17, <2>2 DEF FlushEnds, FlushDone, Job, Idle, StageInv, SubStep, FlushSame
  <2>3. CASE a = "start"
    BY <1>b, <1>17, <2>3 DEF FlushEnds, FlushDone, Job, Idle, StageInv, SubStep, FlushSame
  <2> QED
    BY <2>1, <2>2, <2>3
<1>18. ASSUME NEW a \in {"submit", "worker"}, FlushFails(a) PROVE Goal
  <2>1. CASE a = "submit"
    BY <1>b, <1>18, <2>1 DEF FlushFails, FlushAborts, Job, Idle, StageInv, WorkStop, FlushSame
  <2>2. CASE a = "worker"
    BY <1>b, <1>18, <2>2 DEF FlushFails, FlushAborts, Job, Idle, StageInv, WorkStop, FlushSame
  <2> QED
    BY <2>1, <2>2
<1>19. CASE UNCHANGED vars
  BY <1>b, <1>19 DEF vars, Job, Idle, StageInv
<1> QED
  BY <1>1, <1>2, <1>3, <1>4, <1>5, <1>6, <1>7, <1>8, <1>9, <1>10, <1>11, <1>12, <1>13, <1>14,
     <1>15, <1>16, <1>17, <1>18, <1>19
     DEF Next, SubmitSteps, WorkerSteps, FlushSteps, StartSteps

\* No event is lost, nor one mirrored that is not in the table.
LEMMA EventsGrow ==
  ASSUME Inv, [Next]_vars
  PROVE  events \subseteq events' /\ mirrored \subseteq mirrored' /\ mirrored' \subseteq events'
<1> DEFINE Goal == events \subseteq events' /\ mirrored \subseteq mirrored' /\ mirrored' \subseteq events'
<1>b. mirrored \subseteq events
  BY DEF Inv, RunInv
<1>1. ASSUME NEW s \in Specs, Submit(s) PROVE Goal
  BY <1>b, <1>1 DEF Submit
<1>2. CASE SubmitSteps
  BY <1>b, <1>2 DEF SubmitSteps, SubmitExpired, SubmitReceived, SubmitFetched,
     SubmitNotFetched, SubmitAdmits, SubmitRefused, SubmitMirrored, SubmitQueues,
     SubmitRefuses, SubmitFails, Record
<1>3. CASE WorkerSteps
  BY <1>b, <1>3 DEF WorkerSteps, WorkerTakes, WorkerStops, WorkerClaims, WorkerReads,
     WorkerReadsNothing, WorkerSaves, WorkerRecords, Record
<1>4. CASE WorkerFails \/ Starts \/ RecoverFlushes \/ RecoverPrunes \/ Crash
         \/ Disconnect \/ Reconnect \/ Acknowledge \/ Tick
  BY <1>b, <1>4 DEF WorkerFails, Starts, RecoverFlushes, RecoverPrunes, Crash, Disconnect,
     Reconnect, Acknowledge, Tick, RecordFails
<1>5. ASSUME NEW s \in Specs, RecoverSaves(s) PROVE Goal
  BY <1>b, <1>5 DEF RecoverSaves
<1>6. ASSUME NEW s \in Specs, RecoverRecords(s) PROVE Goal
  BY <1>b, <1>6 DEF RecoverRecords, Record
<1>7. ASSUME NEW a \in {"submit", "worker", "start"},
             FlushBegins(a) \/ FlushAppends(a) \/ FlushLinks(a) \/ FlushEnds(a) \/ FlushFails(a)
      PROVE Goal
  BY <1>b, <1>7 DEF FlushBegins, FlushAppends, FlushLinks, FlushEnds, FlushFails
<1>8. CASE UNCHANGED vars
  BY <1>b, <1>8 DEF vars
<1> QED
  BY <1>1, <1>2, <1>3, <1>4, <1>5, <1>6, <1>7, <1>8 DEF Next, SubmitSteps, WorkerSteps,
     FlushSteps, StartSteps

\* Every step keeps RunInv: the claim is the only way into a read, and the
\* claim needs a row that is still as it was admitted.
LEMMA RunStep == ASSUME RetainOutlives, Inv, [Next]_vars PROVE RunInv'
<1>a. /\ StoreTypes /\ ProcessTypes /\ SpentInv /\ RunInv
      /\ events \subseteq events' /\ mirrored \subseteq mirrored' /\ mirrored' \subseteq events'
  BY EventsGrow DEF Inv, TypeInv
<1>b. runs \in [Specs -> Nat] /\ adm \in [Specs -> Row]
  BY <1>a DEF StoreTypes
<1>c. ASSUME WorkerReads, runs' = [runs EXCEPT ![worker.spec] = @ + 1]
      PROVE  /\ adm' = adm /\ worker.pc = "read" /\ worker.spec \in Specs
             /\ runs[worker.spec] = 0 /\ runs'[worker.spec] = 1
             /\ \A s \in Specs : s # worker.spec => runs'[s] = runs[s]
             /\ Dispatched(worker.spec)
  BY <1>a, <1>b, <1>c DEF WorkerReads, ProcessTypes, RunInv, Dispatched, rows
<1>1. ASSUME NEW s \in Specs
      PROVE  runs'[s] <= 1 /\ (runs'[s] > 0 => <<s, "accepted">> \in mirrored')
  <2>1. CASE runs' = runs
    BY <1>a, <2>1 DEF RunInv
  <2>2. CASE WorkerReads /\ runs' = [runs EXCEPT ![worker.spec] = @ + 1]
    BY <1>a, <1>c, <2>2 DEF RunInv
  <2> QED
    BY <2>1, <2>2, ReadByWorker
<1>2. ASSUME NEW s \in Specs, adm'[s].state = "accepted" PROVE runs'[s] = 0
  <2>1. CASE adm[s].state = "accepted"
    <3>1. runs[s] = 0
      BY <1>a, <2>1 DEF RunInv
    <3>2. CASE WorkerReads /\ runs' = [runs EXCEPT ![worker.spec] = @ + 1]
      BY <1>a, <1>c, <2>1, <3>1, <3>2 DEF RunInv
    <3> QED
      BY <3>1, <3>2, ReadByWorker
  <2>2. CASE SubmitAdmits /\ s = sub.spec
    <3>1. PICK now \in Readings : MayAdmit(s, now)
      BY <2>2 DEF SubmitAdmits
    <3>2. ~Exists(s) /\ ~Gone(IssuedAt[s])
      BY <1>a, <3>1, GoneIsInvalid DEF MayAdmit
    <3>3. ~(runs[s] > 0)
      BY <1>a, <3>2 DEF SpentInv
    <3>4. runs' = runs
      BY <2>2 DEF SubmitAdmits
    <3> QED
      BY <1>b, <3>3, <3>4
  <2> QED
    BY <1>2, <2>1, <2>2, StateMoves
<1>3. ASSUME worker'.pc = "read"
      PROVE  runs'[worker'.spec] = 0 /\ adm'[worker'.spec].state = "running"
  <2>1. worker'.spec = worker.spec /\ (WorkerClaims \/ (worker.pc = "read" /\ ~WorkerReads))
    BY <1>3, ReadIsClaimed
  <2>2. CASE WorkerClaims
    <3>1. worker.spec \in Specs /\ adm[worker.spec].state = "accepted" /\ runs' = runs
      BY <1>a, <2>2 DEF WorkerClaims, ProcessTypes, history
    <3>2. adm'[worker.spec].state = "running"
      BY <1>b, <2>2, <3>1 DEF WorkerClaims, Row
    <3> QED
      BY <1>a, <2>1, <3>1, <3>2 DEF RunInv
  <2>3. CASE worker.pc = "read" /\ ~WorkerReads
    <3>1. /\ worker.spec \in Specs /\ runs[worker.spec] = 0 /\ adm[worker.spec].state = "running"
          /\ status = "up"
      BY <1>a, <2>3 DEF RunInv, ProcessTypes, Inv, StageInv
    <3>2. runs' = runs
      BY <2>3, ReadByWorker
    <3>3. ~(SubmitAdmits /\ worker.spec = sub.spec)
      BY <3>1 DEF SubmitAdmits, MayAdmit, Exists
    <3>4. ~WorkerClaims /\ ~WorkerSaves
      BY <2>3 DEF WorkerClaims, WorkerSaves
    <3>5. adm'[worker.spec].state = "running"
      BY <3>1, <3>3, <3>4, StateMoves
    <3> QED
      BY <2>1, <3>1, <3>2, <3>5
  <2> QED
    BY <2>1, <2>2, <2>3
<1>4. ASSUME NEW s \in Specs, Dispatched(s)' PROVE <<s, "accepted">> \in mirrored'
  BY <1>a, <1>4, DispatchedBySubmit DEF RunInv
<1>5. ASSUME NEW s \in Specs, Holds(s)' PROVE <<s, "accepted">> \in events'
  <2>1. CASE SubmitAdmits /\ s = sub.spec
    BY <2>1 DEF SubmitAdmits
  <2> QED
    BY <1>a, <1>5, <2>1, HeldByAdmission DEF RunInv
<1> QED
  BY <1>a, <1>1, <1>2, <1>3, <1>4, <1>5 DEF RunInv

-----------------------------------------------------------------------------
(* Each report is in the log once, and its row names it *)

Links == \E a \in {"submit", "worker", "start"} : FlushLinks(a)

\* What a step does to the result and the link of a row.
LEMMA RowMoves ==
  ASSUME Inv, [Next]_vars, NEW s \in Specs
  PROVE  \/ SubmitAdmits /\ s = sub.spec /\ adm'[s].seq = 0
         \/ RecoverPrunes /\ adm'[s] = Absent
         \/ Links /\ s = flush.cur /\ adm'[s] = [adm[s] EXCEPT !.seq = LastAt(s)]
         \/ /\ adm'[s].seq = adm[s].seq
            /\ adm[s].result # "none" => adm'[s].result # "none"
<1> DEFINE Goal == \/ SubmitAdmits /\ s = sub.spec /\ adm'[s].seq = 0
                   \/ RecoverPrunes /\ adm'[s] = Absent
                   \/ Links /\ s = flush.cur /\ adm'[s] = [adm[s] EXCEPT !.seq = LastAt(s)]
                   \/ /\ adm'[s].seq = adm[s].seq
                      /\ adm[s].result # "none" => adm'[s].result # "none"
<1>b. adm \in [Specs -> Row] /\ adm[s] \in Row
  BY DEF Inv, TypeInv, StoreTypes
<1>c. ASSUME NEW t, NEW st, SaveState(t, st) PROVE Goal
  <2>1. [adm[s] EXCEPT !.state = st, !.result = "saved"].seq = adm[s].seq
    BY <1>b DEF Row
  <2>2. [adm[s] EXCEPT !.state = st, !.result = "saved"].result = "saved"
    BY <1>b DEF Row
  <2> QED
    BY <1>b, <1>c, <2>1, <2>2 DEF SaveState
<1>1. ASSUME NEW t \in Specs, Submit(t) PROVE Goal
  BY <1>1 DEF Submit, SubSame, rows
<1>2. CASE SubmitSteps /\ ~SubmitAdmits
  BY <1>2 DEF SubmitSteps, SubmitExpired, SubmitReceived, SubmitFetched, SubmitNotFetched,
     SubmitRefused, SubmitMirrored, SubmitQueues, SubmitRefuses, SubmitFails, SubSame, rows
<1>3. CASE SubmitAdmits
  <2>1. PICK now : Admit(sub.spec, now)
    BY <1>3 DEF SubmitAdmits
  <2>2. CASE s = sub.spec
    BY <1>b, <1>3, <2>1, <2>2 DEF Admit, Absent
  <2>3. CASE s # sub.spec
    BY <1>b, <2>1, <2>3 DEF Admit
  <2> QED
    BY <2>2, <2>3
<1>4. CASE WorkerSteps /\ ~WorkerClaims /\ ~WorkerSaves
  BY <1>4 DEF WorkerSteps, WorkerTakes, WorkerStops, WorkerReads, WorkerReadsNothing,
     WorkerRecords, WorkSame, rows
<1>5. CASE WorkerClaims
  BY <1>b, <1>5 DEF WorkerClaims, Row
<1>6. CASE WorkerSaves
  BY <1>c, <1>6 DEF WorkerSaves
<1>7. CASE WorkerFails \/ RecoverFlushes \/ Crash \/ Disconnect \/ Reconnect \/ Tick
  BY <1>7 DEF WorkerFails, RecoverFlushes, Crash, Disconnect, Reconnect, Tick, SubSame,
     WorkSame, rows
<1>8. CASE Starts
  BY <1>b, <1>8 DEF Starts, Row
<1>9. CASE RecoverPrunes
  BY <1>b, <1>9 DEF RecoverPrunes
<1>10. CASE Acknowledge
  <2>1. PICK k \in 1 .. Len(log) :
          adm' = [r \in Specs |-> IF adm[r].seq = 0 THEN adm[r]
                                  ELSE [adm[r] EXCEPT !.delivered = adm[r].seq <= k]]
    BY <1>10 DEF Acknowledge
  <2> QED
    BY <1>b, <2>1 DEF Row
<1>11. ASSUME NEW t \in Specs, RecoverSaves(t) PROVE Goal
  BY <1>c, <1>11 DEF RecoverSaves
<1>12. ASSUME NEW t \in Specs, RecoverRecords(t) PROVE Goal
  BY <1>12 DEF RecoverRecords, rows
<1>13. ASSUME NEW a \in {"submit", "worker", "start"},
             FlushBegins(a) \/ FlushAppends(a) \/ FlushEnds(a) \/ FlushFails(a)
      PROVE Goal
  BY <1>13 DEF FlushBegins, FlushAppends, FlushEnds, FlushFails, FlushSame
<1>14. ASSUME NEW a \in {"submit", "worker", "start"}, FlushLinks(a) PROVE Goal
  BY <1>b, <1>14 DEF FlushLinks, Links
<1>15. CASE UNCHANGED vars
  BY <1>15 DEF vars
<1> QED
  BY <1>1, <1>2, <1>3, <1>4, <1>5, <1>6, <1>7, <1>8, <1>9, <1>10, <1>11, <1>12, <1>13, <1>14,
     <1>15
     DEF Next, SubmitSteps, WorkerSteps, FlushSteps, StartSteps

\* An unfinished flush goes on or is given up.
LEMMA FlushMoves ==
  ASSUME Inv, [Next]_vars
  PROVE  \/ flush' = flush \/ flush' = Free
         \/ \E a \in {"submit", "worker", "start"} : FlushBegins(a) \/ FlushAppends(a)
         \/ Links
<1> DEFINE Goal == \/ flush' = flush \/ flush' = Free
                   \/ \E a \in {"submit", "worker", "start"} : FlushBegins(a) \/ FlushAppends(a)
                   \/ Links
<1>1. ASSUME NEW s \in Specs, Submit(s) PROVE Goal
  BY <1>1 DEF Submit, Links
<1>2. CASE SubmitSteps
  BY <1>2 DEF SubmitSteps, SubmitExpired, SubmitReceived, SubmitFetched, SubmitNotFetched,
     SubmitAdmits, SubmitRefused, SubmitMirrored, SubmitQueues, SubmitRefuses, SubmitFails,
     Links
<1>3. CASE WorkerSteps
  BY <1>3 DEF WorkerSteps, WorkerTakes, WorkerStops, WorkerClaims, WorkerReads,
     WorkerReadsNothing, WorkerSaves, WorkerRecords, WorkSame, Links
<1>4. CASE WorkerFails \/ Starts \/ RecoverFlushes \/ RecoverPrunes \/ Crash
         \/ Disconnect \/ Reconnect \/ Acknowledge \/ Tick
  BY <1>4 DEF WorkerFails, Starts, RecoverFlushes, RecoverPrunes, Crash, Disconnect,
     Reconnect, Acknowledge, Tick, WorkSame, Links
<1>5. ASSUME NEW s \in Specs, RecoverSaves(s) PROVE Goal
  BY <1>5 DEF RecoverSaves, Links
<1>6. ASSUME NEW s \in Specs, RecoverRecords(s) PROVE Goal
  BY <1>6 DEF RecoverRecords, Links
<1>7. ASSUME NEW a \in {"submit", "worker", "start"},
             FlushBegins(a) \/ FlushAppends(a) \/ FlushLinks(a) \/ FlushEnds(a) \/ FlushFails(a)
      PROVE Goal
  BY <1>7 DEF FlushBegins, FlushAppends, FlushLinks, FlushEnds, FlushFails, Links
<1>8. CASE UNCHANGED vars
  BY <1>8 DEF vars, Links
<1> QED
  BY <1>1, <1>2, <1>3, <1>4, <1>5, <1>6, <1>7, <1>8 DEF Next, SubmitSteps, WorkerSteps,
     FlushSteps, StartSteps

\* An entry waits for its link until it gets it.
LEMMA PendingStays ==
  ASSUME Inv, [Next]_vars, NEW s \in Specs, Pending(s)
  PROVE  Pending(s)' \/ (Links /\ s = flush.cur) \/ (FlushBegins("start") /\ s \notin Unlinked)
<1> DEFINE Goal == \/ Pending(s)' \/ (Links /\ s = flush.cur)
                   \/ (FlushBegins("start") /\ s \notin Unlinked)
<1>b. /\ sub \in Job(SubPcs) /\ StageInv /\ None \notin Specs
      /\ flush \in [by : {"nobody", "submit", "worker", "start"}, todo : SUBSET Specs,
                    cur : Specs \cup {None}]
  BY LaneAssumption DEF Inv, TypeInv, ProcessTypes
<1>c. Free.cur = None /\ Free.todo = {} /\ Free.by = "nobody"
  BY DEF Free
<1>d. status = "recovering" /\ sub.pc # "flush" => flush = Free
  BY <1>b DEF StageInv, Flushing
<1>e. status = "up" => failed \/ s = flush.cur
  BY DEF Pending
<1> USE DEF Pending
<1>1. ASSUME NEW t \in Specs, Submit(t) PROVE Goal
  BY <1>b, <1>1 DEF Submit, Job, StageInv, SubSame, process
<1>2. CASE SubmitSteps
  BY <1>b, <1>2 DEF SubmitSteps, SubmitExpired, SubmitReceived, SubmitFetched,
     SubmitNotFetched, SubmitAdmits, SubmitRefused, SubmitMirrored, SubmitQueues,
     SubmitRefuses, SubmitFails, SubStep, Fail, Job, StageInv, SubSame, process
<1>3. CASE WorkerSteps
  BY <1>b, <1>3 DEF WorkerSteps, WorkerTakes, WorkerStops, WorkerClaims, WorkerReads,
     WorkerReadsNothing, WorkerSaves, WorkerRecords, Job, StageInv, WorkSame
<1>4. CASE WorkerFails \/ Starts \/ Crash \/ Disconnect \/ Reconnect \/ Acknowledge \/ Tick
  BY <1>b, <1>4 DEF WorkerFails, Starts, Crash, Disconnect, Reconnect, Acknowledge, Tick,
     Fail, Job, StageInv, WorkSame, process
<1>5. CASE RecoverFlushes
  BY <1>b, <1>c, <1>d, <1>5 DEF RecoverFlushes, SubStep, SubSame, Job, process
<1>6. CASE RecoverPrunes
  BY <1>b, <1>c, <1>d, <1>6 DEF RecoverPrunes
<1>7. ASSUME NEW t \in Specs, RecoverSaves(t) PROVE Goal
  BY <1>b, <1>7 DEF RecoverSaves, Job, StageInv, process
<1>8. ASSUME NEW t \in Specs, RecoverRecords(t) PROVE Goal
  BY <1>b, <1>8 DEF RecoverRecords, Job, StageInv, process
<1>9. ASSUME NEW a \in {"submit", "worker", "start"}, FlushBegins(a) PROVE Goal
  <2>1. CASE a = "submit"
    BY <1>b, <1>c, <1>9, <2>1 DEF FlushBegins, Flushing, Job, StageInv, FlushSame
  <2>2. CASE a = "worker"
    BY <1>b, <1>c, <1>9, <2>2 DEF FlushBegins, Flushing, Job, StageInv, FlushSame
  <2>3. CASE a = "start"
    BY <1>b, <1>c, <1>9, <2>3 DEF FlushBegins, Flushing, Job, StageInv, FlushSame
  <2> QED
    BY <2>1, <2>2, <2>3
<1>10. ASSUME NEW a \in {"submit", "worker", "start"}, FlushAppends(a) PROVE Goal
  <2>1. PICK t \in flush.todo : flush' = [flush EXCEPT !.cur = t, !.todo = @ \ {t}]
    BY <1>10 DEF FlushAppends
  <2>2. flush'.cur = t /\ flush'.todo = flush.todo \ {t} /\ flush # Free
    BY <1>b, <1>c, <2>1
  <2> QED
    BY <1>b, <1>10, <2>2 DEF FlushAppends, FlushSame
<1>11. ASSUME NEW a \in {"submit", "worker", "start"}, FlushLinks(a) PROVE Goal
  <2>1. s # flush.cur => Pending(s)'
    <3>1. flush'.todo = flush.todo /\ flush # Free
      BY <1>b, <1>c, <1>11 DEF FlushLinks
    <3> QED
      BY <1>b, <1>11, <3>1 DEF FlushLinks, FlushSame
  <2> QED
    BY <1>11, <2>1 DEF Links
<1>12. ASSUME NEW a \in {"submit", "worker", "start"}, FlushEnds(a) PROVE Goal
  <2>1. CASE a = "submit"
    BY <1>b, <1>c, <1>12, <2>1 DEF FlushEnds, FlushDone, Flushing, Job, StageInv, SubStep,
       FlushSame
  <2>2. CASE a = "worker"
    BY <1>b, <1>c, <1>12, <2>2 DEF FlushEnds, FlushDone, Flushing, Job, StageInv, SubStep,
       FlushSame
  <2>3. CASE a = "start"
    BY <1>b, <1>c, <1>12, <2>3 DEF FlushEnds, FlushDone, Flushing, Job, StageInv, SubStep,
       FlushSame
  <2> QED
    BY <2>1, <2>2, <2>3
<1>13. ASSUME NEW a \in {"submit", "worker"}, FlushFails(a) PROVE Goal
  <2>1. CASE a = "submit"
    BY <1>b, <1>c, <1>13, <2>1 DEF FlushFails, FlushAborts, Flushing, Job, StageInv, Fail,
       FlushSame
  <2>2. CASE a = "worker"
    BY <1>b, <1>c, <1>13, <2>2 DEF FlushFails, FlushAborts, Flushing, Job, StageInv, Fail,
       FlushSame
  <2> QED
    BY <2>1, <2>2
<1>14. CASE UNCHANGED vars
  BY <1>b, <1>14 DEF vars, Job, StageInv
<1> QED
  BY <1>1, <1>2, <1>3, <1>4, <1>5, <1>6, <1>7, <1>8, <1>9, <1>10, <1>11, <1>12, <1>13, <1>14
     DEF Next, SubmitSteps, WorkerSteps, FlushSteps, StartSteps

LEMMA EntriesDiffer == ASSUME StoreTypes, NEW t PROVE log # Append(log, t)
<1>1. Len(log) \in Nat /\ Len(Append(log, t)) = Len(log) + 1
  BY DEF StoreTypes
<1> QED
  BY <1>1

\* Every step keeps ReportInv: a flush in a run appends only what is not in the
\* log, since every unlinked entry waits for a start, and there it is found.
LEMMA ReportStep == ASSUME RetainOutlives, Inv, [Next]_vars PROVE ReportInv'
<1>a. /\ StoreTypes /\ StoreTypes' /\ ReportInv /\ SpentInv /\ None \notin Specs
      /\ flush \in [by : {"nobody", "submit", "worker", "start"}, todo : SUBSET Specs,
                    cur : Specs \cup {None}]
      /\ Free.cur = None /\ Free.todo = {} /\ Free.by = "nobody"
  BY StoreStep, LaneAssumption DEF Inv, TypeInv, ProcessTypes, Free
<1>b. adm \in [Specs -> Row] /\ Len(log) \in Nat
  BY <1>a DEF StoreTypes
<1>c. ASSUME NEW t \in flush.todo, Appends(t)
      PROVE t \in Specs /\ ~InLog(t) /\ log' = Append(log, t)
  BY <1>a, <1>c DEF ReportInv, Appends
\* The rows of the entries are those of before, but for the one being linked.
<1>d. ASSUME SubmitAdmits, sub.spec \in Specs
      PROVE ~InLog(sub.spec) /\ ~Exists(sub.spec) /\ log' = log
  <2>1. PICK now \in Readings : MayAdmit(sub.spec, now)
    BY <1>d DEF SubmitAdmits
  <2>2. ~Exists(sub.spec) /\ ~Gone(IssuedAt[sub.spec])
    BY <1>a, <1>d, <2>1, GoneIsInvalid DEF MayAdmit
  <2> QED
    BY <1>a, <1>d, <2>2 DEF SpentInv, SubmitAdmits
<1>e. ASSUME RecoverPrunes PROVE log' = log /\ flush = Free /\ flush' = Free
  BY <1>e DEF RecoverPrunes, Inv, StageInv, Flushing
<1>f. ASSUME Links
      PROVE  /\ log' = log /\ flush.cur \in Specs /\ InLog(flush.cur)
             /\ flush'.cur = None /\ flush'.todo = flush.todo /\ flush'.by = flush.by
  BY <1>a, <1>f DEF Links, FlushLinks, ReportInv
<1>g. ASSUME NEW s \in Specs, Exists(s)' PROVE Exists(s) \/ (SubmitAdmits /\ s = sub.spec)
  <2>1. CASE RowsKept
    BY <1>g, <2>1 DEF RowsKept
  <2>2. CASE SubmitAdmits
    <3>1. PICK now : Admit(sub.spec, now)
      BY <2>2 DEF SubmitAdmits
    <3>2. s # sub.spec => adm'[s] = adm[s]
      BY <1>b, <3>1 DEF Admit
    <3> QED
      BY <1>g, <2>2, <3>2 DEF Exists
  <2>3. CASE RecoverPrunes
    <3>1. adm'[s] = adm[s] \/ adm'[s] = Absent
      BY <1>b, <2>3 DEF RecoverPrunes
    <3> QED
      BY <1>g, <3>1 DEF Exists, Absent
  <2> QED
    BY <2>1, <2>2, <2>3, RowsMostlyKept
<1>h. ASSUME NEW s \in Specs, InLog(s)' PROVE InLog(s) \/ (Appends(s) /\ s \in flush.todo)
  <2>1. CASE log' = log
    BY <1>h, <2>1 DEF InLog
  <2>2. ASSUME NEW t \in flush.todo, Appends(t) PROVE InLog(s) \/ (Appends(s) /\ s \in flush.todo)
    BY <1>a, <1>c, <1>h, <2>2, EntriesGrow
  <2> QED
    BY <2>1, <2>2, LogByFlush
<1>i. ASSUME NEW s \in Specs, InLog(s) PROVE InLog(s)'
  <2>1. CASE log' = log
    BY <1>i, <2>1 DEF InLog
  <2>2. ASSUME NEW t \in flush.todo, Appends(t) PROVE InLog(s)'
    BY <1>a, <1>c, <1>i, <2>2, EntriesGrow
  <2> QED
    BY <2>1, <2>2, LogByFlush
<1>1. \A i, k \in 1 .. Len(log') : log'[i] = log'[k] => i = k
  <2>1. CASE log' = log
    BY <1>a, <2>1 DEF ReportInv
  <2>2. ASSUME NEW t \in flush.todo, Appends(t)
        PROVE  \A i, k \in 1 .. Len(log') : log'[i] = log'[k] => i = k
    <3>1. t \in Specs /\ ~InLog(t) /\ log' = Append(log, t)
      BY <1>c, <2>2
    <3>2. \A i \in 1 .. Len(log) : log[i] # t
      <4>1. log \in Seq(Specs)
        BY <1>a DEF StoreTypes
      <4>2. DOMAIN log = 1 .. Len(log)
        BY <4>1
      <4> QED
        BY <3>1, <4>2 DEF InLog
    <3>3. /\ Len(log') = Len(log) + 1 /\ log'[Len(log) + 1] = t
          /\ \A i \in 1 .. Len(log) : log'[i] = log[i]
      BY <1>a, <3>1, EntriesGrow
    <3>4. \A i, k \in 1 .. Len(log) : log[i] = log[k] => i = k
      BY <1>a DEF ReportInv
    <3>5. \A i \in 1 .. Len(log') : i \in 1 .. Len(log) \/ i = Len(log) + 1
      BY <1>b, <3>3
    <3> QED
      BY <3>2, <3>3, <3>4, <3>5
  <2> QED
    BY <2>1, <2>2, LogByFlush
<1>2. ASSUME NEW s \in Specs, adm'[s].seq # 0
      PROVE  adm'[s].seq \in 1 .. Len(log') /\ log'[adm'[s].seq] = s
  <2>1. CASE adm'[s].seq = adm[s].seq
    <3>1. adm[s].seq \in 1 .. Len(log) /\ log[adm[s].seq] = s
      BY <1>a, <1>2, <2>1 DEF ReportInv
    <3>2. CASE log' = log
      BY <2>1, <3>1, <3>2
    <3>3. ASSUME NEW t \in flush.todo, Appends(t)
          PROVE  adm'[s].seq \in 1 .. Len(log') /\ log'[adm'[s].seq] = s
      BY <1>a, <1>c, <2>1, <3>1, <3>3, EntriesGrow
    <3> QED
      BY <3>2, <3>3, LogByFlush
  <2>2. CASE Links /\ s = flush.cur /\ adm'[s] = [adm[s] EXCEPT !.seq = LastAt(s)]
    <3>1. adm'[s].seq = LastAt(s)
      BY <1>b, <2>2 DEF Row
    <3> QED
      BY <1>a, <1>f, <2>2, <3>1, LastIsEntry
  <2>3. CASE RecoverPrunes /\ adm'[s] = Absent
    BY <1>2, <2>3 DEF Absent
  <2> QED
    BY <1>2, <2>1, <2>2, <2>3, RowMoves
<1>3. ASSUME NEW s \in Specs, InLog(s)', Exists(s)'
      PROVE  adm'[s].result # "none" /\ (adm'[s].seq = 0 => Pending(s)')
  <2>1. CASE SubmitAdmits /\ s = sub.spec
    BY <1>3, <1>d, <2>1 DEF InLog
  <2>2. CASE RecoverPrunes /\ adm'[s] = Absent
    BY <1>3, <2>2 DEF Exists, Absent
  <2>3. CASE Links /\ s = flush.cur /\ adm'[s] = [adm[s] EXCEPT !.seq = LastAt(s)]
    <3>1. adm'[s].seq = LastAt(s) /\ adm'[s].result = adm[s].result
      BY <1>b, <2>3 DEF Row
    <3>2. LastAt(s) # 0
      BY <1>a, <1>f, <2>3, LastIsEntry
    <3>3. Exists(s)
      BY <1>3, <1>g, <1>d, <1>f, <2>3
    <3> QED
      BY <1>a, <1>f, <2>3, <3>1, <3>2, <3>3 DEF ReportInv
  <2>4. CASE /\ adm'[s].seq = adm[s].seq
             /\ adm[s].result # "none" => adm'[s].result # "none"
    <3>1. CASE ~(SubmitAdmits /\ s = sub.spec) /\ Appends(s) /\ s \in flush.todo
      BY <1>a, <2>4, <3>1 DEF ReportInv, Appends, Pending
    <3>2. CASE ~(SubmitAdmits /\ s = sub.spec) /\ InLog(s)
      <4>1. Exists(s)
        BY <1>3, <1>g, <3>2
      <4>2. adm[s].result # "none" /\ (adm[s].seq = 0 => Pending(s))
        BY <1>a, <3>2, <4>1 DEF ReportInv
      <4>3. adm[s].seq = 0 => s \in Unlinked
        BY <4>1, <4>2 DEF Unlinked
      <4>4. ASSUME Links, s = flush.cur PROVE adm'[s].seq # 0
        <5>1. LastAt(s) # 0 /\ LastAt(s) \in Nat
          BY <1>a, <1>f, <4>4, LastIsEntry
        <5>2. adm'[s] = [adm[s] EXCEPT !.seq = LastAt(s)]
          BY <1>a, <1>b, <4>4 DEF Links, FlushLinks
        <5> QED
          BY <1>b, <5>1, <5>2 DEF Row
      <4> QED
        BY <2>4, <4>2, <4>3, <4>4, PendingStays
    <3> QED
      BY <1>3, <1>h, <2>1, <3>1, <3>2
  <2> QED
    BY <2>1, <2>2, <2>3, <2>4, RowMoves
<1>4. ASSUME NEW s \in flush.todo, s \in flush'.todo
      PROVE  Exists(s)' /\ adm'[s].result # "none" /\ adm'[s].seq = 0
  <2>1. s \in Specs /\ Exists(s) /\ adm[s].result # "none" /\ adm[s].seq = 0
    BY <1>a DEF ReportInv
  <2>2. flush # Free /\ ~RecoverPrunes
    BY <1>a, <1>4, <1>e
  <2>3. ~(SubmitAdmits /\ s = sub.spec)
    BY <1>d, <2>1
  <2>4. ~(Links /\ s = flush.cur)
    BY <1>a, <1>f DEF ReportInv
  <2>5. Exists(s)'
    <3>1. CASE RowsKept
      BY <2>1, <3>1 DEF RowsKept
    <3>2. CASE SubmitAdmits
      <4>1. PICK now : Admit(sub.spec, now)
        BY <3>2 DEF SubmitAdmits
      <4>2. adm'[s] = adm[s]
        BY <1>b, <2>1, <2>3, <3>2, <4>1 DEF Admit
      <4> QED
        BY <2>1, <4>2 DEF Exists
    <3> QED
      BY <2>2, <3>1, <3>2, RowsMostlyKept
  <2> QED
    BY <2>1, <2>2, <2>3, <2>4, <2>5, RowMoves
<1>5. ASSUME NEW a \in {"submit", "worker", "start"}, FlushBegins(a)
      PROVE  /\ flush'.by = a /\ flush'.todo = Unlinked /\ flush'.cur = None /\ log' = log
             /\ adm' = adm /\ flush.cur = None /\ (a # "start" => status = "up") /\ ~failed
  BY <1>a, <1>5 DEF FlushBegins, Flushing
<1>6. ASSUME NEW a \in {"submit", "worker", "start"}, FlushAppends(a)
      PROVE  \E t \in flush.todo : /\ flush'.todo = flush.todo \ {t} /\ flush'.cur = t
                                   /\ flush'.by = flush.by /\ InLog(t)'
                                   /\ (log' = log \/ log' = Append(log, t))
  <2>1. PICK t \in flush.todo :
          AppendReport(a, t) /\ flush' = [flush EXCEPT !.cur = t, !.todo = @ \ {t}]
    BY <1>6 DEF FlushAppends
  <2>2. t \in Specs /\ (log' = log \/ log' = Append(log, t))
    BY <1>a, <2>1 DEF AppendReport
  <2>3. InLog(t)'
    <3>1. CASE log' = log
      <4>1. log # Append(log, t)
        BY <1>a, <2>2, EntriesDiffer
      <4>2. InLog(t)
        BY <2>1, <3>1, <4>1 DEF AppendReport
      <4> QED
        BY <1>i, <2>2, <4>2
    <3>2. CASE log' = Append(log, t)
      BY <1>a, <2>2, <3>2, EntriesGrow
    <3> QED
      BY <2>2, <3>1, <3>2
  <2> QED
    BY <1>a, <2>1, <2>2, <2>3
<1>7. \A s \in flush'.todo : Exists(s)' /\ adm'[s].result # "none" /\ adm'[s].seq = 0
  <2>1. CASE flush' = flush \/ flush' = Free \/ Links
    BY <1>a, <1>4, <1>f, <2>1
  <2>2. ASSUME NEW a \in {"submit", "worker", "start"}, FlushBegins(a)
        PROVE  \A s \in flush'.todo : Exists(s)' /\ adm'[s].result # "none" /\ adm'[s].seq = 0
    BY <1>5, <2>2 DEF Unlinked, Exists
  <2>3. ASSUME NEW a \in {"submit", "worker", "start"}, FlushAppends(a)
        PROVE  \A s \in flush'.todo : Exists(s)' /\ adm'[s].result # "none" /\ adm'[s].seq = 0
    <3>1. flush'.todo \subseteq flush.todo
      BY <1>6, <2>3
    <3> QED
      BY <1>4, <3>1
  <2> QED
    BY <2>1, <2>2, <2>3, FlushMoves
<1>8. ASSUME flush'.by # "start", NEW s \in flush'.todo PROVE ~InLog(s)'
  <2>1. CASE flush' = flush
    <3>1. s \in Specs /\ ~InLog(s)
      BY <1>a, <1>8, <2>1 DEF ReportInv
    <3>2. ASSUME NEW t \in flush.todo, Appends(t) PROVE FALSE
      BY <1>a, <2>1, <3>2 DEF Appends
    <3>3. log' = log
      BY <3>2, LogByFlush
    <3> QED
      BY <3>1, <3>3 DEF InLog
  <2>2. CASE flush' = Free
    BY <1>a, <1>8, <2>2
  <2>3. CASE Links
    BY <1>a, <1>f, <1>8, <2>3 DEF ReportInv, InLog
  <2>4. ASSUME NEW a \in {"submit", "worker", "start"}, FlushBegins(a) PROVE ~InLog(s)'
    <3>1. /\ s \in Specs /\ Exists(s) /\ adm[s].seq = 0 /\ log' = log
          /\ status = "up" /\ ~failed /\ flush.cur = None
      BY <1>5, <1>8, <2>4 DEF Unlinked
    <3>2. ~Pending(s)
      BY <1>a, <3>1 DEF Pending
    <3> QED
      BY <1>a, <3>1, <3>2 DEF ReportInv, InLog
  <2>5. ASSUME NEW a \in {"submit", "worker", "start"}, FlushAppends(a) PROVE ~InLog(s)'
    <3>1. PICK t \in flush.todo : /\ flush'.todo = flush.todo \ {t} /\ flush'.by = flush.by
                                  /\ (log' = log \/ log' = Append(log, t))
      BY <1>6, <2>5
    <3>2. s \in Specs /\ t \in Specs /\ s # t /\ ~InLog(s)
      BY <1>a, <1>8, <3>1 DEF ReportInv
    <3>3. CASE log' = log
      BY <3>2, <3>3 DEF InLog
    <3>4. CASE log' = Append(log, t)
      BY <1>a, <3>2, <3>4, EntriesGrow
    <3> QED
      BY <3>1, <3>3, <3>4
  <2> QED
    BY <2>1, <2>2, <2>3, <2>4, <2>5, FlushMoves
<1>9. ASSUME NEW c \in Specs, flush'.cur = c PROVE InLog(c)' /\ c \notin flush'.todo
  <2>1. CASE flush' = flush
    BY <1>a, <1>i, <1>9, <2>1 DEF ReportInv
  <2>2. CASE flush' = Free \/ Links
    BY <1>a, <1>f, <1>9, <2>2
  <2>3. ASSUME NEW a \in {"submit", "worker", "start"}, FlushBegins(a) \/ FlushAppends(a)
        PROVE  InLog(c)' /\ c \notin flush'.todo
    <3>1. CASE FlushBegins(a)
      BY <1>a, <1>5, <1>9, <3>1
    <3>2. CASE FlushAppends(a)
      BY <1>6, <1>9, <3>2
    <3> QED
      BY <2>3, <3>1, <3>2
  <2> QED
    BY <2>1, <2>2, <2>3, FlushMoves
<1>10. flush'.cur \in Specs \cup {None}
  BY ProcessStep DEF ProcessTypes
<1>11. (flush.cur # None => InLog(flush.cur) /\ flush.cur \notin flush.todo)'
  BY <1>9, <1>10 DEF InLog
<1>12. (flush.by # "start" => \A s \in flush.todo : ~InLog(s))'
  BY <1>8 DEF InLog
<1>13. (\A s \in Specs : /\ InLog(s) /\ Exists(s) => adm[s].result # "none"
                         /\ InLog(s) /\ Exists(s) /\ adm[s].seq = 0 => Pending(s))'
  BY <1>3
<1> QED
  BY <1>1, <1>2, <1>7, <1>11, <1>12, <1>13 DEF ReportInv

-----------------------------------------------------------------------------
(* The theorems *)

\* The inductive invariant: what Submit, the worker, the flush and Recover
\* hold, and what the rows, the local audit and the log say of it, at every
\* moment of every run (internal/verification/runner.go, ledger/verification.go).
THEOREM LaneInvariant == ASSUME RetainOutlives PROVE Spec => []Inv
<1>1. Init => Inv
  <2> SUFFICES ASSUME Init PROVE Inv
    OBVIOUS
  <2> USE LaneAssumption
  <2>1. StoreTypes
    <3>1. 0 \in Days
      BY LaneAssumption DEF Days
    <3>2. Absent \in Row
      BY FreshIsRow
    <3>3. <<>> \in Seq(Specs)
      OBVIOUS
    <3> QED
      BY <3>1, <3>2, <3>3 DEF Init, StoreTypes
  <2>2. ProcessTypes
    BY IdleIsJob DEF Init, ProcessTypes
  <2>3. StageInv
    BY IdleIsJob DEF Init, StageInv
  <2>4. \A s \in Specs : ~Exists(s) /\ ~InLog(s) /\ runs[s] = 0 /\ adm[s].seq = 0
                         /\ adm[s].state = "absent"
    BY DEF Init, Exists, InLog, Absent
  <2>5. \A s \in Specs : ~Holds(s) /\ ~Dispatched(s)
    BY DEF Init, Holds, Dispatched, Idle
  <2>6. SpentInv
    BY <2>4, <2>5, AuthIsAuth DEF Init, SpentInv
  <2>7. RunInv
    BY <2>4, <2>5 DEF Init, RunInv, Idle
  <2>8. ReportInv
    BY <2>4 DEF Init, ReportInv, Free
  <2> QED
    BY <2>1, <2>2, <2>3, <2>6, <2>7, <2>8 DEF Inv, TypeInv
<1>2. Inv /\ [Next]_vars => Inv'
  BY StoreStep, ProcessStep, SpentStep, RunStep, ReportStep DEF Inv, TypeInv
<1> QED
  BY <1>1, <1>2, PTL DEF Spec

\* However tokens are redelivered, the gateway restarted, the clock set back
\* and rows pruned, a source is read once, and only after its accepted event
\* is in the synced file (README.md:46, docs/data-flow.md:32).
THEOREM ReadsOnceAudited == ASSUME RetainOutlives PROVE Spec => []ReadOnceAudited
<1>1. Inv => ReadOnceAudited
  BY DEF Inv, RunInv, ReadOnceAudited
<1> QED
  BY <1>1, LaneInvariant, PTL

\* One owner authorization admits one spec in all time, and a day admits no
\* more than its quota, although PruneVerification forgets the rows of both
\* (docs/threat-model.md:33).
THEOREM ConsentSpentOnce == ASSUME RetainOutlives PROVE Spec => []ConsentAndQuotaHeld
<1>1. Inv => ConsentAndQuotaHeld
  BY DEF Inv, SpentInv, ConsentAndQuotaHeld
<1> QED
  BY <1>1, LaneInvariant, PTL

\* A failed append or link leaves no second entry behind: the flush of the
\* next start finds the one that is there (runner.go:514-564).
THEOREM ReportsOnce == ASSUME RetainOutlives PROVE Spec => []ReportedOnce
<1>1. ASSUME Inv PROVE ReportedOnce
  <2>1. DOMAIN log = 1 .. Len(log)
    BY <1>1 DEF Inv, TypeInv, StoreTypes
  <2> QED
    BY <1>1, <2>1 DEF Inv, ReportInv, ReportedOnce
<1> QED
  BY <1>1, LaneInvariant, PTL
=============================================================================
