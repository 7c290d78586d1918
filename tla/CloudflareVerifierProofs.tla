----------------------- MODULE CloudflareVerifierProofs -----------------------
(***************************************************************************)
(* The Cloudflare verifier keeps the promise of VerifierContract, for      *)
(* every number of specs and of faults.  No length of a call or of a lease *)
(* matters to it.                                                          *)
(***************************************************************************)
EXTENDS CloudflareVerifier, TLAPS

\* What the lemmas and theorems assume of the constants.
Assumed == Lasting /\ ConsentLasts

\* The promise of VerifierContract.
Contract == INSTANCE VerifierContract
    WITH admitted <- ever, Reports <- {"result", "failure"}

(***************************************************************************)
(* The inductive invariant                                                 *)
(***************************************************************************)

Reports == {"result", "failure"}
Said == Reports \cup {None}
States == {"absent", "expired", "interrupted", "reported"} \cup Open
Rows == [state : States, pickup : Nat, start : Nat, body : Said, until : Nat]
Reporting == {"report", "answer"}
Labels == Calls \cup Reporting \cup {"idle", "pull", "work", "finally", "stop"}
Polls == [pc : Labels, start : Nat, since : Nat, final : BOOLEAN, spec : Specs \cup {None},
          pickup : Nat, copy : Rows]

TypeInv ==
    /\ clock \in Nat
    /\ row \in [Specs -> Rows]
    /\ run \in Polls
    /\ serving \in Polls \cup {None}
    /\ ever \subseteq Specs
    /\ runs \in [Specs -> Nat]
    /\ told \in [Specs -> SUBSET Said]

\* What is true of a poll task x at its label.
Staged(x) ==
    /\ x.pc \in Reporting \cup {"scan", "terminal"} => x.spec \in ever
    /\ x.pc = "prepare" => x.spec \in Specs
    /\ x.pc = "scan" => runs[x.spec] = 0
    /\ x.pc \in Reporting => x.copy.state = "committed"

\* The container works for the task that awaits it or for one that is gone.
StageInv ==
    /\ Staged(run)
    /\ run.pc \in Calls => serving = run
    /\ serving # None => Staged(serving)

\* A spec that was never admitted has left no trace; the active one is open.
KnownInv ==
    /\ active # None => active \in ever /\ row[active].state \in Open
    /\ \A s \in Specs \ ever : row[s].state = "absent" /\ runs[s] = 0 /\ told[s] = {}

\* The row of a consent is there, or gone so late that no spec is fresh.
ConsentInv ==
    \A s \in ever :
        /\ IssuedAt[s] <= clock
        /\ IF row[s].state = "absent" THEN clock > IssuedAt[s] + Retain
                                      ELSE row[s].until >= IssuedAt[s] + Retain

\* All that may still be reported of a spec, or was, is the same.
Carries(x, s, b) == x.spec = s /\ x.pc \in Reporting /\ x.copy.body = b
Says(s, b) ==
    \/ b \in told[s]
    \/ row[s].state = "committed" /\ row[s].body = b
    \/ Carries(run, s, b)
BodyInv ==
    \A s \in Specs : \A b \in Said : Says(s, b) =>
       /\ b \in Reports /\ s \in ever
       /\ b = "result" => runs[s] = 1
       /\ row[s].state # "accepted"
       /\ \A c \in Said : Says(s, c) => c = b

Inv == TypeInv /\ StageInv /\ KnownInv /\ ConsentInv /\ BodyInv

-----------------------------------------------------------------------------
(* Records *)

LEMMA IdleFields ==
    /\ Absent \in Rows /\ Absent.state = "absent"
    /\ Idle \in Polls /\ Idle.pc = "idle" /\ Idle.final = FALSE
<1>1. Absent \in Rows /\ Absent.state = "absent"
  BY DEF Absent, Rows, States, Said
<1> QED
  BY <1>1 DEF Idle, Polls, Labels

LEMMA RowFields ==
    ASSUME NEW x \in Rows
    PROVE  /\ x.state \in States /\ x.pickup \in Nat /\ x.start \in Nat
           /\ x.body \in Said /\ x.until \in Nat
BY DEF Rows

LEMMA PollFields ==
    ASSUME NEW x \in Polls
    PROVE  /\ x.pc \in Labels /\ x.start \in Nat /\ x.since \in Nat /\ x.final \in BOOLEAN
           /\ x.spec \in Specs \cup {None} /\ x.pickup \in Nat /\ x.copy \in Rows
BY DEF Polls

LEMMA Task ==
    ASSUME Inv
    PROVE  /\ run \in Polls /\ Staged(run)
           /\ run.start \in Nat /\ run.copy \in Rows
           /\ run.pc \in Reporting \cup {"scan", "terminal"} =>
                 run.spec \in ever /\ run.spec \in Specs
<1>1. run \in Polls /\ Staged(run) /\ ever \subseteq Specs
  BY DEF Inv, TypeInv, StageInv
<1> QED
  BY <1>1, PollFields DEF Staged

-----------------------------------------------------------------------------
(* A step of the task that leaves the tables alone *)

Plain == {"idle", "pull", "create", "register", "work", "finally", "stop"}

\* The container takes a call of task x, or none of it.
Serves(x) == serving' = x \/ (x.pc \notin Calls /\ serving' \in {None, serving})

\* The task goes on at a label where nothing has to be true.
Leaves == \E x \in Polls : x.pc \in Plain /\ run' = x /\ Serves(x)

Still == UNCHANGED <<clock, active, row, ever, runs, told>>

LEMMA PlainStaged ==
    ASSUME NEW x \in Polls, x.pc \in Plain
    PROVE  /\ Staged(x) /\ Staged(x)'
           /\ \A s \in Specs : \A b \in Said : ~Carries(x, s, b)
BY DEF Plain, Staged, Reporting, Carries

LEMMA StageStep ==
    ASSUME Inv, NEW x \in Polls, run' = x, Serves(x), Staged(x)',
           serving' = None \/ (ever \subseteq ever' /\ runs' = runs)
    PROVE  StageInv' /\ run' \in Polls /\ serving' \in Polls \cup {None}
<1>1. serving \in Polls \cup {None} /\ (serving # None => Staged(serving))
  BY DEF Inv, TypeInv, StageInv
<1>2. serving' \in Polls \cup {None} /\ (x.pc \in Calls => serving' = x)
  BY <1>1 DEF Serves
<1>3. ASSUME serving' # None PROVE Staged(serving)'
  <2>1. CASE serving' = x
    BY <2>1 DEF Staged
  <2>2. CASE serving' = serving
    BY <1>1, <1>3, <2>2 DEF Staged
  <2> QED
    BY <1>3, <2>1, <2>2 DEF Serves
<1>4. Staged(run)'
  BY DEF Staged
<1> QED
  BY <1>2, <1>3, <1>4 DEF StageInv

LEMMA LocalStep ==
    ASSUME Inv, Still, NEW x \in Polls, run' = x, Serves(x), Staged(x),
           \A s \in Specs : \A b \in Said : Carries(x, s, b) => Says(s, b)
    PROVE  Inv'
<1>1. StageInv' /\ run' \in Polls /\ serving' \in Polls \cup {None}
  <2>1. Staged(x)'
    BY DEF Staged, Still
  <2>2. ever \subseteq ever' /\ runs' = runs
    BY DEF Still
  <2> QED
    BY <2>1, <2>2, StageStep
<1>2. TypeInv'
  BY <1>1 DEF Inv, TypeInv, Still
<1>3. KnownInv' /\ ConsentInv'
  BY DEF Inv, KnownInv, ConsentInv, Still
<1>4. BodyInv'
  <2>1. \A s \in Specs : \A b \in Said : Says(s, b)' => Says(s, b)
    BY DEF Says, Carries, Still
  <2> QED
    BY <2>1 DEF Inv, BodyInv, Still
<1> QED
  BY <1>1, <1>2, <1>3, <1>4 DEF Inv

LEMMA PlainStep ==
    ASSUME Inv, Still, Leaves
    PROVE  Inv'
<1>1. PICK x \in Polls : x.pc \in Plain /\ run' = x /\ Serves(x)
  BY DEF Leaves
<1> QED
  BY <1>1, PlainStaged, LocalStep

LEMMA FailsLeaves ==
    ASSUME Fails, serving' \in {None, serving, Released}
    PROVE  Leaves
<1> DEFINE x == [Idle EXCEPT !.pc = "finally"]
<1>1. x \in Polls /\ x.pc = "finally"
  BY IdleFields DEF Polls, Labels
<1>2. x.pc \in Plain /\ x.pc \notin Calls /\ serving' \in {None, serving}
  BY <1>1 DEF Plain, Calls, Released
<1> QED
  BY <1>1, <1>2 DEF Fails, Leaves, Serves

LEMMA GotoLeaves ==
    ASSUME NEW r \in Polls, NEW l \in Plain \ Calls, run' = [r EXCEPT !.pc = l],
           serving' \in {None, serving, Released}
    PROVE  Leaves
<1> DEFINE x == [r EXCEPT !.pc = l]
<1>1. x \in Polls /\ x.pc = l
  BY DEF Polls, Labels, Plain, Calls
<1>2. serving' \in {None, serving}
  BY DEF Released
<1> HIDE DEF x
<1>3. run' = x
  BY DEF x
<1> QED
  BY <1>1, <1>2, <1>3 DEF Leaves, Serves

LEMMA AfterRecoveryLeaves ==
    ASSUME NEW r \in Polls, AfterRecovery(r), serving' \in {None, serving, Released}
    PROVE  Leaves
<1> DEFINE l == IF r.final THEN "finally" ELSE "work"
           x == [Idle EXCEPT !.pc = l, !.start = r.start]
<1>1. l \in Plain /\ l \in Labels /\ l \notin Calls
  BY DEF Plain, Labels, Calls
<1>2. x \in Polls /\ x.pc = l
  BY <1>1, PollFields, IdleFields DEF Polls
<1>3. run' = x /\ serving' \in {None, serving}
  BY DEF AfterRecovery, Released
<1> HIDE DEF x, l
<1> QED
  BY <1>1, <1>2, <1>3 DEF Leaves, Serves

\* A call to the container goes out, or the container is busy.
LEMMA CallGoesOut ==
    ASSUME Inv, NEW r \in Polls, NEW l \in Labels, CallFrom(r, l)
    PROVE  \/ Leaves
           \/ \E x \in Polls : run' = x /\ serving' = x /\ x.pc = l /\ x.spec = r.spec
<1>1. CASE Released = None
  <2> DEFINE x == [r EXCEPT !.pc = l, !.since = clock]
  <2>1. x \in Polls /\ x.pc = l /\ x.spec = r.spec
    BY DEF Polls, Inv, TypeInv
  <2>2. run' = x /\ serving' = x
    BY <1>1 DEF CallFrom
  <2> HIDE DEF x
  <2> QED
    BY <2>1, <2>2
<1>2. CASE Released # None
  BY <1>2, FailsLeaves DEF CallFrom
<1> QED
  BY <1>1, <1>2

\* Calls that need nothing to be true.
LEMMA PlainCall ==
    ASSUME Inv, Still, NEW r \in Polls, NEW l \in {"create", "register"}, CallFrom(r, l)
    PROVE  Inv'
<1>1. l \in Labels /\ l \in Plain
  BY DEF Labels, Calls, Plain
<1>2. CASE \E x \in Polls : run' = x /\ serving' = x /\ x.pc = l /\ x.spec = r.spec
  BY <1>1, <1>2, PlainStep DEF Leaves, Serves
<1> QED
  BY <1>1, <1>2, CallGoesOut, PlainStep

-----------------------------------------------------------------------------
(* Rows are settled and committed *)

LEMMA SettleStep ==
    ASSUME Assumed, Inv, NEW s \in ever, NEW r \in Rows,
           NEW st \in {"expired", "interrupted", "reported"},
           SettlesRow(r, s, st), Leaves,
           UNCHANGED <<clock, ever, runs, told>>
    PROVE  Inv'
<1>1. PICK x \in Polls : x.pc \in Plain /\ run' = x /\ Serves(x)
  BY DEF Leaves
<1>2. StageInv' /\ run' \in Polls /\ serving' \in Polls \cup {None}
  <2>1. Staged(x)' /\ ever \subseteq ever' /\ runs' = runs
    BY <1>1, PlainStaged
  <2> QED
    BY <1>1, <2>1, StageStep
<1>3. /\ clock \in Nat /\ Retain \in Nat /\ s \in Specs
  BY DEF Assumed, Inv, TypeInv, Lasting
<1>4. /\ row' \in [Specs -> Rows]
      /\ row'[s].state = st /\ row'[s].until = clock + Retain
      /\ \A u \in Specs : u # s => row'[u] = row[u]
      /\ active' = None
  <2> DEFINE q == [r EXCEPT !.state = st, !.body = None, !.until = clock + Retain]
  <2>1. clock + Retain \in Nat /\ st \in States /\ None \in Said
    BY <1>3 DEF States, Said
  <2>2. q \in Rows /\ q.state = st /\ q.until = clock + Retain
    BY <2>1 DEF Rows
  <2>3. row' = [row EXCEPT ![s] = q] /\ active' = None
    BY DEF SettlesRow
  <2> HIDE DEF q
  <2> QED
    BY <1>3, <2>2, <2>3 DEF Inv, TypeInv
<1>5. TypeInv'
  BY <1>2, <1>4 DEF Inv, TypeInv
<1>6. KnownInv'
  BY <1>4 DEF Inv, KnownInv
<1>7. ConsentInv'
  <2>1. IssuedAt[s] <= clock /\ IssuedAt[s] \in Nat
    BY <1>3 DEF Assumed, Inv, ConsentInv, ConsentLasts
  <2>2. clock + Retain >= IssuedAt[s] + Retain
    BY <1>3, <2>1
  <2> QED
    BY <1>3, <1>4, <2>1, <2>2 DEF Inv, TypeInv, ConsentInv
<1>8. BodyInv'
  <2>1. \A u \in Specs : \A b \in Said : ~Carries(run, u, b)'
    BY <1>1, PlainStaged DEF Carries
  <2>2. \A u \in Specs : \A b \in Said : Says(u, b)' => Says(u, b)
    BY <1>4, <2>1 DEF Says
  <2>3. \A u \in Specs : row'[u].state = "accepted" => row[u].state = "accepted"
    BY <1>4
  <2> QED
    BY <2>2, <2>3 DEF Inv, BodyInv
<1> QED
  BY <1>2, <1>5, <1>6, <1>7, <1>8 DEF Inv

\* A commit may come with the read that led to it.
LEMMA CommitStep ==
    ASSUME Inv, NEW s \in ever, NEW b \in Reports, NEW final \in BOOLEAN,
           run.spec = s, MayCommit(s), Commits(s, b), serving' = None,
           run' = [run EXCEPT !.pc = "report", !.since = 0, !.final = final, !.copy = row'[s]],
           runs' \in [Specs -> Nat], b = "result" => runs'[s] = 1,
           \A u \in Specs : u # s => runs'[u] = runs[u],
           UNCHANGED <<clock, active, ever, told>>
    PROVE  Inv'
<1>1. s \in Specs /\ row[s].state = "accepted" /\ active = s /\ b \in Said
  BY DEF Inv, TypeInv, MayCommit, Said
<1>2. /\ row' \in [Specs -> Rows] /\ row'[s] \in Rows
      /\ row'[s].state = "committed" /\ row'[s].body = b /\ row'[s].until = row[s].until
      /\ \A u \in Specs : u # s => row'[u] = row[u]
  <2> DEFINE q == [row[s] EXCEPT !.state = "committed", !.body = b]
  <2>1. row \in [Specs -> Rows] /\ row[s] \in Rows
    BY <1>1 DEF Inv, TypeInv
  <2>2. q \in Rows /\ q.state = "committed" /\ q.body = b /\ q.until = row[s].until
    BY <1>1, <2>1 DEF Rows, States, Open
  <2>3. row' = [row EXCEPT ![s] = q]
    BY <2>1 DEF Commits
  <2> HIDE DEF q
  <2> QED
    BY <1>1, <2>1, <2>2, <2>3
<1>3. PICK x \in Polls : run' = x /\ x.pc = "report" /\ x.spec = s /\ x.copy = row'[s]
  <2> DEFINE x == [run EXCEPT !.pc = "report", !.since = 0, !.final = final, !.copy = row'[s]]
  <2>1. x \in Polls /\ x.pc = "report" /\ x.spec = s /\ x.copy = row'[s]
    BY <1>2, Task DEF Polls, Labels, Reporting
  <2> QED
    BY <2>1
<1>4. StageInv' /\ run' \in Polls /\ serving' \in Polls \cup {None}
  <2>1. x.pc \notin Calls /\ Serves(x)
    BY <1>3 DEF Calls, Serves
  <2>2. Staged(x)'
    BY <1>2, <1>3 DEF Staged, Reporting
  <2> QED
    BY <1>3, <2>1, <2>2, StageStep
<1>5. TypeInv'
  BY <1>2, <1>4 DEF Inv, TypeInv
<1>6. KnownInv'
  BY <1>1, <1>2 DEF Inv, KnownInv, Open
<1>7. ConsentInv'
  <2>1. row[s].until >= IssuedAt[s] + Retain
    BY <1>1 DEF Inv, ConsentInv
  <2> QED
    BY <1>1, <1>2, <2>1 DEF Inv, TypeInv, ConsentInv
<1>8. BodyInv'
  <2>1. \A c \in Said : ~Says(s, c)
    BY <1>1 DEF Inv, BodyInv
  <2>2. \A u \in Specs : \A c \in Said : Carries(run, u, c)' => u = s /\ c = b
    BY <1>2, <1>3 DEF Carries
  <2>3. \A u \in Specs : \A c \in Said : Says(u, c)' => Says(u, c) \/ (u = s /\ c = b)
    BY <1>2, <2>2 DEF Says
  <2> QED
    BY <1>1, <1>2, <2>1, <2>3 DEF Inv, BodyInv
<1> QED
  BY <1>4, <1>5, <1>6, <1>7, <1>8 DEF Inv

-----------------------------------------------------------------------------
(* Recovery *)

LEMMA RecoversStep ==
    ASSUME Assumed, Inv, NEW r \in Polls, Recovers(r), UNCHANGED <<clock, ever, runs, told>>
    PROVE  Inv'
<1> DEFINE s == active
           q == row[s]
<1>1. CASE Leaves /\ UNCHANGED <<active, row>>
  BY <1>1, PlainStep DEF Still
<1>2. active # None => s \in ever /\ s \in Specs /\ q \in Rows
  BY DEF Inv, KnownInv, TypeInv
<1>3. CASE AfterRecovery(r) /\ serving' = Released /\ UNCHANGED <<active, row>>
  BY <1>1, <1>3, AfterRecoveryLeaves
<1>4. ASSUME active # None, NEW st \in {"expired", "interrupted"}, SettlesRow(q, s, st),
             AfterRecovery(r), serving' = Released
      PROVE  Inv'
  BY <1>2, <1>4, AfterRecoveryLeaves, SettleStep
<1>5. CASE Fails /\ serving' = Released /\ UNCHANGED <<active, row>>
  BY <1>1, <1>5, FailsLeaves
<1>6. CASE /\ active # None /\ UNCHANGED <<active, row>>
           /\ CallFrom([r EXCEPT !.spec = s], "terminal")
  <2> DEFINE p == [r EXCEPT !.spec = s]
  <2>1. p \in Polls /\ p.spec = s /\ "terminal" \in Labels
    BY <1>2, <1>6 DEF Polls, Labels, Calls
  <2>2. CallFrom(p, "terminal")
    BY <1>6
  <2> HIDE DEF p
  <2>3. CASE \E x \in Polls : run' = x /\ serving' = x /\ x.pc = "terminal" /\ x.spec = p.spec
    <3>1. PICK x \in Polls : run' = x /\ serving' = x /\ x.pc = "terminal" /\ x.spec = s
      BY <2>1, <2>3
    <3>2. Staged(x) /\ \A u \in Specs : \A b \in Said : ~Carries(x, u, b)
      BY <1>2, <1>6, <3>1 DEF Staged, Reporting, Carries
    <3> QED
      BY <1>6, <3>1, <3>2, LocalStep DEF Still, Serves
  <2> QED
    BY <1>1, <1>6, <2>1, <2>2, <2>3, CallGoesOut
<1>7. CASE /\ active # None /\ q.state = "committed" /\ UNCHANGED <<active, row>>
           /\ run' = [r EXCEPT !.pc = "report", !.spec = s, !.copy = q] /\ serving' = Released
  <2>1. PICK x \in Polls : run' = x /\ x.pc = "report" /\ x.spec = s /\ x.copy = q
    <3> DEFINE x == [r EXCEPT !.pc = "report", !.spec = s, !.copy = q]
    <3>1. x \in Polls /\ x.pc = "report" /\ x.spec = s /\ x.copy = q
      BY <1>2, <1>7 DEF Polls, Labels, Reporting
    <3> QED
      BY <1>7, <3>1
  <2>2. x.pc \notin Calls /\ Serves(x)
    BY <1>7, <2>1 DEF Calls, Serves, Released
  <2>3. Staged(x)
    BY <1>2, <1>7, <2>1 DEF Staged, Reporting
  <2>4. \A u \in Specs : \A b \in Said : Carries(x, u, b) => Says(u, b)
    BY <1>7, <2>1 DEF Carries, Says
  <2> QED
    BY <1>7, <2>1, <2>2, <2>3, <2>4, LocalStep DEF Still
<1>8. CASE active # None /\ SettlesRow(q, s, "expired") /\ AfterRecovery(r) /\ serving' = Released
  BY <1>4, <1>8
<1>9. CASE active # None /\ SettlesRow(q, s, "interrupted") /\ AfterRecovery(r) /\ serving' = Released
  BY <1>4, <1>9
<1> QED
  BY <1>3, <1>5, <1>6, <1>7, <1>8, <1>9 DEF Recovers

LEMMA TerminatedStep ==
    ASSUME Inv, Terminated
    PROVE  Inv'
<1>1. run.spec \in ever /\ run.spec \in Specs
  BY Task DEF Terminated, Answered, At
<1>2. UNCHANGED <<clock, active, ever, runs, told>> /\ serving' = None
  BY DEF Terminated, history
<1>3. CASE Fails /\ UNCHANGED row
  BY <1>2, <1>3, FailsLeaves, PlainStep DEF Still
<1>4. CASE MayCommit(run.spec)
  BY <1>1, <1>2, <1>4, CommitStep DEF Terminated, CommitsAndReports, Reports, Inv, TypeInv
<1> QED
  BY <1>3, <1>4 DEF Terminated, CommitsAndReports

LEMMA ReportStep ==
    ASSUME Inv, Report
    PROVE  Inv'
<1> DEFINE s == run.spec
           b == run.copy.body
<1>1. /\ run \in Polls /\ Staged(run) /\ run.pc = "report"
      /\ s \in ever /\ s \in Specs /\ b \in Said
  BY Task, RowFields DEF Report, At, Reporting
<1>2. PICK x \in Polls : run' = x /\ x.pc = "answer" /\ x.spec = s /\ x.copy = run.copy
  <2> DEFINE x == [run EXCEPT !.pc = "answer"]
  <2>1. x \in Polls /\ x.pc = "answer" /\ x.spec = s /\ x.copy = run.copy
    BY <1>1 DEF Polls, Labels, Reporting
  <2> QED
    BY <2>1 DEF Report
<1>3. UNCHANGED <<clock, active, row, ever, runs, serving>>
  BY DEF Report, ledger
<1>4. /\ told'[s] = told[s] \cup {b}
      /\ \A u \in Specs : u # s => told'[u] = told[u]
      /\ told' \in [Specs -> SUBSET Said]
  BY <1>1 DEF Report, Inv, TypeInv
<1>5. StageInv' /\ run' \in Polls /\ serving' \in Polls \cup {None}
  <2>1. x.pc \notin Calls /\ Serves(x)
    BY <1>2, <1>3 DEF Calls, Serves
  <2>2. Staged(x)'
    BY <1>1, <1>2, <1>3 DEF Staged, Reporting
  <2> QED
    BY <1>2, <1>3, <2>1, <2>2, StageStep
<1>6. TypeInv'
  BY <1>3, <1>4, <1>5 DEF Inv, TypeInv
<1>7. KnownInv' /\ ConsentInv'
  BY <1>1, <1>3, <1>4 DEF Inv, TypeInv, KnownInv, ConsentInv
<1>8. BodyInv'
  <2>1. Says(s, b)
    BY <1>1 DEF Says, Carries, Reporting
  <2>2. \A u \in Specs : \A c \in Said : Carries(run, u, c)' => Carries(run, u, c)
    BY <1>1, <1>2 DEF Carries, Reporting
  <2>3. \A u \in Specs : \A c \in Said : Says(u, c)' => Says(u, c)
    BY <1>3, <1>4, <2>1, <2>2 DEF Says
  <2> QED
    BY <1>3, <2>3 DEF Inv, BodyInv
<1> QED
  BY <1>5, <1>6, <1>7, <1>8 DEF Inv

LEMMA AcknowledgedStep ==
    ASSUME Assumed, Inv, Acknowledged
    PROVE  Inv'
<1>1. run \in Polls /\ run.copy \in Rows /\ run.spec \in ever
  BY Task DEF Acknowledged, At, Reporting
<1>2. UNCHANGED <<clock, ever, runs, told, serving>>
  BY DEF Acknowledged, history
<1>3. SettlesRow(run.copy, run.spec, "reported") /\ AfterRecovery(run)
  BY DEF Acknowledged
<1> QED
  BY <1>1, <1>2, <1>3, AfterRecoveryLeaves, SettleStep

-----------------------------------------------------------------------------
(* Scheduling and the first boot *)

LEMMA PollStep ==
    ASSUME Assumed, Inv, Poll
    PROVE  Inv'
<1> DEFINE r == [Idle EXCEPT !.start = clock]
<1>1. r \in Polls /\ "pull" \in Plain \ Calls
  BY IdleFields DEF Polls, Plain, Calls, Inv, TypeInv
<1>2. UNCHANGED <<clock, ever, runs, told>>
  BY DEF Poll, history
<1>3. CASE UNCHANGED <<active, row, run, serving>>
  <2>1. run \in Polls /\ Staged(run) /\ run' = run /\ serving' \in {None, serving}
    BY <1>3, Task
  <2>2. run.pc \notin Calls
    BY DEF Poll, At, Calls
  <2> QED
    BY <1>2, <1>3, <2>1, <2>2, LocalStep DEF Still, Serves, Says
<1>4. CASE Boots(r)
  <2> HIDE DEF r
  <2>1. CASE UNCHANGED <<active, row>> /\ run' = [r EXCEPT !.pc = "pull"] /\ serving' = Released
    BY <1>1, <1>2, <2>1, GotoLeaves, PlainStep DEF Still
  <2>2. CASE UNCHANGED <<active, row>> /\ (CallFrom(r, "create") \/ CallFrom(r, "register"))
    BY <1>1, <1>2, <2>2, PlainCall DEF Still
  <2>3. CASE Recovers(r)
    BY <1>1, <1>2, <2>3, RecoversStep
  <2> QED
    BY <1>4, <2>1, <2>2, <2>3 DEF Boots
<1> QED
  BY <1>3, <1>4 DEF Poll

LEMMA FirstBootStep ==
    ASSUME Assumed, Inv, Pulled \/ Created \/ Registered
    PROVE  Inv'
<1>1. run \in Polls
  BY Task
<1>2. CASE Pulled \/ Created
  BY <1>1, <1>2, PlainCall DEF Pulled, Created, Still, ledger, history
<1>3. CASE Registered
  BY <1>1, <1>3, RecoversStep DEF Registered, history
<1> QED
  BY <1>2, <1>3

-----------------------------------------------------------------------------
(* Admission and reads *)

LEMMA WorkStep ==
    ASSUME Inv, Work
    PROVE  Inv'
<1>1. Still
  BY DEF Work, Still, ledger, history
<1>2. CASE Leaves
  BY <1>1, <1>2, PlainStep
<1>3. ASSUME NEW s \in Specs, CallFrom([run EXCEPT !.spec = s, !.pickup = clock], "prepare")
      PROVE  Inv'
  <2> DEFINE r == [run EXCEPT !.spec = s, !.pickup = clock]
  <2>1. r \in Polls /\ r.spec = s /\ "prepare" \in Labels
    BY Task DEF Polls, Labels, Calls, Inv, TypeInv
  <2>2. CallFrom(r, "prepare")
    BY <1>3
  <2> HIDE DEF r
  <2>3. CASE \E x \in Polls : run' = x /\ serving' = x /\ x.pc = "prepare" /\ x.spec = r.spec
    <3>1. PICK x \in Polls : run' = x /\ serving' = x /\ x.pc = "prepare" /\ x.spec = s
      BY <2>1, <2>3
    <3>2. Staged(x) /\ \A u \in Specs : \A b \in Said : ~Carries(x, u, b)
      BY <3>1 DEF Staged, Reporting, Carries
    <3> QED
      BY <1>1, <3>1, <3>2, LocalStep DEF Serves
  <2> QED
    BY <1>2, <2>1, <2>2, <2>3, CallGoesOut
<1> QED
  BY <1>2, <1>3, FailsLeaves DEF Work

\* No spec was ever admitted under a consent that may be admitted now.
LEMMA FreshConsent ==
    ASSUME Assumed, Inv, NEW s \in Specs, NEW p, MayAdmit(s, p)
    PROVE  s \notin ever /\ \A u \in ever : AuthOf[u] # AuthOf[s]
<1>1. SUFFICES ASSUME NEW u \in ever, AuthOf[u] = AuthOf[s]
               PROVE  FALSE
  OBVIOUS
<1>2. u \in Specs /\ clock \in Nat
  BY DEF Inv, TypeInv
<1>3. row[u].state = "absent"
  BY <1>1, <1>2 DEF MayAdmit
<1>4. clock > IssuedAt[u] + Retain
  BY <1>3 DEF Inv, ConsentInv
<1>5. clock <= IssuedAt[s] + Life
  BY DEF MayAdmit, VerifyWork
<1>6. IssuedAt[s] + Life <= IssuedAt[u] + Retain
  BY <1>1, <1>2 DEF Assumed, ConsentLasts
<1>7. /\ IssuedAt[s] \in Nat /\ IssuedAt[u] \in Nat
      /\ Life \in Nat /\ Retain \in Nat
  BY <1>2 DEF Assumed, ConsentLasts, Lasting
<1> QED
  BY <1>2, <1>4, <1>5, <1>6, <1>7

LEMMA AdmitsStep ==
    ASSUME Assumed, Inv, run.pc = "prepare", MayAdmit(run.spec, run.pickup), Admits(run.spec),
           Executes, UNCHANGED <<clock, runs, told>>
    PROVE  Inv'
<1>1. run.spec \in Specs
  BY Task DEF Staged
<1>2. PICK s \in Specs : s = run.spec
  BY <1>1
<1> DEFINE q == [state |-> "accepted", pickup |-> run.pickup, start |-> run.start,
                 body |-> None, until |-> clock + Retain]
<1>3. run \in Polls /\ s \in Specs /\ "scan" \in Labels
  BY <1>2, Task DEF Labels, Calls
<1>4. s \notin ever /\ runs[s] = 0 /\ told[s] = {}
  BY <1>2, <1>3, FreshConsent DEF Inv, KnownInv
<1>5. clock \in Nat /\ Retain \in Nat /\ clock + Retain \in Nat
  BY DEF Assumed, Lasting, Inv, TypeInv
<1>6. q \in Rows /\ q.state = "accepted" /\ q.until = clock + Retain
  BY <1>3, <1>5, PollFields DEF Rows, States, Open, Said
<1>7. row' = [row EXCEPT ![s] = q] /\ active' = s /\ ever' = ever \cup {s}
  BY <1>2 DEF Admits
<1> HIDE DEF q
<1>8. /\ row' \in [Specs -> Rows]
      /\ row'[s].state = "accepted" /\ row'[s].until = clock + Retain
      /\ \A u \in Specs : u # s => row'[u] = row[u]
  BY <1>3, <1>6, <1>7 DEF Inv, TypeInv
<1>9. PICK y \in Polls : /\ run' = y /\ Serves(y) /\ Staged(y)'
                         /\ \A u \in Specs : \A b \in Said : ~Carries(y, u, b)
  <2>1. CASE Leaves
    <3>1. PICK y \in Polls : y.pc \in Plain /\ run' = y /\ Serves(y)
      BY <2>1 DEF Leaves
    <3> QED
      BY <3>1, PlainStaged
  <2>2. CASE \E x \in Polls : run' = x /\ serving' = x /\ x.pc = "scan" /\ x.spec = run.spec
    <3>1. PICK y \in Polls : run' = y /\ serving' = y /\ y.pc = "scan" /\ y.spec = s
      BY <1>2, <2>2
    <3>2. Staged(y)'
      BY <1>4, <1>7, <3>1 DEF Staged, Reporting
    <3>3. \A u \in Specs : \A b \in Said : ~Carries(y, u, b)
      BY <3>1 DEF Carries, Reporting
    <3> QED
      BY <3>1, <3>2, <3>3 DEF Serves
  <2> QED
    BY <1>2, <1>3, <2>1, <2>2, CallGoesOut, FailsLeaves DEF Executes
<1>10. StageInv' /\ run' \in Polls /\ serving' \in Polls \cup {None}
  BY <1>7, <1>9, StageStep
<1>11. TypeInv'
  BY <1>3, <1>7, <1>8, <1>10 DEF Inv, TypeInv
<1>12. KnownInv'
  BY <1>3, <1>7, <1>8 DEF Inv, KnownInv, Open
<1>13. ConsentInv'
  <2>1. IssuedAt[s] <= clock /\ IssuedAt[s] \in Nat
    BY <1>2, <1>3 DEF MayAdmit, VerifyWork, Assumed, ConsentLasts
  <2>2. clock + Retain >= IssuedAt[s] + Retain
    BY <1>5, <2>1
  <2> QED
    BY <1>7, <1>8, <2>1, <2>2 DEF Inv, TypeInv, ConsentInv
<1>14. BodyInv'
  <2>1. \A u \in Specs : \A b \in Said : ~Carries(run, u, b)'
    BY <1>9 DEF Carries
  <2>2. \A b \in Said : ~Says(s, b)'
    BY <1>4, <1>8, <2>1 DEF Says
  <2>3. \A u \in Specs : u # s => \A b \in Said : Says(u, b)' => Says(u, b)
    BY <1>8, <2>1 DEF Says
  <2> QED
    BY <1>7, <1>8, <2>2, <2>3 DEF Inv, BodyInv
<1> QED
  BY <1>10, <1>11, <1>12, <1>13, <1>14 DEF Inv

LEMMA PreparedStep ==
    ASSUME Assumed, Inv, Prepared
    PROVE  Inv'
<1>1. UNCHANGED <<clock, runs, told>> /\ run.pc = "prepare"
  BY DEF Prepared, Answered, At
<1>2. CASE Fails /\ serving' = None /\ UNCHANGED <<ledger, ever>>
  BY <1>1, <1>2, FailsLeaves, PlainStep DEF Still, ledger
<1> QED
  BY <1>1, <1>2, AdmitsStep DEF Prepared

\* The bridge serves a scan only while its spec was neither read nor reported.
LEMMA BridgeServesOnce ==
    ASSUME Inv, NEW x \in Polls, x.pc = "scan", Staged(x), Bridged(x.spec)
    PROVE  /\ x.spec \in ever /\ x.spec \in Specs /\ runs[x.spec] = 0
           /\ \A b \in Said : ~Says(x.spec, b)
<1>1. x.spec \in ever /\ x.spec \in Specs /\ runs[x.spec] = 0
  BY DEF Staged, Inv, TypeInv
<1> QED
  BY <1>1 DEF Bridged, Inv, BodyInv

LEMMA ReadsOnce ==
    ASSUME Inv, NEW s \in Specs, Reads(s), Bridged(s) => runs[s] = 0
    PROVE  /\ runs' \in [Specs -> Nat] /\ (Bridged(s) => runs'[s] = 1)
           /\ \A u \in Specs : u # s => runs'[u] = runs[u]
BY DEF Inv, TypeInv, Reads

\* A read, in a step that changes no row and leaves the task where nothing has
\* to be true, or at what is true of it whatever is read.
LEMMA ReadStep ==
    ASSUME Inv, NEW x \in Polls, x.pc = "scan", Staged(x), Reads(x.spec), serving' = None,
           run'.pc \notin Calls, run' \in Polls, Staged(run'),
           \A u \in Specs : \A b \in Said : Carries(run, u, b)' => Carries(run, u, b),
           UNCHANGED <<clock, active, row, ever, told>>
    PROVE  Inv'
<1> DEFINE s == x.spec
<1>1. s \in ever /\ s \in Specs
  BY DEF Staged, Inv, TypeInv
<1>2. CASE Bridged(s)
  <2>1. runs[s] = 0 /\ \A c \in Said : ~Says(s, c)
    BY <1>2, BridgeServesOnce
  <2>2. /\ runs' \in [Specs -> Nat]
        /\ \A u \in Specs : u # s => runs'[u] = runs[u]
    BY <1>1, <2>1, ReadsOnce
  <2>3. TypeInv'
    BY <2>2 DEF Inv, TypeInv
  <2>4. StageInv'
    BY DEF StageInv, Staged, Calls
  <2>5. KnownInv' /\ ConsentInv'
    BY <1>1, <2>2 DEF Inv, KnownInv, ConsentInv
  <2>6. BodyInv'
    <3>1. \A u \in Specs : \A c \in Said : Says(u, c)' => Says(u, c)
      BY DEF Says
    <3>2. \A u \in Specs : \A c \in Said : Says(u, c)' => runs'[u] = runs[u]
      BY <2>1, <2>2, <3>1
    <3> QED
      BY <3>1, <3>2 DEF Inv, BodyInv
  <2> QED
    BY <2>3, <2>4, <2>5, <2>6 DEF Inv
<1>3. CASE ~Bridged(s)
  <2>1. Still
    BY <1>3 DEF Reads, Still
  <2>2. TypeInv' /\ StageInv' /\ KnownInv' /\ ConsentInv'
    BY <2>1 DEF Still, Inv, TypeInv, StageInv, Staged, KnownInv, ConsentInv, Calls
  <2>3. \A u \in Specs : \A c \in Said : Says(u, c)' => Says(u, c)
    BY <2>1 DEF Says, Still
  <2>4. BodyInv'
    BY <2>1, <2>3 DEF Still, Inv, BodyInv
  <2> QED
    BY <2>2, <2>4 DEF Inv
<1> QED
  BY <1>2, <1>3

LEMMA ScannedStep ==
    ASSUME Inv, Scanned
    PROVE  Inv'
<1> DEFINE s == run.spec
<1>1. run \in Polls /\ Staged(run) /\ run.pc = "scan" /\ s \in ever /\ s \in Specs
  BY Task DEF Scanned, Answered, At
<1>2. UNCHANGED <<clock, active, ever, told>> /\ serving' = None /\ Reads(s)
  BY DEF Scanned
<1>3. PICK b \in Bodies(s) : CommitsAndReports(s, b, TRUE)
  BY DEF Scanned
<1>4. runs[s] = 0 /\ b \in Reports /\ (b = "result" => Bridged(s))
  BY <1>1 DEF Staged, Bodies, Reports
<1>5. CASE Fails /\ UNCHANGED row
  <2>1. run' \in Polls /\ run'.pc = "finally"
    BY <1>5, IdleFields DEF Fails, Polls, Labels
  <2>2. /\ run'.pc \notin Calls /\ Staged(run')
        /\ \A u \in Specs : \A c \in Said : ~Carries(run, u, c)'
    BY <2>1 DEF Calls, Staged, Reporting, Carries
  <2> QED
    BY <1>1, <1>2, <1>5, <2>1, <2>2, ReadStep
<1>6. CASE MayCommit(s)
  <2>1. /\ runs' \in [Specs -> Nat] /\ (b = "result" => runs'[s] = 1)
        /\ \A u \in Specs : u # s => runs'[u] = runs[u]
    BY <1>1, <1>2, <1>4, ReadsOnce
  <2> QED
    BY <1>1, <1>2, <1>3, <1>4, <1>6, <2>1, CommitStep DEF CommitsAndReports
<1> QED
  BY <1>3, <1>5, <1>6 DEF CommitsAndReports

LEMMA OrphanedStep ==
    ASSUME Inv, Orphaned
    PROVE  Inv'
<1>1. /\ serving \in Polls /\ Staged(serving) /\ run.pc \notin Calls
      /\ run \in Polls /\ Staged(run)
  BY DEF Orphaned, Inv, TypeInv, StageInv
<1>2. UNCHANGED <<clock, active, row, run, ever, told>> /\ serving' = None
  BY DEF Orphaned, ledger
<1>3. CASE serving.pc = "scan" /\ Reads(serving.spec)
  <2>1. \A u \in Specs : \A b \in Said : Carries(run, u, b)' => Carries(run, u, b)
    BY <1>2 DEF Carries
  <2>2. run'.pc \notin Calls /\ run' \in Polls /\ Staged(run')
    BY <1>1, <1>2
  <2> QED
    BY <1>1, <1>2, <1>3, <2>1, <2>2, ReadStep
<1>4. CASE UNCHANGED runs
  BY <1>1, <1>2, <1>4, LocalStep DEF Still, Serves, Says
<1> QED
  BY <1>3, <1>4 DEF Orphaned

-----------------------------------------------------------------------------
(* The end of a task, the platform and time *)

LEMMA FinallyStep ==
    ASSUME Assumed, Inv, Finally
    PROVE  Inv'
<1>1. PICK x \in Polls : x.pc \in Plain /\ run' = x /\ Serves(x)
  <2>1. run \in Polls /\ "stop" \in Plain \ Calls
    BY Task DEF Plain, Calls
  <2> QED
    BY <2>1, GotoLeaves DEF Finally, Leaves
<1>2. UNCHANGED <<clock, active, ever, runs, told>>
  BY DEF Finally, history
<1>3. StageInv' /\ run' \in Polls /\ serving' \in Polls \cup {None}
  <2>1. Staged(x)' /\ ever \subseteq ever' /\ runs' = runs
    BY <1>1, <1>2, PlainStaged
  <2> QED
    BY <1>1, <2>1, StageStep
<1>4. /\ row' \in [Specs -> Rows]
      /\ \A s \in Specs : row'[s] = IF Prunable(s) THEN Absent ELSE row[s]
  BY IdleFields DEF Finally, Inv, TypeInv
<1>5. TypeInv'
  BY <1>2, <1>3, <1>4 DEF Inv, TypeInv
<1>6. KnownInv'
  <2>1. active # None => active \in Specs /\ row'[active] = row[active]
    BY <1>4 DEF Inv, KnownInv, TypeInv, Prunable
  <2> QED
    BY <1>2, <1>4, <2>1, IdleFields DEF Inv, KnownInv
<1>7. ConsentInv'
  <2> SUFFICES ASSUME NEW s \in ever
               PROVE  IF row'[s].state = "absent" THEN clock > IssuedAt[s] + Retain
                                                  ELSE row'[s].until >= IssuedAt[s] + Retain
    BY <1>2 DEF Inv, ConsentInv
  <2>1. CASE ~Prunable(s)
    BY <1>4, <2>1 DEF Inv, TypeInv, ConsentInv
  <2>2. CASE Prunable(s)
    <3>1. row'[s].state = "absent" /\ s \in Specs
      BY <1>4, <2>2, IdleFields DEF Inv, TypeInv
    <3>2. row[s].until < clock /\ row[s].until >= IssuedAt[s] + Retain
      BY <2>2 DEF Prunable, Inv, ConsentInv
    <3>3. row[s].until \in Nat /\ clock \in Nat /\ IssuedAt[s] + Retain \in Nat
      BY <3>1, RowFields DEF Assumed, ConsentLasts, Lasting, Inv, TypeInv
    <3> QED
      BY <3>1, <3>2, <3>3
  <2> QED
    BY <2>1, <2>2
<1>8. BodyInv'
  <2>1. \A s \in Specs : row'[s].state \in Open => row'[s] = row[s]
    BY <1>4, IdleFields DEF Open
  <2>2. \A s \in Specs : \A b \in Said : ~Carries(run, s, b)'
    BY <1>1, PlainStaged DEF Carries
  <2>3. \A s \in Specs : \A b \in Said : Says(s, b)' => Says(s, b)
    BY <1>2, <2>1, <2>2 DEF Says, Open
  <2> QED
    BY <1>2, <2>1, <2>3 DEF Inv, BodyInv, Open
<1> QED
  BY <1>3, <1>5, <1>6, <1>7, <1>8 DEF Inv

LEMMA EndStep ==
    ASSUME Inv, Stop \/ Lost \/ Refused \/ Evict
    PROVE  Inv'
<1>1. Still
  BY DEF Stop, Lost, Refused, Evict, Still, ledger, history
<1>2. CASE run' = Idle /\ serving' \in {None, serving}
  BY <1>1, <1>2, IdleFields, PlainStep DEF Leaves, Serves, Plain, Calls
<1> QED
  BY <1>1, <1>2, FailsLeaves, PlainStep DEF Stop, Lost, Refused, Evict

LEMMA TickStep ==
    ASSUME Assumed, Inv, Tick
    PROVE  Inv'
<1>1. clock' = clock + 1 /\ UNCHANGED <<active, row, run, serving, ever, runs, told>>
  BY DEF Tick, ledger, history
<1>2. TypeInv' /\ StageInv' /\ KnownInv'
  BY <1>1 DEF Inv, TypeInv, StageInv, Staged, KnownInv
<1>3. ConsentInv'
  <2> SUFFICES ASSUME NEW s \in ever
               PROVE  /\ IssuedAt[s] <= clock + 1
                      /\ IF row[s].state = "absent" THEN clock + 1 > IssuedAt[s] + Retain
                                                    ELSE row[s].until >= IssuedAt[s] + Retain
    BY <1>1 DEF ConsentInv
  <2>1. IssuedAt[s] \in Nat /\ Retain \in Nat /\ clock \in Nat
    BY DEF Assumed, ConsentLasts, Lasting, Inv, TypeInv
  <2> QED
    BY <2>1 DEF Inv, ConsentInv
<1>4. BodyInv'
  BY <1>1 DEF Inv, BodyInv, Says, Carries
<1> QED
  BY <1>2, <1>3, <1>4 DEF Inv

LEMMA Stutter ==
    ASSUME Inv, Still, UNCHANGED <<run, serving>>
    PROVE  Inv'
<1>1. TypeInv' /\ StageInv' /\ KnownInv' /\ ConsentInv'
  BY DEF Still, Inv, TypeInv, StageInv, Staged, KnownInv, ConsentInv
<1>2. BodyInv'
  BY DEF Still, Inv, BodyInv, Says, Carries
<1> QED
  BY <1>1, <1>2 DEF Inv

-----------------------------------------------------------------------------
(* The theorems *)

\* The inductive invariant holds from the start and is kept by every step of the
\* task, by an eviction, by the call it leaves behind and by time (worker.ts:
\* pollTask, recover; state.ts: admit, commit, settle, prune).
THEOREM VerifierInvariant ==
    ASSUME Assumed
    PROVE  Spec => []Inv
<1>1. Init => Inv
  <2> SUFFICES ASSUME Init
               PROVE  Inv
    OBVIOUS
  <2>1. run = Idle /\ serving = None /\ "idle" \in Plain \ Calls
    BY DEF Init, Plain, Calls
  <2>2. \A s \in Specs : row[s] = Absent
    BY DEF Init
  <2>3. TypeInv
    BY <2>1, IdleFields DEF Init, TypeInv
  <2>4. StageInv
    BY <2>1, IdleFields, PlainStaged DEF StageInv
  <2>5. KnownInv /\ ConsentInv
    BY <2>2, IdleFields DEF Init, KnownInv, ConsentInv
  <2>6. BodyInv
    BY <2>1, <2>2, IdleFields DEF Init, BodyInv, Says, Carries, Reporting
  <2> QED
    BY <2>3, <2>4, <2>5, <2>6 DEF Inv
<1>2. Inv /\ [Next]_vars => Inv'
  <2> SUFFICES ASSUME Inv, [Next]_vars
               PROVE  Inv'
    OBVIOUS
  <2>1. CASE Cron \/ UNCHANGED vars
    BY <2>1, Stutter DEF Cron, vars, Still, ledger, history
  <2>2. CASE Step
    BY <2>2, FirstBootStep, TerminatedStep, ReportStep, AcknowledgedStep, WorkStep,
       PreparedStep, ScannedStep, FinallyStep, EndStep DEF Step
  <2> QED
    BY <2>1, <2>2, PollStep, EndStep, OrphanedStep, TickStep DEF Next
<1> QED
  BY <1>1, <1>2, PTL DEF Spec

LEMMA PreparedIsContract ==
    ASSUME Assumed, Inv, Prepared
    PROVE  [Contract!Next]_(Contract!vars)
<1> DEFINE s == run.spec
<1>1. s \in Specs
  BY Task DEF Prepared, Answered, At, Staged
<1>2. UNCHANGED <<runs, told>>
  BY DEF Prepared
<1>3. CASE UNCHANGED ever
  BY <1>2, <1>3 DEF Contract!vars
<1>4. CASE MayAdmit(s, run.pickup) /\ ever' = ever \cup {s}
  <2>1. \A u \in ever : AuthOf[u] # AuthOf[s]
    BY <1>1, <1>4, FreshConsent
  <2>2. Contract!Admit(s)
    BY <1>2, <1>4, <2>1 DEF Contract!Admit
  <2> QED
    BY <1>1, <2>2 DEF Contract!Next
<1> QED
  BY <1>3, <1>4 DEF Prepared, Admits

LEMMA ReadIsContract ==
    ASSUME Inv, NEW x \in Polls, x.pc = "scan", Staged(x), Reads(x.spec), UNCHANGED <<ever, told>>
    PROVE  [Contract!Next]_(Contract!vars)
<1> DEFINE s == x.spec
<1>1. CASE ~Bridged(s)
  BY <1>1 DEF Reads, Contract!vars
<1>2. CASE Bridged(s)
  <2>1. /\ s \in ever /\ s \in Specs /\ runs[s] = 0
        /\ \A b \in Said : ~Says(s, b)
    BY <1>2, BridgeServesOnce
  <2>2. told[s] = {} /\ runs' = [runs EXCEPT ![s] = 1]
    BY <1>2, <2>1 DEF Reads, Says, Inv, TypeInv
  <2>3. Contract!Read(s)
    BY <2>1, <2>2 DEF Contract!Read
  <2> QED
    BY <2>1, <2>3 DEF Contract!Next
<1> QED
  BY <1>1, <1>2

LEMMA ReportIsContract ==
    ASSUME Inv, Report
    PROVE  [Contract!Next]_(Contract!vars)
<1> DEFINE s == run.spec
           b == run.copy.body
<1>1. run.pc = "report" /\ b \in Said /\ s \in ever /\ s \in Specs
  BY Task, RowFields DEF Report, At, Reporting
<1>2. Says(s, b)
  BY <1>1 DEF Says, Carries, Reporting
<1>3. /\ b \in Reports /\ (b = "result" => runs[s] = 1)
      /\ \A c \in told[s] : c = b
  BY <1>1, <1>2 DEF Inv, TypeInv, BodyInv, Says
<1>4. UNCHANGED <<ever, runs>> /\ told' = [told EXCEPT ![s] = @ \cup {b}]
  BY DEF Report
<1>5. CASE told[s] = {}
  <2>1. told' = [told EXCEPT ![s] = {b}]
    BY <1>4, <1>5
  <2>2. Contract!Tell(s, b)
    BY <1>1, <1>3, <1>4, <1>5, <2>1 DEF Contract!Tell
  <2> QED
    BY <1>1, <1>3, <2>2 DEF Contract!Next, Reports
<1>6. CASE told[s] # {}
  <2>1. told[s] \cup {b} = told[s]
    BY <1>3, <1>6
  <2>2. told' = told
    BY <1>1, <1>4, <2>1 DEF Inv, TypeInv
  <2> QED
    BY <1>4, <2>2 DEF Contract!vars
<1> QED
  BY <1>5, <1>6

\* However often the object is evicted while the container goes on, the
\* Cloudflare verifier admits a spec under a consent that admitted none before,
\* serves its source to one scan, and one report of it is accepted (worker.ts:
\* pollTask, recover, bridge; state.ts: admit, commit, settle).
THEOREM CloudflareKeepsContract ==
    ASSUME Assumed
    PROVE  Spec => Contract!Spec
<1>1. Init => Contract!Init
  BY DEF Init, Contract!Init
<1>2. Inv /\ [Next]_vars => [Contract!Next]_(Contract!vars)
  <2> SUFFICES ASSUME Inv, [Next]_vars
               PROVE  [Contract!Next]_(Contract!vars)
    OBVIOUS
  <2>1. CASE Cron \/ Poll \/ Refused \/ Evict \/ Tick \/ UNCHANGED vars
    BY <2>1 DEF Cron, Poll, Refused, Evict, Tick, vars, history, Contract!vars
  <2>2. CASE \/ Pulled \/ Created \/ Registered \/ Terminated \/ Acknowledged
             \/ Work \/ Finally \/ Stop \/ Lost
    BY <2>2 DEF Pulled, Created, Registered, Terminated, Acknowledged, Work, Finally, Stop,
       Lost, history, Contract!vars
  <2>3. CASE Scanned
    <3>1. /\ run \in Polls /\ run.pc = "scan" /\ Staged(run)
          /\ Reads(run.spec) /\ UNCHANGED <<ever, told>>
      BY <2>3, Task DEF Scanned, Answered, At
    <3> QED
      BY <3>1, ReadIsContract
  <2>4. CASE Orphaned
    <3>1. serving \in Polls /\ Staged(serving) /\ UNCHANGED <<ever, told>>
      BY <2>4 DEF Orphaned, Inv, TypeInv, StageInv
    <3>2. CASE serving.pc = "scan" /\ Reads(serving.spec)
      BY <3>1, <3>2, ReadIsContract
    <3>3. CASE UNCHANGED runs
      BY <3>1, <3>3 DEF Contract!vars
    <3> QED
      BY <2>4, <3>2, <3>3 DEF Orphaned
  <2> QED
    BY <2>1, <2>2, <2>3, <2>4, PreparedIsContract, ReportIsContract DEF Next, Step
<1> QED
  BY <1>1, <1>2, VerifierInvariant, PTL DEF Spec, Contract!Spec
====
