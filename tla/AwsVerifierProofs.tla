-------------------------- MODULE AwsVerifierProofs --------------------------
(***************************************************************************)
(* The AWS verifier keeps the promise of VerifierContract, for every       *)
(* number of specs, of invocations at a time and of faults, and for all    *)
(* durations that TimingAssumption allows.                                 *)
(***************************************************************************)
EXTENDS Verifiers, TLAPS

(***************************************************************************)
(* The inductive invariant                                                 *)
(***************************************************************************)

Reports == {"result", "failure"}
Said == Reports \cup {None}
Rows == [state : {"absent"} \cup Open \cup Settled, pickup : Nat, body : Said, until : Nat]
Free == {"idle", "recover", "poll", "admit"}
Reporting == {"load", "send", "reported"}
Scanning == {"record", "read", "chunks", "describe"}
Labels == Free \cup Reporting \cup Scanning \cup Settled \cup {"row", "reread"}
Invocations == [pc : Labels, born : Nat, phase : {"first", "scan", "final"},
                spec : Specs \cup {None}, pickup : Nat, copy : Rows, body : Said]

TypeInv ==
    /\ clock \in Nat /\ last \in Nat /\ active \in Specs \cup {None}
    /\ row \in [Specs -> Rows]
    /\ nonces \in [Auths -> Nat]
    /\ chunks \subseteq Specs \X Reports
    /\ inv \in [Slots -> Invocations]
    /\ ever \subseteq Specs
    /\ runs \in [Specs -> Nat]
    /\ told \in [Specs -> SUBSET Said]

\* What is true of an invocation x of slot i at its label.
Staged(i, x) ==
    /\ x.born <= clock
    /\ x.pc \notin Free => x.spec \in ever
    /\ x.pc = "admit" => x.spec \in Specs /\ x.born <= x.pickup + Behind[i]
    /\ x.pc \in {"record", "read"} => x.phase = "scan"
    /\ x.phase = "scan" => x.pc \in Scanning
    /\ x.pc \in {"chunks", "describe"} =>
          x.body \in Reports /\ (x.body = "result" => runs[x.spec] = 1)
    /\ x.pc \in {"send", "reported"} => x.copy.state = "committed"
    /\ x.pc = "reported" => told[x.spec] = {x.copy.body}
StageInv == \A i \in Slots : Staged(i, inv[i])

\* A spec that was never admitted has left no trace.
KnownInv ==
    /\ None \notin ever /\ (active # None => active \in ever)
    /\ \A s \in Specs \ ever : row[s].state = "absent" /\ runs[s] = 0 /\ told[s] = {}
    /\ \A s \in Specs : row[s].state \in Open => active = s

\* The row of a consent is there, or gone so late that no spec is fresh.
ConsentInv ==
    \A t \in ever : \/ nonces[AuthOf[t]] >= IssuedAt[t] + Retain
                    \/ nonces[AuthOf[t]] = 0 /\ clock > IssuedAt[t] + Retain

\* A scan that may still run is alone with its row.
Scans(i) == Alive(i) /\ inv[i].phase = "scan"
Harmless(x, s) == x.spec = s => x.pc \in Free \cup {"row"}
ScanInv ==
    \A i \in Slots : Scans(i) =>
       /\ row[inv[i].spec].state = "running"
       /\ row[inv[i].spec].pickup = inv[i].pickup
       /\ inv[i].born <= inv[i].pickup + Behind[i]
       /\ inv[i].pc \in {"record", "read"} => runs[inv[i].spec] = 0
       /\ \A j \in Slots \ {i} : Harmless(inv[j], inv[i].spec)

\* All that may still be reported of a spec, or was, is the same.
Carries(x, s, b) ==
    /\ x.spec = s /\ x.pc \in Reporting
    /\ x.copy.state = "committed" /\ x.copy.body = b
Says(s, b) ==
    \/ b \in told[s]
    \/ row[s].state = "committed" /\ row[s].body = b
    \/ \E i \in Slots : Carries(inv[i], s, b)
BodyInv ==
    \A s \in Specs : \A b \in Said : Says(s, b) =>
       /\ b \in Reports /\ s \in ever
       /\ b = "result" => runs[s] = 1
       /\ row[s].state # "running"
       /\ \A c \in Said : Says(s, c) => c = b

ChunkInv ==
    /\ \A s \in Specs : row[s].state = "committed" => <<s, row[s].body>> \in chunks
    /\ \A i \in Slots : inv[i].pc = "describe" /\ row[inv[i].spec].state = "running" =>
          <<inv[i].spec, inv[i].body>> \in chunks

ToldInv == \A s \in Specs : row[s].state = "reported" => told[s] = {row[s].body}

Inv == /\ TypeInv /\ StageInv /\ KnownInv /\ ConsentInv
       /\ ScanInv /\ BodyInv /\ ChunkInv /\ ToldInv

-----------------------------------------------------------------------------
(* Records *)

LEMMA AbsentRow == Absent \in Rows /\ Absent.state = "absent"
BY DEF Absent, Rows, Said

LEMMA RowFields ==
    ASSUME NEW x \in Rows
    PROVE  /\ x.state \in {"absent"} \cup Open \cup Settled /\ x.pickup \in Nat
           /\ x.body \in Said /\ x.until \in Nat
BY DEF Rows

LEMMA IdleFields ==
    /\ Idle \in Invocations
    /\ Idle.pc = "idle" /\ Idle.phase = "first" /\ Idle.born = 0 /\ Idle.copy.state = "absent"
<1>1. Absent \in Rows /\ Absent.state = "absent"
  BY AbsentRow
<1> QED
  BY <1>1 DEF Idle, Invocations, Labels, Said, Free

\* An invocation as it begins, or begins to poll.
LEMMA FreshFields ==
    ASSUME NEW p \in {"recover", "poll"}, NEW b \in Nat
    PROVE  LET x == [Idle EXCEPT !.pc = p, !.born = b]
           IN  /\ x \in Invocations
               /\ x.pc = p /\ x.phase = "first" /\ x.born = b
BY IdleFields DEF Invocations, Labels, Free

LEMMA InvocationFields ==
    ASSUME NEW x \in Invocations
    PROVE  /\ x.pc \in Labels /\ x.born \in Nat /\ x.phase \in {"first", "scan", "final"}
           /\ x.spec \in Specs \cup {None} /\ x.pickup \in Nat
           /\ x.copy \in Rows /\ x.body \in Said
BY DEF Invocations

-----------------------------------------------------------------------------
(* Facts about times *)

LEMMA NowRange ==
    ASSUME NEW i \in Slots, clock \in Nat
    PROVE  /\ Now(i) \in Nat /\ Now(i) <= clock
           /\ clock <= Now(i) + Behind[i]
BY TimingAssumption DEF Now

\* While an invocation may still run, no host takes its scan for interrupted.
LEMMA NotInterrupted ==
    ASSUME NEW i \in Slots, NEW j \in Slots, clock \in Nat,
           inv[i].born \in Nat, inv[i].pickup \in Nat,
           Alive(i), inv[i].born <= inv[i].pickup + Behind[i]
    PROVE  Now(j) <= inv[i].pickup + Grace
<1>1. Kill + Behind[i] <= Grace /\ Behind[i] \in Nat /\ Kill \in Nat /\ Grace \in Nat
  BY TimingAssumption
<1>2. Now(j) \in Nat /\ Now(j) <= clock
  BY NowRange
<1> QED
  BY <1>1, <1>2 DEF Alive

-----------------------------------------------------------------------------
(* Steps that end an invocation or let it begin to poll *)

Ends(i) ==
    \E x \in Invocations : /\ inv' = [inv EXCEPT ![i] = x]
                           /\ x.pc \in {"idle", "recover", "poll"} /\ x.phase = "first"
                           /\ x.born <= clock

LEMMA EndEnds ==
    ASSUME NEW i \in Slots, TypeInv, End(i)
    PROVE  Ends(i)
<1>1. Idle.born <= clock
  BY IdleFields DEF TypeInv
<1> QED
  BY <1>1, IdleFields DEF End, Ends

LEMMA AfterRecoveryEnds ==
    ASSUME Inv, NEW i \in Slots, AfterRecovery(i)
    PROVE  Ends(i)
<1>1. inv[i].born \in Nat /\ inv[i].born <= clock
  BY InvocationFields DEF Inv, TypeInv, StageInv, Staged
<1>2. CASE inv[i].phase = "first"
  <2> DEFINE x == [Idle EXCEPT !.pc = "poll", !.born = inv[i].born]
  <2>1. x \in Invocations /\ x.pc = "poll" /\ x.phase = "first" /\ x.born = inv[i].born
    BY <1>1, FreshFields
  <2>2. inv' = [inv EXCEPT ![i] = x]
    BY <1>2 DEF AfterRecovery
  <2> QED
    BY <1>1, <2>1, <2>2 DEF Ends
<1> QED
  BY <1>2, EndEnds DEF AfterRecovery, Inv

LEMMA StartEnds ==
    ASSUME NEW i \in Slots, TypeInv, Start(i)
    PROVE  Ends(i)
<1> DEFINE x == [Idle EXCEPT !.pc = "recover", !.born = clock]
<1>1. x \in Invocations /\ x.pc = "recover" /\ x.phase = "first" /\ x.born = clock
  BY FreshFields DEF TypeInv
<1>2. inv' = [inv EXCEPT ![i] = x]
  BY DEF Start
<1>3. x.born <= clock
  BY <1>1 DEF TypeInv
<1> QED
  BY <1>1, <1>2, <1>3 DEF Ends

-----------------------------------------------------------------------------
(* A step of one invocation that leaves the tables alone *)

Still == UNCHANGED <<clock, active, row, nonces, daily, chunks, ever, runs, told>> /\ last' \in Nat

LEMMA LocalStep ==
    ASSUME Inv, Still, NEW i \in Slots, NEW x \in Invocations,
           inv' = [inv EXCEPT ![i] = x],
           Staged(i, x), x.pc # "describe",
           x.phase = "scan" =>
              /\ inv[i].phase = "scan" /\ inv[i].pc # "idle"
              /\ x.spec = inv[i].spec /\ x.pickup = inv[i].pickup /\ x.born = inv[i].born
              /\ x.pc \in {"record", "read"} => inv[i].pc \in {"record", "read"},
           \A k \in Slots \ {i} : Scans(k) => Harmless(x, inv[k].spec),
           \A s \in Specs : \A b \in Said : Carries(x, s, b) => Says(s, b)
    PROVE  Inv'
<1>1. /\ inv' \in [Slots -> Invocations] /\ inv'[i] = x
      /\ \A k \in Slots : k # i => inv'[k] = inv[k]
  BY DEF Inv, TypeInv
<1>2. TypeInv'
  BY <1>1 DEF Inv, TypeInv, Still
<1>3. StageInv'
  BY <1>1 DEF Inv, StageInv, Staged, Still
<1>4. KnownInv' /\ ConsentInv' /\ ToldInv'
  BY DEF Inv, KnownInv, ConsentInv, ToldInv, Still
<1>5. ScanInv'
  <2> SUFFICES ASSUME NEW k \in Slots, Scans(k)'
               PROVE  /\ row[inv[k].spec].state = "running"
                      /\ row[inv[k].spec].pickup = inv[k].pickup
                      /\ inv[k].born <= inv[k].pickup + Behind[k]
                      /\ inv'[k].pc \in {"record", "read"} => runs[inv[k].spec] = 0
                      /\ inv'[k].spec = inv[k].spec /\ inv'[k].pickup = inv[k].pickup
                      /\ inv'[k].born = inv[k].born
                      /\ \A j \in Slots \ {k} : Harmless(inv'[j], inv[k].spec)
    BY DEF ScanInv, Still, Harmless
  <2>1. /\ Scans(k)
        /\ inv'[k].spec = inv[k].spec /\ inv'[k].pickup = inv[k].pickup
        /\ inv'[k].born = inv[k].born
        /\ inv'[k].pc \in {"record", "read"} => inv[k].pc \in {"record", "read"}
    <3>1. CASE k = i
      BY <1>1, <3>1 DEF Scans, Alive, Still
    <3>2. CASE k # i
      BY <1>1, <3>2 DEF Scans, Alive, Still
    <3> QED
      BY <3>1, <3>2
  <2>2. \A j \in Slots \ {k} : Harmless(inv'[j], inv[k].spec)
    BY <1>1, <2>1 DEF Inv, ScanInv
  <2> QED
    BY <2>1, <2>2 DEF Inv, ScanInv
<1>6. BodyInv'
  <2>1. \A s \in Specs : \A b \in Said : Says(s, b)' => Says(s, b)
    BY <1>1 DEF Says, Still
  <2> QED
    BY <2>1 DEF Inv, BodyInv, Still
<1>7. ChunkInv'
  BY <1>1 DEF Inv, ChunkInv, Still
<1> QED
  BY <1>2, <1>3, <1>4, <1>5, <1>6, <1>7 DEF Inv

LEMMA EndStep ==
    ASSUME Inv, Still, NEW i \in Slots, Ends(i)
    PROVE  Inv'
<1>1. PICK x \in Invocations : /\ inv' = [inv EXCEPT ![i] = x]
                               /\ x.pc \in {"idle", "recover", "poll"} /\ x.phase = "first"
                               /\ x.born <= clock
  BY DEF Ends
<1>2. Staged(i, x) /\ \A s \in Specs : \A b \in Said : ~Carries(x, s, b)
  BY <1>1 DEF Staged, Carries, Free, Reporting
<1>3. \A s : Harmless(x, s)
  BY <1>1 DEF Harmless, Free
<1> QED
  BY <1>1, <1>2, <1>3, LocalStep

-----------------------------------------------------------------------------
(* The steps of an invocation that only read the tables *)

LEMMA Slot ==
    ASSUME Inv, NEW i \in Slots
    PROVE  /\ inv[i] \in Invocations /\ Staged(i, inv[i])
           /\ inv[i].pc \in Labels /\ inv[i].born \in Nat /\ inv[i].pickup \in Nat
           /\ inv[i].phase \in {"first", "scan", "final"}
           /\ inv[i].copy \in Rows /\ inv[i].body \in Said
           /\ inv[i].pc \notin Free => inv[i].spec \in ever /\ inv[i].spec \in Specs
<1>1. inv[i] \in Invocations /\ Staged(i, inv[i]) /\ ever \subseteq Specs
  BY DEF Inv, TypeInv, StageInv
<1> QED
  BY <1>1, InvocationFields DEF Staged

LEMMA StartStep ==
    ASSUME Inv, NEW i \in Slots, Start(i)
    PROVE  Inv'
<1>1. Ends(i)
  BY StartEnds DEF Inv
<1>2. Still
  BY NowRange DEF Start, Still, Inv, TypeInv, Larger, history
<1> QED
  BY <1>1, <1>2, EndStep

LEMMA FindActiveStep ==
    ASSUME Inv, NEW i \in Slots, FindActive(i)
    PROVE  Inv'
<1>1. Still
  BY DEF FindActive, Still, Inv, TypeInv, table, history
<1>2. CASE Ends(i)
  BY <1>1, <1>2, EndStep
<1>3. CASE active # None /\ inv' = [inv EXCEPT ![i].pc = "row", ![i].spec = active]
  <2> DEFINE x == [inv[i] EXCEPT !.pc = "row", !.spec = active]
  <2>1. inv[i] \in Invocations /\ Staged(i, inv[i]) /\ inv[i].pc = "recover"
    BY Slot DEF FindActive, At
  <2>2. /\ x \in Invocations /\ x.pc = "row" /\ x.spec = active /\ x.phase = inv[i].phase
        /\ x.born = inv[i].born /\ inv' = [inv EXCEPT ![i] = x]
    BY <1>3, <2>1 DEF Invocations, Labels, Inv, TypeInv
  <2>3. Staged(i, x) /\ x.phase # "scan"
    BY <1>3, <2>1, <2>2 DEF Staged, Inv, KnownInv, Scanning
  <2>4. /\ \A s : Harmless(x, s)
        /\ \A s \in Specs : \A b \in Said : ~Carries(x, s, b)
    BY <2>2 DEF Harmless, Carries, Reporting
  <2> QED
    BY <1>1, <2>2, <2>3, <2>4, LocalStep
<1> QED
  BY <1>2, <1>3, EndEnds, AfterRecoveryEnds DEF FindActive, Inv

\* A scan that may still run is left alone by whoever finds its row.
LEMMA DecideStep ==
    ASSUME Inv, NEW i \in Slots, Decide(i)
    PROVE  Inv'
<1> DEFINE s == inv[i].spec
           d == Decision(s, row[s], Now(i))
<1>1. Still
  BY DEF Decide, Still, Inv, TypeInv, table, history
<1>2. /\ inv[i] \in Invocations /\ Staged(i, inv[i]) /\ inv[i].pc = "row"
      /\ s \in ever /\ s \in Specs /\ row[s] \in Rows
  BY Slot DEF Decide, At, Free, Inv, TypeInv
<1>3. CASE Ends(i)
  BY <1>1, <1>3, EndStep
<1>4. CASE d # "refused" /\
           inv' = [inv EXCEPT ![i].pc = d, ![i].copy = row[s],
                              ![i].body = IF d = "chunks" THEN "failure" ELSE row[s].body]
  <2> DEFINE x == [inv[i] EXCEPT !.pc = d, !.copy = row[s],
                                 !.body = IF d = "chunks" THEN "failure" ELSE row[s].body]
  <2>1. d \in {"expired", "load", "interrupted", "chunks"}
    BY <1>4 DEF Decision
  <2>2. /\ x \in Invocations /\ x.pc = d /\ x.copy = row[s] /\ x.spec = s
        /\ x.phase = inv[i].phase /\ x.born = inv[i].born
        /\ d = "chunks" => x.body = "failure"
        /\ inv' = [inv EXCEPT ![i] = x]
    <3>1. d \in Labels /\ row[s].body \in Said /\ "failure" \in Said
      BY <1>2, <2>1, RowFields DEF Labels, Reporting, Scanning, Settled, Said, Reports
    <3> QED
      BY <1>2, <1>4, <2>1, <3>1 DEF Invocations
  <2>3. Staged(i, x) /\ x.phase # "scan"
    BY <1>2, <2>1, <2>2 DEF Staged, Free, Scanning, Reports
  <2>4. ASSUME NEW k \in Slots \ {i}, Scans(k), inv[k].spec = s
        PROVE  FALSE
    <3>1. /\ row[s].state = "running" /\ row[s].pickup = inv[k].pickup
          /\ inv[k].born <= inv[k].pickup + Behind[k]
          /\ Alive(k) /\ inv[k].born \in Nat /\ inv[k].pickup \in Nat /\ clock \in Nat
      BY <2>4, Slot DEF Inv, ScanInv, Scans, TypeInv
    <3>2. Now(i) <= row[s].pickup + Grace /\ Now(i) \in Nat
      BY <3>1, NotInterrupted, NowRange
    <3>3. ~Late(row[s], Now(i))
      BY <3>1, <3>2, TimingAssumption DEF Late
    <3> QED
      BY <1>4, <3>1, <3>2, <3>3 DEF Decision
  <2>5. \A k \in Slots \ {i} : Scans(k) => Harmless(x, inv[k].spec)
    BY <2>2, <2>4 DEF Harmless
  <2>6. \A t \in Specs : \A b \in Said : Carries(x, t, b) => Says(t, b)
    BY <2>1, <2>2 DEF Carries, Says
  <2> QED
    BY <1>1, <2>1, <2>2, <2>3, <2>5, <2>6, LocalStep
<1> QED
  BY <1>3, <1>4, EndEnds DEF Decide, Inv

LEMMA RereadStep ==
    ASSUME Inv, NEW i \in Slots, Reread(i)
    PROVE  Inv'
<1> DEFINE s == inv[i].spec
           x == [inv[i] EXCEPT !.pc = "load", !.copy = row[s]]
<1>1. Still
  BY DEF Reread, Still, Inv, TypeInv, table, history
<1>2. /\ inv[i] \in Invocations /\ Staged(i, inv[i]) /\ inv[i].pc = "reread"
      /\ s \in ever /\ s \in Specs /\ row[s] \in Rows
  BY Slot DEF Reread, At, Free, Inv, TypeInv
<1>3. /\ x \in Invocations /\ x.pc = "load" /\ x.copy = row[s] /\ x.spec = s
      /\ x.phase = inv[i].phase /\ x.born = inv[i].born /\ inv' = [inv EXCEPT ![i] = x]
  BY <1>2 DEF Reread, Invocations, Labels, Reporting
<1>4. Staged(i, x) /\ x.phase # "scan"
  BY <1>2, <1>3 DEF Staged, Free, Scanning
<1>5. \A k \in Slots \ {i} : Scans(k) => Harmless(x, inv[k].spec)
  BY <1>2, <1>3 DEF Harmless, Free, Inv, ScanInv
<1>6. \A t \in Specs : \A b \in Said : Carries(x, t, b) => Says(t, b)
  BY <1>3 DEF Carries, Says
<1> QED
  BY <1>1, <1>3, <1>4, <1>5, <1>6, LocalStep

LEMMA LoadStep ==
    ASSUME Inv, NEW i \in Slots, Load(i)
    PROVE  Inv'
<1> DEFINE s == inv[i].spec
           x == [inv[i] EXCEPT !.pc = "send"]
<1>1. Still
  BY DEF Load, Still, Inv, TypeInv, table, history
<1>2. /\ inv[i] \in Invocations /\ Staged(i, inv[i]) /\ inv[i].pc = "load"
      /\ s \in ever /\ s \in Specs
  BY Slot DEF Load, At, Free
<1>3. CASE Ends(i)
  BY <1>1, <1>3, EndStep
<1>4. CASE inv[i].copy.state = "committed" /\ Goto(i, "send")
  <2>1. /\ x \in Invocations /\ x.pc = "send" /\ x.copy = inv[i].copy /\ x.spec = s
        /\ x.phase = inv[i].phase /\ x.born = inv[i].born
        /\ inv' = [inv EXCEPT ![i] = x]
    BY <1>2, <1>4 DEF Goto, Invocations, Labels, Reporting
  <2>2. Staged(i, x) /\ x.phase # "scan"
    BY <1>2, <1>4, <2>1 DEF Staged, Free, Scanning
  <2>3. \A k \in Slots \ {i} : Scans(k) => Harmless(x, inv[k].spec)
    BY <1>2, <2>1 DEF Harmless, Free, Inv, ScanInv
  <2>4. \A t \in Specs : \A b \in Said : Carries(x, t, b) => Says(t, b)
    BY <1>2, <2>1 DEF Carries, Says, Reporting
  <2> QED
    BY <1>1, <2>1, <2>2, <2>3, <2>4, LocalStep
<1> QED
  BY <1>3, <1>4, EndEnds DEF Load, Inv

LEMMA PollStep ==
    ASSUME Inv, NEW i \in Slots, Poll(i)
    PROVE  Inv'
<1>1. Still
  BY DEF Poll, Still, Inv, TypeInv, table, history
<1>2. inv[i] \in Invocations /\ Staged(i, inv[i]) /\ inv[i].pc = "poll" /\ clock \in Nat
  BY Slot DEF Poll, At, Inv, TypeInv
<1>3. CASE Ends(i)
  BY <1>1, <1>3, EndStep
<1>4. ASSUME NEW s \in Specs,
             inv' = [inv EXCEPT ![i].pc = "admit", ![i].spec = s, ![i].pickup = Now(i)]
      PROVE  Inv'
  <2> DEFINE x == [inv[i] EXCEPT !.pc = "admit", !.spec = s, !.pickup = Now(i)]
  <2>1. Now(i) \in Nat /\ clock <= Now(i) + Behind[i]
    BY <1>2, NowRange
  <2>2. /\ x \in Invocations /\ x.pc = "admit" /\ x.spec = s /\ x.phase = inv[i].phase
        /\ x.born = inv[i].born /\ x.pickup = Now(i) /\ inv' = [inv EXCEPT ![i] = x]
    BY <1>2, <1>4, <2>1 DEF Invocations, Labels, Free
  <2>3. inv[i].born <= clock /\ inv[i].born \in Nat /\ Behind[i] \in Nat
    BY <1>2, InvocationFields, TimingAssumption DEF Staged
  <2>4. Staged(i, x) /\ x.phase # "scan"
    BY <1>2, <2>1, <2>2, <2>3 DEF Staged, Free, Scanning
  <2>5. /\ \A t : Harmless(x, t)
        /\ \A t \in Specs : \A b \in Said : ~Carries(x, t, b)
    BY <2>2 DEF Harmless, Free, Carries, Reporting
  <2> QED
    BY <1>1, <2>2, <2>4, <2>5, LocalStep
<1> QED
  BY <1>3, <1>4, EndEnds DEF Poll, Inv, WorkResponses, VerifyWork

LEMMA RecordStep ==
    ASSUME Inv, NEW i \in Slots, Record(i)
    PROVE  Inv'
<1> DEFINE s == inv[i].spec
           x == [inv[i] EXCEPT !.pc = "read", !.copy = row[s]]
<1>1. Still
  BY DEF Record, Still, Inv, TypeInv, table, history
<1>2. /\ inv[i] \in Invocations /\ Staged(i, inv[i]) /\ inv[i].pc = "record"
      /\ s \in ever /\ s \in Specs /\ row[s] \in Rows /\ Alive(i)
  BY Slot DEF Record, At, Free, Inv, TypeInv
<1>3. CASE Ends(i)
  BY <1>1, <1>3, EndStep
<1>4. CASE inv' = [inv EXCEPT ![i].pc = "read", ![i].copy = row[s]]
  <2>1. /\ x \in Invocations /\ x.pc = "read" /\ x.spec = s /\ x.phase = inv[i].phase
        /\ x.born = inv[i].born /\ x.pickup = inv[i].pickup /\ inv' = [inv EXCEPT ![i] = x]
    BY <1>2, <1>4 DEF Invocations, Labels, Scanning
  <2>2. Staged(i, x) /\ inv[i].phase = "scan"
    BY <1>2, <2>1 DEF Staged, Free, Scanning
  <2>3. \A k \in Slots \ {i} : Scans(k) => Harmless(x, inv[k].spec)
    BY <1>2, <2>1 DEF Harmless, Free, Inv, ScanInv
  <2>4. \A t \in Specs : \A b \in Said : ~Carries(x, t, b)
    BY <2>1 DEF Carries, Reporting
  <2> QED
    BY <1>1, <1>2, <2>1, <2>2, <2>3, <2>4, LocalStep
<1> QED
  BY <1>3, <1>4, EndEnds DEF Record, Inv

-----------------------------------------------------------------------------
(* The steps of an invocation that write *)

LEMMA CommitChunksStep ==
    ASSUME Inv, NEW i \in Slots, CommitChunks(i)
    PROVE  Inv'
<1> DEFINE s == inv[i].spec
           x == [inv[i] EXCEPT !.pc = "describe"]
<1>1. /\ inv[i] \in Invocations /\ Staged(i, inv[i]) /\ inv[i].pc = "chunks"
      /\ s \in ever /\ s \in Specs /\ inv[i].body \in Reports /\ Alive(i)
  BY Slot DEF CommitChunks, At, Free, Staged
<1>2. CASE End(i) /\ UNCHANGED chunks
  <2>1. Still
    BY <1>2 DEF CommitChunks, Still, Inv, TypeInv, history
  <2> QED
    BY <1>2, <2>1, EndEnds, EndStep DEF Inv
<1>3. CASE Goto(i, "describe") /\ chunks' = chunks \cup {<<s, inv[i].body>>}
  <2>1. /\ x \in Invocations /\ x.pc = "describe" /\ x.spec = s /\ x.phase = inv[i].phase
        /\ x.born = inv[i].born /\ x.pickup = inv[i].pickup /\ x.body = inv[i].body
        /\ inv' = [inv EXCEPT ![i] = x]
    BY <1>1, <1>3 DEF Goto, Invocations, Labels, Scanning
  <2>2. /\ inv' \in [Slots -> Invocations] /\ inv'[i] = x
        /\ \A k \in Slots : k # i => inv'[k] = inv[k]
    BY <2>1 DEF Inv, TypeInv
  <2>3. UNCHANGED <<clock, last, active, row, nonces, ever, runs, told>>
    BY DEF CommitChunks, history
  <2>4. TypeInv'
    BY <1>1, <1>3, <2>2, <2>3 DEF Inv, TypeInv
  <2>5. StageInv'
    <3>1. Staged(i, x)
      BY <1>1, <2>1 DEF Staged, Scanning, Free
    <3> QED
      <4>1. \A k \in Slots : Staged(k, inv[k])
        BY DEF Inv, StageInv
      <4>2. ASSUME NEW k \in Slots, k # i PROVE Staged(k, inv[k])'
        <5>1. Staged(k, inv[k]) /\ inv'[k] = inv[k]
          BY <2>2, <4>1, <4>2
        <5> QED
          BY <2>3, <5>1 DEF Staged
      <4>3. Staged(i, inv[i])'
        BY <2>2, <2>3, <3>1 DEF Staged
      <4> QED
        BY <2>2, <4>2, <4>3 DEF StageInv
  <2>6. KnownInv' /\ ConsentInv' /\ ToldInv'
    BY <2>3 DEF Inv, KnownInv, ConsentInv, ToldInv
  <2>7. ScanInv'
    <3>1. \A k \in Slots : Scans(k)' => Scans(k)
      BY <1>1, <2>1, <2>2, <2>3 DEF Scans, Alive
    <3>2. \A k \in Slots \ {i} : Scans(k) => inv[k].spec # s
      BY <1>1 DEF Inv, ScanInv, Harmless, Free
    <3> QED
      BY <2>1, <2>2, <2>3, <3>1, <3>2 DEF Inv, ScanInv, Harmless
  <2>8. BodyInv'
    <3>1. \A t \in Specs : \A b \in Said : Says(t, b)' => Says(t, b)
      BY <2>1, <2>2, <2>3 DEF Says, Carries, Reporting
    <3> QED
      BY <2>3, <3>1 DEF Inv, BodyInv
  <2>9. ChunkInv'
    BY <1>3, <2>1, <2>2, <2>3 DEF Inv, ChunkInv
  <2> QED
    BY <2>4, <2>5, <2>6, <2>7, <2>8, <2>9 DEF Inv
<1> QED
  BY <1>2, <1>3 DEF CommitChunks

LEMMA CommitRowStep ==
    ASSUME Inv, NEW i \in Slots, CommitRow(i)
    PROVE  Inv'
<1> DEFINE s == inv[i].spec
           r == [inv[i].copy EXCEPT !.state = "committed", !.body = inv[i].body]
<1>1. /\ inv[i] \in Invocations /\ Staged(i, inv[i]) /\ inv[i].pc = "describe"
      /\ s \in ever /\ s \in Specs /\ inv[i].body \in Reports /\ Alive(i)
      /\ inv[i].copy \in Rows
  BY Slot DEF CommitRow, At, Free, Staged
<1>2. CASE End(i) /\ UNCHANGED row
  <2>1. Still
    BY <1>2 DEF CommitRow, Still, Inv, TypeInv, history
  <2> QED
    BY <1>2, <2>1, EndEnds, EndStep DEF Inv
<1>3. ASSUME NEW x \in Invocations, x.pc \in {"recover", "reread"}, x.phase # "scan",
             x.spec = s, x.born = inv[i].born, inv' = [inv EXCEPT ![i] = x],
             Undescribed(s), row' = [row EXCEPT ![s] = r]
      PROVE  Inv'
  <2>1. /\ inv' \in [Slots -> Invocations] /\ inv'[i] = x
        /\ \A k \in Slots : k # i => inv'[k] = inv[k]
    BY <1>3 DEF Inv, TypeInv
  <2>2. UNCHANGED <<clock, last, active, nonces, chunks, ever, runs, told>>
    BY DEF CommitRow, history
  <2>3. /\ r \in Rows /\ r.state = "committed" /\ r.body = inv[i].body
        /\ row'[s] = r /\ row[s].state = "running"
        /\ \A t \in Specs : t # s => row'[t] = row[t]
    BY <1>1, <1>3 DEF Rows, Open, Said, Undescribed, Inv, TypeInv
  <2>4. TypeInv'
    BY <1>1, <1>3, <2>1, <2>2, <2>3 DEF Inv, TypeInv
  <2>5. StageInv'
    <3>1. Staged(i, x)
      BY <1>1, <1>3 DEF Staged, Scanning, Free
    <3> QED
      BY <2>1, <2>2, <3>1 DEF Inv, StageInv, Staged
  <2>6. KnownInv'
    BY <1>1, <2>2, <2>3 DEF Inv, KnownInv, Open
  <2>7. ConsentInv' /\ ToldInv'
    BY <2>2, <2>3 DEF Inv, ConsentInv, ToldInv
  <2>8. ScanInv'
    <3>1. \A k \in Slots : Scans(k)' => Scans(k) /\ k # i
      BY <1>3, <2>1, <2>2 DEF Scans, Alive
    <3>2. \A k \in Slots \ {i} : Scans(k) => inv[k].spec # s /\ inv[k].spec \in Specs
      BY <1>1, Slot DEF Inv, ScanInv, Scans, Harmless, Free, Staged, Scanning
    <3> QED
      BY <1>3, <2>1, <2>2, <2>3, <3>1, <3>2 DEF Inv, ScanInv, Harmless
  <2>9. BodyInv'
    <3>1. \A t \in Specs : \A b \in Said :
             Says(t, b)' => Says(t, b) \/ (t = s /\ b = inv[i].body)
      BY <1>3, <2>1, <2>2, <2>3 DEF Says, Carries, Reporting
    <3>2. \A b \in Said : ~Says(s, b)
      BY <1>1, <2>3 DEF Inv, BodyInv
    <3> QED
      BY <1>1, <2>2, <2>3, <3>1, <3>2 DEF Inv, BodyInv, Staged
  <2>10. ChunkInv'
    BY <1>1, <1>3, <2>1, <2>2, <2>3 DEF Inv, ChunkInv
  <2> QED
    BY <2>4, <2>5, <2>6, <2>7, <2>8, <2>9, <2>10 DEF Inv
<1>4. CASE /\ Undescribed(s) /\ row' = [row EXCEPT ![s] = r]
           /\ inv' = [inv EXCEPT ![i].pc = "recover", ![i].phase = "final"]
  <2> DEFINE x == [inv[i] EXCEPT !.pc = "recover", !.phase = "final"]
  <2>1. /\ x \in Invocations /\ x.pc = "recover" /\ x.phase = "final" /\ x.spec = s
        /\ x.born = inv[i].born /\ inv' = [inv EXCEPT ![i] = x]
    BY <1>1, <1>4 DEF Invocations, Labels, Free
  <2> QED
    BY <1>3, <1>4, <2>1
<1>5. CASE /\ Undescribed(s) /\ row' = [row EXCEPT ![s] = r]
           /\ inv[i].phase # "scan" /\ Goto(i, "reread")
  <2> DEFINE x == [inv[i] EXCEPT !.pc = "reread"]
  <2>1. /\ x \in Invocations /\ x.pc = "reread" /\ x.phase # "scan" /\ x.spec = s
        /\ x.born = inv[i].born /\ inv' = [inv EXCEPT ![i] = x]
    BY <1>1, <1>5 DEF Goto, Invocations, Labels
  <2> QED
    BY <1>3, <1>5, <2>1
<1> QED
  BY <1>2, <1>4, <1>5 DEF CommitRow

LEMMA SendStep ==
    ASSUME Inv, NEW i \in Slots, Send(i)
    PROVE  Inv'
<1> DEFINE s == inv[i].spec
           x == [inv[i] EXCEPT !.pc = "reported"]
           b == inv[i].copy.body
<1>1. /\ inv[i] \in Invocations /\ Staged(i, inv[i]) /\ inv[i].pc = "send"
      /\ s \in ever /\ s \in Specs /\ b \in Said /\ inv[i].copy.state = "committed"
  BY Slot, RowFields DEF Send, At, Free, Staged
<1>2. /\ x \in Invocations /\ x.pc = "reported" /\ x.spec = s /\ x.phase = inv[i].phase
      /\ x.born = inv[i].born /\ x.copy = inv[i].copy /\ inv' = [inv EXCEPT ![i] = x]
  BY <1>1 DEF Send, Goto, Invocations, Labels, Reporting
<1>3. /\ inv' \in [Slots -> Invocations] /\ inv'[i] = x
      /\ \A k \in Slots : k # i => inv'[k] = inv[k]
  BY <1>2 DEF Inv, TypeInv
<1>4. /\ told'[s] = told[s] \cup {b} /\ told[s] \subseteq Said
      /\ \A t \in Specs : t # s => told'[t] = told[t]
      /\ told' \in [Specs -> SUBSET Said]
  BY <1>1 DEF Send, Inv, TypeInv
<1>5. UNCHANGED <<clock, last, active, row, nonces, chunks, ever, runs>>
  BY DEF Send, table
<1>6. Says(s, b)
  BY <1>1 DEF Says, Carries, Reporting
<1>7. told'[s] = {b} /\ b \in Reports
  BY <1>1, <1>4, <1>6 DEF Says, Inv, BodyInv
<1>8. TypeInv'
  BY <1>3, <1>4, <1>5 DEF Inv, TypeInv
<1>9. StageInv'
  <2>1. ASSUME NEW k \in Slots, k # i, inv[k].pc = "reported", inv[k].spec = s
        PROVE  told'[s] = {inv[k].copy.body}
    <3>1. inv[k].copy.body \in told[s]
      BY <2>1 DEF Inv, StageInv, Staged
    <3> QED
      BY <1>4, <1>7, <3>1
  <2>2. Staged(i, x)'
    BY <1>1, <1>2, <1>5, <1>7 DEF Staged, Free, Scanning
  <2>3. ASSUME NEW k \in Slots, k # i
        PROVE  Staged(k, inv[k])'
    <3>1. Staged(k, inv[k]) /\ (inv[k].pc \notin Free => inv[k].spec \in Specs)
      BY Slot
    <3>2. inv[k].pc = "reported" => told'[inv[k].spec] = {inv[k].copy.body}
      BY <1>4, <2>1, <2>3, <3>1 DEF Staged, Free
    <3> QED
      BY <1>3, <1>5, <2>3, <3>1, <3>2 DEF Staged
  <2> QED
    BY <1>3, <2>2, <2>3 DEF StageInv
<1>10. KnownInv' /\ ConsentInv' /\ ChunkInv'
  <2>1. KnownInv'
    BY <1>1, <1>4, <1>5 DEF Inv, KnownInv, TypeInv
  <2>2. ConsentInv'
    BY <1>5 DEF Inv, ConsentInv
  <2>3. ChunkInv'
    BY <1>2, <1>3, <1>5 DEF Inv, ChunkInv
  <2> QED
    BY <2>1, <2>2, <2>3
<1>11. ScanInv'
  <2>1. \A k \in Slots : Scans(k)' => Scans(k) /\ k # i
    BY <1>1, <1>2, <1>3, <1>5 DEF Scans, Alive, Staged, Scanning
  <2>2. \A k \in Slots \ {i} : Scans(k) => inv[k].spec # s
    BY <1>1 DEF Inv, ScanInv, Harmless, Free
  <2> QED
    BY <1>2, <1>3, <1>5, <2>1, <2>2 DEF Inv, ScanInv, Harmless
<1>12. BodyInv'
  <2>1. \A t \in Specs : \A c \in Said : Says(t, c)' => Says(t, c)
    BY <1>1, <1>2, <1>3, <1>4, <1>5, <1>6 DEF Says, Carries, Reporting
  <2> QED
    BY <1>5, <2>1 DEF Inv, BodyInv
<1>13. ToldInv'
  <2>1. row[s].state = "reported" => row[s].body = b
    BY <1>1, <1>4, <1>7 DEF Inv, ToldInv
  <2> QED
    BY <1>4, <1>5, <1>7, <2>1 DEF Inv, ToldInv
<1> QED
  BY <1>8, <1>9, <1>10, <1>11, <1>12, <1>13 DEF Inv

LEMMA SettleStep ==
    ASSUME Inv, NEW i \in Slots, Settle(i)
    PROVE  Inv'
<1> DEFINE s == inv[i].spec
           r == [inv[i].copy EXCEPT !.state = inv[i].pc, !.until = Now(i) + Retain]
<1>1. /\ inv[i] \in Invocations /\ Staged(i, inv[i]) /\ inv[i].pc \in Settled
      /\ s \in ever /\ s \in Specs /\ inv[i].copy \in Rows
  BY Slot DEF Settle, Free, Settled
<1>2. CASE End(i) /\ UNCHANGED <<last, active, row>>
  <2>1. Still
    BY <1>2 DEF Settle, Still, Inv, TypeInv, history
  <2> QED
    BY <1>2, <2>1, EndEnds, EndStep DEF Inv
<1>3. CASE /\ active = s /\ active' = None /\ last' = Larger(last, Now(i))
           /\ row' = [row EXCEPT ![s] = r] /\ AfterRecovery(i)
  <2>1. PICK x \in Invocations : /\ inv' = [inv EXCEPT ![i] = x]
                                 /\ x.pc \in {"idle", "recover", "poll"} /\ x.phase = "first"
                                 /\ x.born <= clock
    BY <1>3, AfterRecoveryEnds DEF Ends
  <2>2. /\ inv' \in [Slots -> Invocations] /\ inv'[i] = x
        /\ \A k \in Slots : k # i => inv'[k] = inv[k]
    BY <2>1 DEF Inv, TypeInv
  <2>3. UNCHANGED <<clock, nonces, chunks, ever, runs, told>> /\ last' \in Nat
    BY <1>3, NowRange DEF Settle, history, Larger, Inv, TypeInv
  <2>4. /\ r \in Rows /\ r.state = inv[i].pc /\ r.body = inv[i].copy.body
        /\ row'[s] = r
        /\ \A t \in Specs : t # s => row'[t] = row[t]
    <3>1. Now(i) + Retain \in Nat
      BY NowRange, TimingAssumption DEF Inv, TypeInv
    <3> QED
      BY <1>1, <1>3, <3>1 DEF Rows, Inv, TypeInv
  <2>5. TypeInv'
    BY <1>1, <1>3, <2>2, <2>3, <2>4 DEF Inv, TypeInv
  <2>6. StageInv'
    <3>1. Staged(i, x)
      BY <2>1 DEF Staged, Free
    <3> QED
      <4>1. \A k \in Slots : Staged(k, inv[k])
        BY DEF Inv, StageInv
      <4>2. ASSUME NEW k \in Slots, k # i PROVE Staged(k, inv[k])'
        <5>1. Staged(k, inv[k]) /\ inv'[k] = inv[k]
          BY <2>2, <4>1, <4>2
        <5> QED
          BY <2>3, <5>1 DEF Staged
      <4>3. Staged(i, inv[i])'
        BY <2>2, <2>3, <3>1 DEF Staged
      <4> QED
        BY <2>2, <4>2, <4>3 DEF StageInv
  <2>7. KnownInv'
    BY <1>1, <1>3, <2>3, <2>4 DEF Inv, KnownInv, Open, Settled
  <2>8. ConsentInv'
    BY <2>3 DEF Inv, ConsentInv
  <2>9. ScanInv'
    <3>1. \A k \in Slots : Scans(k)' => Scans(k) /\ k # i
      BY <2>1, <2>2, <2>3 DEF Scans, Alive
    <3>2. \A k \in Slots \ {i} : Scans(k) => inv[k].spec # s /\ inv[k].spec \in Specs
      BY <1>1, Slot DEF Inv, ScanInv, Scans, Harmless, Free, Settled, Staged, Scanning
    <3> QED
      BY <2>1, <2>2, <2>3, <2>4, <3>1, <3>2 DEF Inv, ScanInv, Harmless, Free
  <2>10. BodyInv'
    <3>1. \A t \in Specs : \A b \in Said : Says(t, b)' => Says(t, b)
      BY <1>1, <2>1, <2>2, <2>3, <2>4 DEF Says, Carries, Reporting, Settled
    <3> QED
      BY <1>1, <2>3, <2>4, <3>1 DEF Inv, BodyInv, Settled
  <2>11. ChunkInv'
    <3>1. \A k \in Slots : inv[k].pc = "describe" => inv[k].spec \in Specs
      BY Slot DEF Free
    <3> QED
      <4>1. \A t \in Specs : row'[t].state = "committed" => <<t, row'[t].body>> \in chunks'
        BY <1>1, <2>3, <2>4 DEF Inv, ChunkInv, Settled
      <4>2. ASSUME NEW k \in Slots, inv'[k].pc = "describe", row'[inv'[k].spec].state = "running"
            PROVE  <<inv'[k].spec, inv'[k].body>> \in chunks'
        <5>1. k # i /\ inv'[k] = inv[k] /\ inv[k].spec \in Specs
          BY <2>1, <2>2, <3>1, <4>2
        <5>2. row[inv[k].spec].state = "running"
          BY <1>1, <2>4, <4>2, <5>1 DEF Settled
        <5> QED
          BY <2>3, <4>2, <5>1, <5>2 DEF Inv, ChunkInv
      <4> QED
        BY <4>1, <4>2 DEF ChunkInv
  <2>12. ToldInv'
    <3>1. inv[i].pc = "reported" => told[s] = {inv[i].copy.body}
      BY <1>1 DEF Staged
    <3>2. \A t \in Specs : row[t].state = "reported" => told[t] = {row[t].body}
      BY DEF Inv, ToldInv
    <3>3. told'[s] = told[s] /\ (row'[s].state = "reported" => told[s] = {row'[s].body})
      BY <2>3, <2>4, <3>1
    <3>4. \A t \in Specs : t # s => row'[t] = row[t] /\ told'[t] = told[t]
      BY <2>3, <2>4
    <3> QED
      BY <3>2, <3>3, <3>4 DEF ToldInv
  <2> QED
    BY <2>5, <2>6, <2>7, <2>8, <2>9, <2>10, <2>11, <2>12 DEF Inv
<1> QED
  BY <1>2, <1>3 DEF Settle, Holds

\* A consent whose row has expired is named by no spec that is still fresh.
LEMMA FreshConsent ==
    ASSUME Inv, NEW i \in Slots, NEW s \in Specs, VerifyWork(s, Now(i)), nonces[AuthOf[s]] = 0
    PROVE  \A t \in ever : AuthOf[t] # AuthOf[s]
<1> SUFFICES ASSUME NEW t \in ever, AuthOf[t] = AuthOf[s]
             PROVE  FALSE
  OBVIOUS
<1>1. t \in Specs /\ clock \in Nat
  BY DEF Inv, TypeInv
<1>2. /\ IssuedAt[s] + Life + Behind[i] <= IssuedAt[t] + Retain
      /\ IssuedAt[s] \in Nat /\ IssuedAt[t] \in Nat /\ Life \in Nat /\ Retain \in Nat
      /\ Behind[i] \in Nat
  BY <1>1, TimingAssumption
<1>3. clock <= Now(i) + Behind[i] /\ Now(i) \in Nat /\ Now(i) <= IssuedAt[s] + Life
  BY <1>1, NowRange DEF VerifyWork
<1>4. nonces[AuthOf[t]] = 0
  OBVIOUS
<1>5. clock > IssuedAt[t] + Retain
  BY <1>2, <1>4, TimingAssumption DEF Inv, ConsentInv
<1> QED
  BY <1>1, <1>2, <1>3, <1>5

LEMMA AdmittedStep ==
    ASSUME Inv, NEW i \in Slots, NEW s \in Specs, s = inv[i].spec,
           inv[i].pc = "admit", VerifyWork(s, Now(i)), MayAdmit(s, Now(i)),
           Admitted(i, s, Now(i)),
           NEW x \in Invocations, inv' = [inv EXCEPT ![i] = x], x.born <= clock,
           \/ x.pc = "idle" /\ x.phase = "first"
           \/ /\ x.pc = "record" /\ x.phase = "scan"
              /\ x.spec = s /\ x.pickup = inv[i].pickup /\ x.born = inv[i].born,
           UNCHANGED <<clock, chunks, runs, told>>
    PROVE  Inv'
<1> DEFINE now == Now(i)
<1>1. /\ inv[i] \in Invocations /\ Staged(i, inv[i]) /\ inv[i].pickup \in Nat
      /\ now \in Nat /\ s # None /\ IssuedAt[s] <= now /\ AuthOf[s] \in Auths
  BY Slot, NowRange DEF Inv, TypeInv, VerifyWork, Auths
<1>2. /\ inv' \in [Slots -> Invocations] /\ inv'[i] = x
      /\ \A k \in Slots : k # i => inv'[k] = inv[k]
  BY DEF Inv, TypeInv
<1>3. \A t \in ever : t # s /\ AuthOf[t] # AuthOf[s]
  BY FreshConsent DEF MayAdmit
<1>4. /\ row' \in [Specs -> Rows] /\ row'[s].state = "running" /\ row'[s].pickup = inv[i].pickup
      /\ \A t \in Specs : t # s => row'[t] = row[t]
  BY <1>1 DEF Admitted, Rows, Said, Open, Inv, TypeInv
<1>5. /\ nonces' \in [Auths -> Nat] /\ nonces'[AuthOf[s]] = now + Retain
      /\ \A a \in Auths : a # AuthOf[s] => nonces'[a] = nonces[a]
  BY <1>1, TimingAssumption DEF Admitted, Inv, TypeInv
<1>6. active' = s /\ ever' = ever \cup {s} /\ last' \in Nat /\ active = None
  BY <1>1 DEF Admitted, MayAdmit, Larger, Inv, TypeInv
<1>7. TypeInv'
  BY <1>2, <1>4, <1>5, <1>6 DEF Inv, TypeInv
<1>8. StageInv'
  <2>1. Staged(i, x)'
    BY <1>6 DEF Staged, Free, Scanning
  <2>2. \A k \in Slots : k # i => Staged(k, inv[k])'
    BY <1>2, <1>6 DEF Inv, StageInv, Staged
  <2> QED
    BY <1>2, <2>1, <2>2 DEF StageInv
<1>9. KnownInv'
  BY <1>1, <1>3, <1>4, <1>6 DEF Inv, KnownInv, Open
<1>10. ConsentInv'
  <2>1. ASSUME NEW t \in ever
        PROVE  \/ nonces'[AuthOf[t]] >= IssuedAt[t] + Retain
               \/ nonces'[AuthOf[t]] = 0 /\ clock > IssuedAt[t] + Retain
    <3>1. AuthOf[t] # AuthOf[s] /\ AuthOf[t] \in Auths
      BY <1>3 DEF Auths, Inv, TypeInv
    <3> QED
      BY <1>5, <3>1 DEF Inv, ConsentInv
  <2>2. nonces'[AuthOf[s]] >= IssuedAt[s] + Retain
    BY <1>1, <1>5, TimingAssumption
  <2> QED
    BY <1>6, <2>1, <2>2 DEF ConsentInv
<1>11. ScanInv'
  <2>1. ASSUME NEW k \in Slots, k # i, Scans(k)'
        PROVE  /\ Scans(k) /\ inv[k].spec # s /\ inv[k].spec \in Specs
               /\ Harmless(x, inv[k].spec)
    <3>1. Scans(k)
      BY <1>2, <2>1 DEF Scans, Alive
    <3>2. inv[k].spec \in ever
      BY <3>1, Slot DEF Scans, Staged, Scanning, Free
    <3> QED
      BY <1>3, <3>1, <3>2 DEF Harmless, Free, Inv, TypeInv
  <2>2. ASSUME Scans(i)'
        PROVE  /\ row'[x.spec].state = "running"
               /\ row'[x.spec].pickup = x.pickup
               /\ x.born <= x.pickup + Behind[i]
               /\ runs[x.spec] = 0
               /\ \A j \in Slots \ {i} : Harmless(inv'[j], x.spec)
    <3>1. x.spec = s /\ x.pickup = inv[i].pickup /\ x.born = inv[i].born
      BY <1>2, <2>2 DEF Scans
    <3>2. s \notin ever
      BY <1>3
    <3>3. \A j \in Slots : inv[j].spec = s => inv[j].pc \in Free
      BY <3>2, Slot
    <3> QED
      BY <1>1, <1>2, <1>4, <3>1, <3>2, <3>3 DEF Inv, KnownInv, Staged, Harmless
  <2> QED
    BY <1>2, <1>4, <2>1, <2>2 DEF Inv, ScanInv, Harmless
<1>12. BodyInv'
  <2>1. s \notin ever
    BY <1>3
  <2>2. \A b \in Said : ~Says(s, b)
    BY <2>1 DEF Inv, BodyInv
  <2>3. \A t \in Specs : \A b \in Said : Says(t, b)' => Says(t, b)
    BY <1>2, <1>4 DEF Says, Carries, Reporting
  <2> QED
    BY <1>4, <1>6, <2>2, <2>3 DEF Inv, BodyInv
<1>13. ChunkInv'
  <2>1. \A k \in Slots : inv[k].pc = "describe" => inv[k].spec \in ever /\ inv[k].spec \in Specs
    BY Slot DEF Free
  <2>2. x.pc # "describe"
    OBVIOUS
  <2> QED
    BY <1>2, <1>3, <1>4, <2>1, <2>2 DEF Inv, ChunkInv
<1>14. ToldInv'
  BY <1>4 DEF Inv, ToldInv
<1> QED
  BY <1>7, <1>8, <1>9, <1>10, <1>11, <1>12, <1>13, <1>14 DEF Inv

LEMMA AdmitStep ==
    ASSUME Inv, NEW i \in Slots, Admit(i)
    PROVE  Inv'
<1> DEFINE s == inv[i].spec
           x == [inv[i] EXCEPT !.pc = "record", !.phase = "scan"]
<1>1. /\ inv[i] \in Invocations /\ Staged(i, inv[i]) /\ inv[i].pc = "admit"
      /\ s \in Specs /\ inv[i].born <= clock
  BY Slot DEF Admit, At, Staged
<1>2. CASE End(i) /\ UNCHANGED <<last, active, row, nonces, daily, ever>>
  <2>1. Still
    BY <1>2 DEF Admit, Still, Inv, TypeInv
  <2> QED
    BY <1>2, <2>1, EndEnds, EndStep DEF Inv
<1>3. CASE /\ VerifyWork(s, Now(i)) /\ MayAdmit(s, Now(i)) /\ Admitted(i, s, Now(i))
           /\ inv' = [inv EXCEPT ![i].pc = "record", ![i].phase = "scan"]
  <2>1. /\ x \in Invocations /\ x.pc = "record" /\ x.phase = "scan"
        /\ x.spec = s /\ x.pickup = inv[i].pickup /\ x.born = inv[i].born
        /\ inv' = [inv EXCEPT ![i] = x]
    BY <1>1, <1>3 DEF Invocations, Labels, Scanning
  <2>2. UNCHANGED <<clock, chunks, runs, told>>
    BY DEF Admit
  <2> QED
    BY <1>1, <1>3, <2>1, <2>2, AdmittedStep
<1> QED
  BY <1>2, <1>3 DEF Admit

LEMMA AdmitUnansweredStep ==
    ASSUME Inv, NEW i \in Slots, AdmitUnanswered(i)
    PROVE  Inv'
<1>1. /\ inv[i].pc = "admit" /\ inv[i].spec \in Specs
      /\ Idle \in Invocations /\ Idle.pc = "idle" /\ Idle.phase = "first" /\ Idle.born <= clock
  BY Slot, IdleFields DEF AdmitUnanswered, At, Staged, Inv, TypeInv
<1>2. /\ inv' = [inv EXCEPT ![i] = Idle] /\ UNCHANGED <<clock, chunks, runs, told>>
      /\ VerifyWork(inv[i].spec, Now(i)) /\ MayAdmit(inv[i].spec, Now(i))
      /\ Admitted(i, inv[i].spec, Now(i))
  BY DEF AdmitUnanswered, End
<1> QED
  BY <1>1, <1>2, AdmittedStep

\* The source is read by the only scan there is, for the first time.
LEMMA ReadsOnce ==
    ASSUME Inv, NEW i \in Slots, Read(i)
    PROVE  /\ inv[i].spec \in ever /\ inv[i].spec \in Specs
           /\ runs[inv[i].spec] = 0
           /\ row[inv[i].spec].state = "running"
           /\ \A b \in Said : ~Says(inv[i].spec, b)
           /\ \A j \in Slots \ {i} : Harmless(inv[j], inv[i].spec)
<1>1. inv[i].pc = "read" /\ Alive(i) /\ inv[i].phase = "scan"
      /\ inv[i].spec \in ever /\ inv[i].spec \in Specs
  BY Slot DEF Read, At, Staged, Free
<1> QED
  BY <1>1 DEF Inv, ScanInv, Scans, BodyInv

LEMMA ReadStep ==
    ASSUME Inv, NEW i \in Slots, Read(i)
    PROVE  Inv'
<1> DEFINE s == inv[i].spec
<1>1. /\ s \in ever /\ s \in Specs /\ runs[s] = 0 /\ row[s].state = "running"
      /\ \A b \in Said : ~Says(s, b)
      /\ \A j \in Slots \ {i} : Harmless(inv[j], s)
  BY ReadsOnce
<1>2. inv[i] \in Invocations /\ Staged(i, inv[i]) /\ inv[i].pc = "read"
  BY Slot DEF Read, At
<1>3. PICK b \in Reports : inv' = [inv EXCEPT ![i].pc = "chunks", ![i].body = b]
  BY DEF Read, Reports
<1> DEFINE x == [inv[i] EXCEPT !.pc = "chunks", !.body = b]
<1>4. /\ x \in Invocations /\ x.pc = "chunks" /\ x.body = b /\ x.spec = s
      /\ x.phase = inv[i].phase /\ x.born = inv[i].born /\ x.pickup = inv[i].pickup
      /\ inv' = [inv EXCEPT ![i] = x]
  BY <1>2, <1>3 DEF Invocations, Labels, Scanning, Said
<1>5. /\ inv' \in [Slots -> Invocations] /\ inv'[i] = x
      /\ \A k \in Slots : k # i => inv'[k] = inv[k]
  BY <1>4 DEF Inv, TypeInv
<1>6. /\ runs' \in [Specs -> Nat] /\ runs'[s] = 1
      /\ \A t \in Specs : t # s => runs'[t] = runs[t]
  BY <1>1 DEF Read, Inv, TypeInv
<1>7. UNCHANGED <<clock, last, active, row, nonces, chunks, ever, told>>
  BY DEF Read, table
<1>8. TypeInv'
  BY <1>5, <1>6, <1>7 DEF Inv, TypeInv
<1>9. StageInv'
  <2>1. Staged(i, x)'
    BY <1>2, <1>4, <1>6, <1>7 DEF Staged, Free, Scanning
  <2>2. ASSUME NEW k \in Slots, k # i
        PROVE  Staged(k, inv[k])'
    <3>1. Staged(k, inv[k]) /\ (inv[k].pc \notin Free => inv[k].spec \in Specs)
      BY Slot
    <3>2. inv[k].pc \in {"chunks", "describe"} => inv[k].spec # s /\ inv[k].spec \in Specs
      BY <1>1, <2>2, <3>1 DEF Harmless, Free
    <3> QED
      BY <1>5, <1>6, <1>7, <2>2, <3>1, <3>2 DEF Staged
  <2> QED
    BY <1>5, <2>1, <2>2 DEF StageInv
<1>10. KnownInv'
  BY <1>1, <1>6, <1>7 DEF Inv, KnownInv, TypeInv
<1>11. ConsentInv' /\ ToldInv'
  BY <1>7 DEF Inv, ConsentInv, ToldInv
<1>12. ScanInv'
  <2>1. \A k \in Slots : Scans(k)' => Scans(k)
    BY <1>2, <1>4, <1>5, <1>7 DEF Scans, Alive
  <2>2. \A k \in Slots \ {i} : Scans(k) => inv[k].spec # s /\ inv[k].spec \in Specs
    BY <1>1, Slot DEF Scans, Staged, Scanning, Harmless, Free
  <2> QED
    BY <1>4, <1>5, <1>6, <1>7, <2>1, <2>2 DEF Inv, ScanInv, Harmless
<1>13. BodyInv'
  <2>1. \A t \in Specs : \A c \in Said : Says(t, c)' => Says(t, c)
    BY <1>4, <1>5, <1>7 DEF Says, Carries, Reporting
  <2> QED
    BY <1>1, <1>6, <1>7, <2>1 DEF Inv, BodyInv
<1>14. ChunkInv'
  BY <1>4, <1>5, <1>7 DEF Inv, ChunkInv
<1> QED
  BY <1>8, <1>9, <1>10, <1>11, <1>12, <1>13, <1>14 DEF Inv

-----------------------------------------------------------------------------
(* The table and the clock *)

LEMMA StopStep ==
    ASSUME Inv, NEW i \in Slots, Timeout(i) \/ Die(i)
    PROVE  Inv'
<1>1. Still /\ End(i)
  BY DEF Timeout, Die, Still, Inv, TypeInv, table, history
<1> QED
  BY <1>1, EndEnds, EndStep DEF Inv

LEMMA ExpireNonceStep ==
    ASSUME Inv, NEW a \in Auths, ExpireNonce(a)
    PROVE  Inv'
<1>1. UNCHANGED <<clock, last, active, row, chunks, inv, ever, runs, told>>
  BY DEF ExpireNonce, history
<1>2. /\ nonces' \in [Auths -> Nat] /\ nonces'[a] = 0
      /\ \A c \in Auths : c # a => nonces'[c] = nonces[c]
      /\ 0 < nonces[a] /\ nonces[a] < clock /\ nonces[a] \in Nat /\ clock \in Nat
  BY DEF ExpireNonce, Inv, TypeInv
<1>3. TypeInv'
  BY <1>1, <1>2 DEF Inv, TypeInv
<1>4. ConsentInv'
  <2> SUFFICES ASSUME NEW t \in ever
               PROVE  \/ nonces'[AuthOf[t]] >= IssuedAt[t] + Retain
                      \/ nonces'[AuthOf[t]] = 0 /\ clock > IssuedAt[t] + Retain
    BY <1>1 DEF ConsentInv
  <2>1. /\ \/ nonces[AuthOf[t]] >= IssuedAt[t] + Retain
           \/ nonces[AuthOf[t]] = 0 /\ clock > IssuedAt[t] + Retain
        /\ AuthOf[t] \in Auths /\ IssuedAt[t] + Retain \in Nat
    BY TimingAssumption DEF Inv, TypeInv, ConsentInv, Auths
  <2> QED
    BY <1>2, <2>1
<1>5. StageInv' /\ KnownInv' /\ ToldInv' /\ ChunkInv'
  BY <1>1 DEF Inv, StageInv, Staged, KnownInv, ToldInv, ChunkInv
<1>6. ScanInv'
  BY <1>1 DEF Inv, ScanInv, Scans, Alive
<1>7. BodyInv'
  BY <1>1 DEF Inv, BodyInv, Says
<1> QED
  BY <1>3, <1>4, <1>5, <1>6, <1>7 DEF Inv

LEMMA ExpireRowStep ==
    ASSUME Inv, NEW s \in Specs, ExpireRow(s)
    PROVE  Inv'
<1>1. UNCHANGED <<clock, last, active, nonces, inv, ever, runs, told>>
  BY DEF ExpireRow, history
<1>2. /\ row' \in [Specs -> Rows] /\ row'[s].state = "absent" /\ row[s].state = "reported"
      /\ \A t \in Specs : t # s => row'[t] = row[t]
  BY AbsentRow DEF ExpireRow, HasExpiry, Inv, TypeInv
<1>3. /\ chunks' \subseteq chunks
      /\ \A c \in chunks : c[1] # s => c \in chunks'
  BY DEF ExpireRow
<1>4. \A k \in Slots : inv[k].pc \notin Free => inv[k].spec \in Specs
  BY Slot
<1>5. TypeInv'
  BY <1>1, <1>2, <1>3 DEF Inv, TypeInv
<1>6. StageInv' /\ ConsentInv'
  BY <1>1 DEF Inv, StageInv, Staged, ConsentInv
<1>7. KnownInv' /\ ToldInv'
  BY <1>1, <1>2 DEF Inv, KnownInv, ToldInv, Open
<1>8. ChunkInv'
  BY <1>1, <1>2, <1>3, <1>4 DEF Inv, ChunkInv, Free
<1>9. ScanInv'
  <2>1. \A k \in Slots : Scans(k) => inv[k].spec # s /\ inv[k].spec \in Specs
    BY <1>2, Slot DEF Inv, ScanInv, Scans, Staged, Scanning, Free
  <2> QED
    BY <1>1, <1>2, <2>1 DEF Inv, ScanInv, Scans, Alive
<1>10. BodyInv'
  <2>1. \A t \in Specs : \A b \in Said : Says(t, b)' => Says(t, b)
    BY <1>1, <1>2 DEF Says
  <2> QED
    BY <1>1, <1>2, <2>1 DEF Inv, BodyInv
<1> QED
  BY <1>5, <1>6, <1>7, <1>8, <1>9, <1>10 DEF Inv

LEMMA TickStep ==
    ASSUME Inv, Tick
    PROVE  Inv'
<1>1. clock' = clock + 1 /\ UNCHANGED <<last, active, row, nonces, chunks, inv, ever, runs, told>>
  BY DEF Tick, table, history
<1>2. clock \in Nat /\ inv \in [Slots -> Invocations] /\ Kill \in Nat
  BY TimingAssumption DEF Inv, TypeInv
<1>3. \A k \in Slots : inv[k].born \in Nat /\ Staged(k, inv[k])
  BY Slot
<1>4. TypeInv'
  BY <1>1, <1>2 DEF Inv, TypeInv
<1>5. StageInv'
  <2> SUFFICES ASSUME NEW k \in Slots
               PROVE  Staged(k, inv[k])'
    BY DEF StageInv
  <2>1. inv[k].born <= clock + 1
    BY <1>2, <1>3 DEF Staged
  <2> QED
    BY <1>1, <1>3, <2>1 DEF Staged
<1>6. ConsentInv'
  <2> SUFFICES ASSUME NEW t \in ever
               PROVE  \/ nonces[AuthOf[t]] >= IssuedAt[t] + Retain
                      \/ nonces[AuthOf[t]] = 0 /\ clock + 1 > IssuedAt[t] + Retain
    BY <1>1 DEF ConsentInv
  <2>1. IssuedAt[t] + Retain \in Nat
    BY TimingAssumption DEF Inv, TypeInv
  <2> QED
    BY <1>2, <2>1 DEF Inv, ConsentInv
<1>7. KnownInv' /\ ToldInv' /\ ChunkInv'
  BY <1>1 DEF Inv, KnownInv, ToldInv, ChunkInv
<1>8. ScanInv'
  <2>1. \A k \in Slots : Scans(k)' => Scans(k)
    BY <1>1, <1>2, <1>3 DEF Scans, Alive
  <2> QED
    BY <1>1, <2>1 DEF Inv, ScanInv
<1>9. BodyInv'
  BY <1>1 DEF Inv, BodyInv, Says
<1> QED
  BY <1>4, <1>5, <1>6, <1>7, <1>8, <1>9 DEF Inv

LEMMA Stutter ==
    ASSUME Inv, UNCHANGED vars
    PROVE  Inv'
<1>1. UNCHANGED <<clock, last, active, row, nonces, chunks, inv, ever, runs, told>>
  BY DEF vars, table, history
<1>2. TypeInv' /\ StageInv' /\ KnownInv' /\ ConsentInv' /\ ToldInv' /\ ChunkInv'
  BY <1>1 DEF Inv, TypeInv, StageInv, Staged, KnownInv, ConsentInv, ToldInv, ChunkInv
<1>3. ScanInv'
  BY <1>1 DEF Inv, ScanInv, Scans, Alive
<1>4. BodyInv'
  BY <1>1 DEF Inv, BodyInv, Says
<1> QED
  BY <1>2, <1>3, <1>4 DEF Inv

-----------------------------------------------------------------------------
(* The theorems *)

\* The inductive invariant holds from the start and is kept by every step of an
\* invocation, of the platform, of the table and of time (handler.go: Invoke).
THEOREM VerifierInvariant == Spec => []Inv
<1>1. Init => Inv
  <2> SUFFICES ASSUME Init
               PROVE  Inv
    OBVIOUS
  <2>1. \A i \in Slots : inv[i] = Idle
    BY DEF Init
  <2>2. \A s \in Specs : row[s] = Absent /\ row[s].state = "absent"
    BY AbsentRow DEF Init
  <2>3. TypeInv
    BY AbsentRow, IdleFields DEF Init, TypeInv
  <2>4. StageInv
    BY <2>1, IdleFields DEF Init, StageInv, Staged, Free
  <2>5. KnownInv /\ ConsentInv /\ ToldInv
    BY <2>2 DEF Init, KnownInv, ConsentInv, ToldInv, Open
  <2>6. ScanInv
    BY <2>1, IdleFields DEF ScanInv, Scans
  <2>7. BodyInv
    BY <2>1, <2>2, IdleFields DEF Init, BodyInv, Says, Carries, Reporting
  <2>8. ChunkInv
    BY <2>1, <2>2, IdleFields DEF ChunkInv
  <2> QED
    BY <2>3, <2>4, <2>5, <2>6, <2>7, <2>8 DEF Inv
<1>2. Inv /\ [Next]_vars => Inv'
  <2> SUFFICES ASSUME Inv, [Next]_vars
               PROVE  Inv'
    OBVIOUS
  <2>1. ASSUME NEW i \in Slots, Start(i) PROVE Inv'
    BY <2>1, StartStep
  <2>2. ASSUME NEW i \in Slots, Work(i) PROVE Inv'
    BY <2>2, FindActiveStep, DecideStep, CommitChunksStep, CommitRowStep, RereadStep, LoadStep,
       SendStep, SettleStep, PollStep, AdmitStep, RecordStep, ReadStep DEF Work
  <2>3. ASSUME NEW i \in Slots, AdmitUnanswered(i) PROVE Inv'
    BY <2>3, AdmitUnansweredStep
  <2>4. ASSUME NEW i \in Slots, Timeout(i) \/ Die(i) PROVE Inv'
    BY <2>4, StopStep
  <2>5. ASSUME NEW a \in Auths, ExpireNonce(a) PROVE Inv'
    BY <2>5, ExpireNonceStep
  <2>6. ASSUME NEW s \in Specs, ExpireRow(s) PROVE Inv'
    BY <2>6, ExpireRowStep
  <2> QED
    BY <2>1, <2>2, <2>3, <2>4, <2>5, <2>6, TickStep, Stutter DEF Next
<1> QED
  BY <1>1, <1>2, PTL DEF Spec

\* The clock row names every unsettled spec, a committed one has its chunks,
\* and one settled as reported was accepted by ai.market as committed
\* (ledger.go: Admit, Commit, Settle).
THEOREM NothingIsForgotten == Spec => []NothingForgotten
<1>1. Inv => NothingForgotten
  BY DEF Inv, KnownInv, ChunkInv, ToldInv, NothingForgotten
<1> QED
  BY <1>1, VerifierInvariant, PTL

LEMMA AdmitsOnce ==
    ASSUME Inv, NEW i \in Slots, Admit(i) \/ AdmitUnanswered(i)
    PROVE  [Contract!Next]_(Contract!vars)
<1> DEFINE s == inv[i].spec
<1>1. s \in Specs
  BY Slot DEF Admit, AdmitUnanswered, At, Staged
<1>2. UNCHANGED <<runs, told>>
  BY DEF Admit, AdmitUnanswered
<1>3. CASE UNCHANGED ever
  BY <1>2, <1>3 DEF Contract!vars
<1>4. CASE VerifyWork(s, Now(i)) /\ MayAdmit(s, Now(i)) /\ Admitted(i, s, Now(i))
  <2>1. \A t \in ever : AuthOf[t] # AuthOf[s]
    BY <1>1, <1>4, FreshConsent DEF MayAdmit
  <2>2. Contract!Admit(s)
    BY <1>2, <1>4, <2>1 DEF Contract!Admit, Admitted
  <2> QED
    BY <1>1, <2>2 DEF Contract!Next
<1> QED
  BY <1>3, <1>4 DEF Admit, AdmitUnanswered

LEMMA ReadIsContract ==
    ASSUME Inv, NEW i \in Slots, Read(i)
    PROVE  [Contract!Next]_(Contract!vars)
<1> DEFINE s == inv[i].spec
<1>1. /\ s \in ever /\ s \in Specs /\ runs[s] = 0
      /\ \A b \in Said : ~Says(s, b)
  BY ReadsOnce
<1>2. told[s] = {}
  BY <1>1 DEF Says, Inv, TypeInv
<1>3. UNCHANGED <<ever, told>> /\ runs' = [runs EXCEPT ![s] = 1]
  BY <1>1 DEF Read, Inv, TypeInv
<1>4. Contract!Read(s)
  BY <1>1, <1>2, <1>3 DEF Contract!Read
<1> QED
  BY <1>1, <1>4 DEF Contract!Next

LEMMA SendIsContract ==
    ASSUME Inv, NEW i \in Slots, Send(i)
    PROVE  [Contract!Next]_(Contract!vars)
<1> DEFINE s == inv[i].spec
           b == inv[i].copy.body
<1>1. /\ inv[i].pc = "send" /\ Staged(i, inv[i]) /\ b \in Said
      /\ s \in ever /\ s \in Specs
  BY Slot, RowFields DEF Send, At, Free
<1>2. Says(s, b)
  BY <1>1 DEF Says, Carries, Reporting, Staged
<1>3. /\ b \in Reports /\ (b = "result" => runs[s] = 1)
      /\ \A c \in told[s] : c = b
  BY <1>1, <1>2 DEF Inv, TypeInv, BodyInv, Says
<1>4. UNCHANGED <<ever, runs>> /\ told' = [told EXCEPT ![s] = @ \cup {b}]
  BY DEF Send
<1>5. CASE told[s] = {}
  <2>1. told' = [told EXCEPT ![s] = {b}]
    BY <1>4, <1>5
  <2>2. Contract!Tell(s, b)
    BY <1>1, <1>3, <1>4, <1>5, <2>1 DEF Contract!Tell
  <2> QED
    BY <1>1, <1>3, <2>2 DEF Contract!Next, Reports
<1>6. CASE told[s] # {}
  <2>1. told[s] \cup {b} = told[s]
    BY <1>3, <1>6
  <2>2. told' = told
    BY <1>1, <1>4, <2>1 DEF Inv, TypeInv
  <2> QED
    BY <1>4, <2>2 DEF Contract!vars
<1> QED
  BY <1>5, <1>6

\* Whatever overlaps, dies or is answered late, the AWS verifier admits a spec
\* under a consent that admitted none before, reads its source once, and one
\* report of it is accepted (handler.go: Invoke, recover; ledger.go: Admit,
\* Commit, Settle).
THEOREM AwsKeepsContract == Spec => KeepsContract
<1>1. Init => Contract!Init
  BY DEF Init, Contract!Init
<1>2. Inv /\ [Next]_vars => [Contract!Next]_(Contract!vars)
  <2> SUFFICES ASSUME Inv, [Next]_vars
               PROVE  [Contract!Next]_(Contract!vars)
    OBVIOUS
  <2>1. ASSUME NEW i \in Slots, Start(i) \/ Timeout(i) \/ Die(i)
        PROVE  UNCHANGED Contract!vars
    BY <2>1 DEF Start, Timeout, Die, history, Contract!vars
  <2>2. ASSUME NEW i \in Slots, Work(i)
        PROVE  [Contract!Next]_(Contract!vars)
    <3>1. CASE \/ FindActive(i) \/ Decide(i) \/ CommitChunks(i) \/ CommitRow(i) \/ Reread(i)
               \/ Load(i) \/ Settle(i) \/ Poll(i) \/ Record(i)
      BY <3>1 DEF FindActive, Decide, CommitChunks, CommitRow, Reread, Load, Settle, Poll,
         Record, history, Contract!vars
    <3> QED
      BY <2>2, <3>1, AdmitsOnce, ReadIsContract, SendIsContract DEF Work
  <2>3. ASSUME NEW i \in Slots, AdmitUnanswered(i)
        PROVE  [Contract!Next]_(Contract!vars)
    BY <2>3, AdmitsOnce
  <2>4. CASE \/ \E a \in Auths : ExpireNonce(a)
             \/ \E s \in Specs : ExpireRow(s)
             \/ Tick
             \/ UNCHANGED vars
    BY <2>4 DEF ExpireNonce, ExpireRow, Tick, vars, history, Contract!vars
  <2> QED
    BY <2>1, <2>2, <2>3, <2>4 DEF Next
<1> QED
  BY <1>1, <1>2, VerifierInvariant, PTL DEF Spec, KeepsContract, Contract!Spec

(***************************************************************************)
(* The AWS verifier beside the other one                                   *)
(***************************************************************************)

LEMMA KindStays == [VerifiersNext]_all => kind' = kind
BY DEF VerifiersNext, Aws, all

LEMMA AwsRuns ==
    /\ VerifiersInit /\ kind = "aws" => Init
    /\ kind = "aws" /\ [VerifiersNext]_all => [Next]_vars
BY DEF VerifiersInit, VerifiersNext, Aws, all

\* NothingIsForgotten in a behaviour of Verifiers that is one of AwsVerifier:
\* ledger.go: Admit, Commit, Settle; handler.go: recover.
THEOREM AwsVerifierForgetsNothing == VerifiersSpec => []AwsForgetsNothing
<1>1. VerifiersInit /\ kind = "aws" => Init
  BY AwsRuns
<1>2. kind = "aws" /\ [VerifiersNext]_all => [Next]_vars /\ (kind = "aws")'
  BY AwsRuns, KindStays
<1>3. ~(kind = "aws") /\ [VerifiersNext]_all => ~(kind = "aws")'
  BY KindStays
<1>4. AwsForgetsNothing <=> (kind = "aws" => NothingForgotten)
  BY DEF AwsForgetsNothing
<1> QED
  BY <1>1, <1>2, <1>3, <1>4, NothingIsForgotten, PTL DEF VerifiersSpec, Spec
=============================================================================
