------------------------- MODULE ControlChannelProofs -------------------------
(***************************************************************************)
(* Safety of ControlChannel for every set of instructions, operations and  *)
(* keys, every capacity of a lane and every number of faults.              *)
(***************************************************************************)
EXTENDS ControlChannel, TLAPS

PinKeys == Classes \cup {"expires", "version"}
PinsOK(p) == p = [k \in PinKeys |-> p[k]]

Bodies == {"ready", "refused", "description", "error"} \cup PermStates
PCs    == {"idle", "scan", "handle", "effect", "lock", "append", "complete"}
Jobs   == [pc : PCs, iid : Iid \cup {None}, class : Classes \cup {None},
           body : Bodies \cup {None}]
Described == {i \in Iid : Op[i] = "describe"}
Offers == [state : {"none", "offered", "withdrawn"}, iid : Iid \cup {None}, approved : BOOLEAN]

Busy(w) == worker[w].pc \notin {"idle", "scan"}

TypeInv ==
    /\ seen \subseteq Iid
    /\ offer \in Offers
    /\ perm \in PermStates /\ revoked \in BOOLEAN
    /\ stored \in [Iid -> PermStates \cup {None}]
    /\ PinsOK(pins) /\ PinsOK(disk)
    /\ log \subseteq [iid : Iid, body : Bodies]
    /\ lane = [l \in Lanes |-> lane[l]]
    /\ lane["jobs"] \in Seq(Iid \cup {Scan})
    /\ lane["descriptions"] \in Seq(Described)
    /\ worker \in [Workers -> Jobs]

\* The pins that a rotation or minimum version asked for are in p.
PinFacts(i, p) ==
    /\ Op[i] = "key_rotation" => Keys[i] \subseteq Pinned(p) /\ Signer[i] \in p["expires"]
    /\ Op[i] = "minimum_version" => p["version"] # None

\* Everything that must be there before an instruction may count as seen.
Done(i) ==
    /\ Op[i] \notin Silent => \E a \in log : a.iid = i /\ a.body # "error"
    /\ Op[i] = "revoke" => revoked
    /\ PinFacts(i, pins) /\ PinFacts(i, disk)

\* The state of the permission that an answer names is the one stored.
Agrees(i, body) ==
    Op[i] = "revoke" /\ body # "error" => stored[i] = body /\ stored[i] # None

RevocationInv ==
    /\ revoked => perm # "active"
    /\ (\E i \in Iid : stored[i] # None) => revoked
    /\ \A a \in log : Agrees(a.iid, a.body)

\* What a worker holds is not seen yet until it is done, and what it is about
\* to append or to complete is true.
WorkerInv(w) ==
    Busy(w) =>
        LET i == worker[w].iid IN
        /\ i \in Iid
        /\ w \in Lanes => (Op[i] = "describe" <=> w = "descriptions")
        /\ w \in Lanes /\ At(w, "effect") => i \notin seen
        /\ At(w, "lock") => Op[i] \in Silent
        /\ Op[i] = "key_rotation" => worker[w].class \in Classes
        /\ At(w, "append") => /\ worker[w].body \in Bodies
                              /\ Agrees(i, worker[w].body)
                              /\ Op[i] \in Silent => worker[w].body = "error"
        /\ w \in Lanes /\ At(w, "complete") => Done(i)

Inv ==
    /\ TypeInv
    /\ RevocationInv
    /\ \A i \in seen : Done(i)
    /\ \A w \in Workers : WorkerInv(w)
    /\ worker["descriptions"].pc # "scan"
    /\ ApprovalIsConsent

-----------------------------------------------------------------------------
(* What steps preserve of an instruction that is done, and of the workers *)

LEMMA LaneFacts ==
    /\ Lanes \cap Old = {} /\ Lanes \subseteq Workers /\ Old \subseteq Workers
    /\ "jobs" \in Lanes /\ "descriptions" \in Lanes
    /\ Workers = Lanes \cup Old
    /\ \A w \in Old : LaneOf(w) \in Lanes
<1>1. OldOf["jobs"] = "old jobs" /\ OldOf["descriptions"] = "old descriptions"
    BY DEF OldOf
<1>2. Old = {"old jobs", "old descriptions"}
    BY <1>1 DEF Old, Lanes
<1>3. ASSUME NEW w \in Old PROVE LaneOf(w) \in Lanes
  <2>1. \E l \in Lanes : OldOf[l] = w
      BY <1>3 DEF Old
  <2> QED BY <2>1 DEF LaneOf
<1> QED BY <1>2, <1>3 DEF Lanes, Workers

\* p has all that q has.
Grows(q, p) ==
    /\ \A c \in Classes : q[c] \subseteq p[c]
    /\ q["expires"] \subseteq p["expires"]
    /\ q["version"] # None => p["version"] # None

LEMMA PinFactsGrow ==
    ASSUME NEW p, NEW q, Grows(q, p), NEW i, PinFacts(i, q)
    PROVE  PinFacts(i, p)
<1>1. Pinned(q) \subseteq Pinned(p)
    BY DEF Pinned, Grows
<1> QED BY <1>1 DEF PinFacts, Grows

\* Nothing that was done is undone.
Keeps ==
    /\ log \subseteq log' /\ (revoked => revoked')
    /\ \A i \in Iid : stored[i] # None => stored'[i] = stored[i]
    /\ Grows(pins, pins') \/ Grows(disk, pins')
    /\ Grows(pins, disk') \/ Grows(disk, disk')

LEMMA Unchanged == ASSUME UNCHANGED <<revoked, stored, log, pins, disk>> PROVE Keeps
BY DEF Keeps, Grows

LEMMA DoneStays == ASSUME Keeps, NEW i, Done(i) PROVE Done(i)'
<1>1. PinFacts(i, pins') /\ PinFacts(i, disk')
    BY PinFactsGrow DEF Keeps, Done
<1> QED BY <1>1 DEF Keeps, Done, PinFacts

LEMMA AgreesStays ==
    ASSUME Keeps, NEW i \in Iid, NEW body, Agrees(i, body)
    PROVE  Agrees(i, body)'
BY DEF Keeps, Agrees

\* A worker whose job is untouched, or whose job passed to the worker of the
\* dropped connection, or which is free.
Untouched(w) ==
    \/ worker'[w] = worker[w]
    \/ w \in Old /\ \E l \in Lanes : worker'[w] = worker[l]
    \/ worker'[w].pc = "idle"
    \/ worker'[w].pc = "scan" /\ w = "jobs"

LEMMA WorkerStays ==
    ASSUME Inv, Keeps, NEW w \in Workers, Untouched(w),
           w \in Lanes /\ At(w, "effect") => worker[w].iid \notin seen' \ seen
    PROVE  WorkerInv(w)'
<1>1. CASE worker'[w].pc \in {"idle", "scan"}
    BY <1>1 DEF WorkerInv, Busy
<1>2. ASSUME NEW v \in Workers, worker'[w] = worker[v], v = w \/ (w \in Old /\ v \in Lanes),
             worker'[w].pc \notin {"idle", "scan"}
      PROVE  WorkerInv(w)'
  <2>1. PICK i : i = worker[v].iid
      OBVIOUS
  <2>2. PICK b : b = worker[v].body
      OBVIOUS
  <2>3. WorkerInv(v) /\ Busy(v) /\ i \in Iid
      BY <1>2, <2>1 DEF Inv, WorkerInv, Busy
  <2>4. w \in Lanes => v = w
      BY <1>2, LaneFacts
  <2>5. w \in Lanes /\ At(w, "complete")' => Done(i)'
    <3>1. w \in Lanes /\ At(w, "complete")' => Done(i)
        BY <1>2, <2>1, <2>3, <2>4 DEF WorkerInv, At
    <3> QED BY <3>1, DoneStays
  <2>6. At(w, "append")' => Agrees(i, b)' /\ (Op[i] \in Silent => b = "error") /\ b \in Bodies
    <3>1. At(w, "append")' => Agrees(i, b) /\ (Op[i] \in Silent => b = "error") /\ b \in Bodies
        BY <1>2, <2>1, <2>2, <2>3 DEF WorkerInv, At
    <3> QED BY <2>3, <3>1, AgreesStays
  <2>7. w \in Lanes /\ At(w, "effect")' => i \notin seen'
      BY <1>2, <2>1, <2>3, <2>4 DEF WorkerInv, At
  <2>8. /\ Op[i] = "key_rotation" => worker'[w].class \in Classes
        /\ At(w, "lock")' => Op[i] \in Silent
        /\ w \in Lanes => (Op[i] = "describe" <=> w = "descriptions")
      BY <1>2, <2>1, <2>3, <2>4 DEF WorkerInv, At
  <2>9. worker'[w].iid = i /\ worker'[w].body = b
      BY <1>2, <2>1, <2>2
  <2> QED BY <2>3, <2>5, <2>6, <2>7, <2>8, <2>9 DEF WorkerInv, Busy
<1>3. CASE worker'[w].pc \notin {"idle", "scan"}
    BY <1>2, <1>3, LaneFacts DEF Untouched
<1> QED BY <1>1, <1>3

\* A step of the workers and their lanes that leaves tables, pins and log alone.
LEMMA WorkersMove ==
    ASSUME Inv, UNCHANGED <<ledger, disk, pins, log>>,
           lane' = [l \in Lanes |-> lane'[l]],
           lane'["jobs"] \in Seq(Iid \cup {Scan}), lane'["descriptions"] \in Seq(Described),
           worker' \in [Workers -> Jobs],
           \A w \in Workers : Untouched(w) \/ WorkerInv(w)',
           worker'["descriptions"].pc # "scan"
    PROVE  Inv'
<1>1. Keeps
    BY Unchanged DEF ledger
<1>2. TypeInv'
    BY DEF Inv, TypeInv, ledger, PinsOK
<1>3. RevocationInv' /\ ApprovalIsConsent'
    BY DEF Inv, RevocationInv, ApprovalIsConsent, Agrees, ledger
<1>4. \A i \in seen' : Done(i)'
    BY <1>1, DoneStays DEF Inv, ledger
<1>5. \A w \in Workers : WorkerInv(w)'
    BY <1>1, WorkerStays DEF ledger
<1> QED BY <1>2, <1>3, <1>4, <1>5 DEF Inv

LEMMA InvInit == ASSUME Init PROVE Inv
<1>1. TypeInv
  <2>1. PinsOK(pins) /\ PinsOK(disk)
      BY DEF Init, PinsOK, PinKeys
  <2>2. lane["jobs"] = <<>> /\ lane["descriptions"] = <<>> /\ lane = [l \in Lanes |-> lane[l]]
      BY DEF Init, Lanes
  <2>3. lane["jobs"] \in Seq(Iid \cup {Scan}) /\ lane["descriptions"] \in Seq(Described)
      BY <2>2
  <2>4. worker \in [Workers -> Jobs]
      BY DEF Init, Idle, Jobs, PCs
  <2>5. offer \in Offers /\ stored \in [Iid -> PermStates \cup {None}]
      BY DEF Init, NoOffer, Offers
  <2> QED BY <2>1, <2>2, <2>3, <2>4, <2>5 DEF Init, TypeInv, PermStates
<1>2. RevocationInv /\ ApprovalIsConsent
    BY DEF Init, RevocationInv, ApprovalIsConsent, NoOffer
<1>3. \A w \in Workers : WorkerInv(w)
    BY DEF Init, WorkerInv, Busy, Idle
<1>4. worker["descriptions"].pc # "scan"
    BY LaneFacts DEF Init, Idle
<1> QED BY <1>1, <1>2, <1>3, <1>4 DEF Init, Inv

\* The end of a connection.
LEMMA InvDrop ==
    ASSUME Inv, UNCHANGED <<ledger, disk, pins, log>>, NEW W \in [Workers -> Jobs],
           \A l \in Lanes : W[l] = worker[l] \/ W[l] = Idle, Drop(W)
    PROVE  Inv'
<1>1. /\ lane' = [l \in Lanes |-> lane'[l]]
      /\ lane'["jobs"] = <<>> /\ lane'["descriptions"] = <<>>
    BY LaneFacts DEF Drop
<1>2. lane'["jobs"] \in Seq(Iid \cup {Scan}) /\ lane'["descriptions"] \in Seq(Described)
    BY <1>1
<1>3. Idle \in Jobs
    BY DEF Idle, Jobs, PCs
<1>4. worker' \in [Workers -> Jobs]
    BY <1>3, LaneFacts DEF Drop
<1>5. ASSUME NEW w \in Workers PROVE Untouched(w)
  <2>1. worker'[w] = Idle \/ (w \in Old /\ worker'[w] = W[LaneOf(w)])
      BY DEF Drop
  <2>2. w \in Old => W[LaneOf(w)] = worker[LaneOf(w)] \/ W[LaneOf(w)] = Idle
      BY LaneFacts
  <2> QED BY <2>1, <2>2, LaneFacts DEF Untouched, Idle
<1>6. worker'["descriptions"].pc # "scan"
    BY LaneFacts DEF Drop, Idle
<1> QED BY <1>1, <1>2, <1>4, <1>5, <1>6, WorkersMove

-----------------------------------------------------------------------------
(* The connection and its lanes *)

LEMMA InvQueue ==
    ASSUME Inv, NEW job \in Iid \cup {Scan}, Queue("jobs", job),
           UNCHANGED <<ledger, disk, pins, log>>
    PROVE  Inv'
<1>1. CASE Drop(worker)
    BY <1>1, InvDrop DEF Inv, TypeInv
<1>2. CASE lane' = [lane EXCEPT !["jobs"] = Append(@, job)] /\ UNCHANGED <<conn, worker>>
  <2>1. /\ lane' = [l \in Lanes |-> lane'[l]]
        /\ lane'["jobs"] = Append(lane["jobs"], job)
        /\ lane'["descriptions"] = lane["descriptions"]
      BY <1>2, LaneFacts DEF Inv, TypeInv
  <2>2. lane'["jobs"] \in Seq(Iid \cup {Scan}) /\ lane'["descriptions"] \in Seq(Described)
      BY <2>1 DEF Inv, TypeInv
  <2>3. worker' \in [Workers -> Jobs] /\ worker'["descriptions"].pc # "scan"
      BY <1>2 DEF Inv, TypeInv
  <2>4. \A w \in Workers : Untouched(w)
      BY <1>2 DEF Untouched
  <2> QED BY <2>1, <2>2, <2>3, <2>4, WorkersMove
<1> QED BY <1>1, <1>2 DEF Queue

LEMMA InvConnection ==
    ASSUME Inv, \/ Connect \/ Disconnect \/ ScanTick \/ ScanFails
                \/ \E i \in Iid : Deliver(i)
    PROVE  Inv'
<1>1. CASE Connect
  <2>1. /\ UNCHANGED <<ledger, disk, pins, log>> /\ worker' = worker
        /\ lane' = [lane EXCEPT !["jobs"] = <<Scan>>]
      BY <1>1 DEF Connect, files
  <2>2. /\ lane' = [l \in Lanes |-> lane'[l]]
        /\ lane'["jobs"] = <<Scan>> /\ lane'["descriptions"] = lane["descriptions"]
      BY <2>1, LaneFacts DEF Inv, TypeInv
  <2>3. lane'["jobs"] \in Seq(Iid \cup {Scan}) /\ lane'["descriptions"] \in Seq(Described)
      BY <2>2 DEF Inv, TypeInv
  <2>4. worker' \in [Workers -> Jobs] /\ worker'["descriptions"].pc # "scan"
      BY <2>1 DEF Inv, TypeInv
  <2>5. \A w \in Workers : Untouched(w)
      BY <2>1 DEF Untouched
  <2> QED BY <2>1, <2>2, <2>3, <2>4, <2>5, WorkersMove
<1>2. CASE Disconnect
    BY <1>2, InvDrop DEF Disconnect, files, Inv, TypeInv
<1>3. CASE ScanFails
  <2>1. /\ UNCHANGED <<ledger, disk, pins, log>>
        /\ Drop([worker EXCEPT !["jobs"] = Idle])
      BY <1>3 DEF ScanFails, files
  <2>2. Idle \in Jobs /\ [worker EXCEPT !["jobs"] = Idle] \in [Workers -> Jobs]
      BY DEF Idle, Jobs, PCs, Inv, TypeInv
  <2>3. \A l \in Lanes : \/ [worker EXCEPT !["jobs"] = Idle][l] = worker[l]
                         \/ [worker EXCEPT !["jobs"] = Idle][l] = Idle
      BY LaneFacts DEF Inv, TypeInv
  <2> QED BY <2>1, <2>2, <2>3, InvDrop
<1>4. CASE ScanTick
    BY <1>4, InvQueue DEF ScanTick, files
<1>5. ASSUME NEW i \in Iid, Deliver(i) PROVE Inv'
    BY <1>5, InvQueue DEF Deliver, files
<1> QED BY <1>1, <1>2, <1>3, <1>4, <1>5

LEMMA InvCrash == ASSUME Inv, Crash PROVE Inv'
<1>1. Keeps
    BY DEF Crash, Keeps, Grows, ledger
<1>2. /\ lane' = [l \in Lanes |-> lane'[l]]
      /\ lane'["jobs"] = <<>> /\ lane'["descriptions"] = <<>>
    BY LaneFacts DEF Crash
<1>3. lane'["jobs"] \in Seq(Iid \cup {Scan}) /\ lane'["descriptions"] \in Seq(Described)
    BY <1>2
<1>4. worker' \in [Workers -> Jobs] /\ worker'["descriptions"].pc # "scan"
    BY LaneFacts DEF Crash, Idle, Jobs, PCs
<1>5. TypeInv'
    BY <1>2, <1>3, <1>4 DEF Crash, Inv, TypeInv, ledger, PinsOK
<1>6. RevocationInv' /\ ApprovalIsConsent'
    BY DEF Crash, Inv, RevocationInv, ApprovalIsConsent, Agrees, ledger
<1>7. \A i \in seen' : Done(i)'
    BY <1>1, DoneStays DEF Crash, Inv, ledger
<1>8. \A w \in Workers : WorkerInv(w)'
    BY DEF Crash, WorkerInv, Busy, Idle
<1> QED BY <1>4, <1>5, <1>6, <1>7, <1>8 DEF Inv

\* A token is only handled if a key of one of its classes fits.
LEMMA ClassFits ==
    ASSUME NEW i, ClassOf(i) # None
    PROVE  ClassOf(i) \in Classes
<1>1. ClassesOf(i) \in {<<"listing">>, <<"permission">>, <<"listing", "permission", "scan">>}
    BY DEF ClassesOf
<1>2. \A n \in DOMAIN ClassesOf(i) : ClassesOf(i)[n] \in Classes /\ n \in 1 .. 3
    BY <1>1 DEF Classes
<1>3. Fitting(i) \subseteq 1 .. 3 /\ Fitting(i) # {}
    BY <1>2 DEF Fitting, ClassOf
<1>4. \E n \in Fitting(i) : \A m \in Fitting(i) : n <= m
  <2>1. 1 \in Fitting(i) \/ 2 \in Fitting(i) \/ 3 \in Fitting(i)
      BY <1>3
  <2> QED BY <1>3, <2>1
<1>5. Min(Fitting(i)) \in Fitting(i)
    BY <1>4 DEF Min
<1>6. Min(Fitting(i)) \in DOMAIN ClassesOf(i)
    BY <1>5 DEF Fitting
<1> QED BY <1>2, <1>3, <1>6 DEF ClassOf

-----------------------------------------------------------------------------
(* The workers take jobs *)

\* One worker moves on with its job, perhaps with an answer.
LEMMA Moves ==
    ASSUME TypeInv, NEW w \in Workers, NEW pc \in PCs, NEW body \in Bodies,
           \/ worker' = [worker EXCEPT ![w].pc = pc]
           \/ worker' = [worker EXCEPT ![w].pc = pc, ![w].body = body]
    PROVE  /\ worker' \in [Workers -> Jobs]
           /\ \A v \in Workers : v # w => worker'[v] = worker[v]
           /\ worker'[w].pc = pc
           /\ worker'[w].iid = worker[w].iid /\ worker'[w].class = worker[w].class
           /\ worker'[w].body = IF worker' = [worker EXCEPT ![w].pc = pc]
                                THEN worker[w].body ELSE body
BY DEF TypeInv, Jobs

LEMMA Moved ==
    ASSUME Inv, UNCHANGED <<ledger, disk, pins, log, lane>>, NEW w \in Workers,
           worker' \in [Workers -> Jobs], \A v \in Workers : v # w => worker'[v] = worker[v],
           WorkerInv(w)', w = "descriptions" => worker'[w].pc # "scan"
    PROVE  Inv'
<1>1. \A v \in Workers : Untouched(v) \/ WorkerInv(v)'
    BY DEF Untouched
<1>2. worker'["descriptions"].pc # "scan"
    BY LaneFacts DEF Inv
<1> QED BY <1>1, <1>2, WorkersMove DEF Inv, TypeInv

LEMMA InvTake == ASSUME Inv, Take PROVE Inv'
<1>1. ASSUME NEW l \in Lanes, lane[l] # <<>>, lane' = [lane EXCEPT ![l] = Tail(@)]
      PROVE  /\ lane' = [k \in Lanes |-> lane'[k]]
             /\ lane'["jobs"] \in Seq(Iid \cup {Scan}) /\ lane'["descriptions"] \in Seq(Described)
  <2>1. /\ lane' = [k \in Lanes |-> lane'[k]]
        /\ lane'[l] = Tail(lane[l]) /\ \A k \in Lanes : k # l => lane'[k] = lane[k]
      BY <1>1 DEF Inv, TypeInv
  <2>2. CASE l = "jobs"
      BY <1>1, <2>1, <2>2, LaneFacts DEF Inv, TypeInv
  <2>3. CASE l = "descriptions"
      BY <1>1, <2>1, <2>3, LaneFacts DEF Inv, TypeInv
  <2> QED BY <2>1, <2>2, <2>3 DEF Lanes
<1>2. CASE TakeScan
  <2>1. /\ worker' = [worker EXCEPT !["jobs"].pc = "scan"] /\ "scan" \in PCs /\ "error" \in Bodies
        /\ UNCHANGED <<ledger, disk, pins, log>>
      BY <1>2 DEF TakeScan, Outside, files, PCs, Bodies
  <2>2. /\ worker' \in [Workers -> Jobs] /\ worker'["jobs"].pc = "scan"
        /\ \A w \in Workers : w # "jobs" => worker'[w] = worker[w]
      BY <2>1, Moves, LaneFacts, ZenonT(40) DEF Inv
  <2>3. \A w \in Workers : Untouched(w)
      BY <2>2 DEF Untouched
  <2>4. worker'["descriptions"].pc # "scan"
      BY <2>2, LaneFacts DEF Inv
  <2> QED BY <1>1, <1>2, <2>1, <2>2, <2>3, <2>4, WorkersMove, LaneFacts DEF TakeScan, Takes, Taken
<1>3. CASE ScanEnds
  <2>1. Idle \in Jobs
      BY DEF Idle, Jobs, PCs
  <2>2. /\ worker' = [worker EXCEPT !["jobs"] = Idle]
        /\ UNCHANGED <<ledger, disk, pins, log, lane>>
      BY <1>3 DEF ScanEnds, Outside, files
  <2>3. /\ worker' \in [Workers -> Jobs] /\ worker'["jobs"].pc = "idle"
        /\ \A w \in Workers : w # "jobs" => worker'[w] = worker[w]
      BY <2>1, <2>2, LaneFacts DEF Inv, TypeInv, Idle
  <2>4. WorkerInv("jobs")'
      BY <2>3 DEF WorkerInv, Busy
  <2> QED BY <2>2, <2>3, <2>4, Moved, LaneFacts
<1>4. CASE TakeInvalid
  <2>1. UNCHANGED <<ledger, disk, pins, log, worker>> /\ \A w \in Workers : Untouched(w)
      BY <1>4 DEF TakeInvalid, Outside, files, Untouched
  <2>2. worker' \in [Workers -> Jobs] /\ worker'["descriptions"].pc # "scan"
      BY <2>1 DEF Inv, TypeInv
  <2> QED BY <1>1, <1>4, <2>1, <2>2, WorkersMove, LaneFacts DEF TakeInvalid, Takes, Taken
<1>5. ASSUME NEW l \in Lanes, NEW i \in Iid, Starts(l, i), lane[l] # <<>>, Taken(l), Outside,
             Op[i] = "describe" <=> l = "descriptions",
             Op[i] = "describe" \/ ClassOf(i) # None
      PROVE  Inv'
  <2>1. ClassOf(i) \in Classes \cup {None} /\ (Op[i] = "key_rotation" => ClassOf(i) \in Classes)
      BY <1>5, ClassFits
  <2> DEFINE j == [pc |-> "handle", iid |-> i, class |-> ClassOf(i), body |-> None]
  <2>2. j \in Jobs /\ worker' = [worker EXCEPT ![l] = j]
      BY <1>5, <2>1 DEF Starts, Jobs, PCs
  <2>3. /\ worker' \in [Workers -> Jobs] /\ worker'[l] = j
        /\ \A w \in Workers : w # l => worker'[w] = worker[w]
      BY <2>2, LaneFacts DEF Inv, TypeInv
  <2>4. WorkerInv(l)'
      BY <1>5, <2>1, <2>3 DEF WorkerInv, At
  <2>5. \A w \in Workers : Untouched(w) \/ WorkerInv(w)'
      BY <2>3, <2>4 DEF Untouched
  <2>6. worker'["descriptions"].pc # "scan"
      BY <2>3, LaneFacts DEF Inv
  <2>7. UNCHANGED <<ledger, disk, pins, log>>
      BY <1>5 DEF Outside, files
  <2> QED BY <1>1, <1>5, <2>3, <2>5, <2>6, <2>7, WorkersMove DEF Taken
<1>6. CASE TakeDescription
  <2>1. lane["descriptions"] # <<>> /\ lane["descriptions"] \in Seq(Described)
      BY <1>6 DEF TakeDescription, Takes, Inv, TypeInv
  <2>2. Head(lane["descriptions"]) \in Described
      BY <2>1
  <2> QED BY <1>5, <1>6, <2>1, <2>2, LaneFacts DEF TakeDescription, Described
<1>7. CASE TakeInstruction
  <2> DEFINE i == Head(lane["jobs"])
  <2>1. lane["jobs"] # <<>> /\ lane["jobs"] \in Seq(Iid \cup {Scan}) /\ i # Scan /\ ClassOf(i) # None
        /\ Outside
      BY <1>7 DEF TakeInstruction, Takes, Inv, TypeInv
  <2>2. i \in Iid
      BY <2>1
  <2>3. CASE Op[i] # "describe"
    <3>1. Starts("jobs", i) /\ Taken("jobs")
        BY <1>7, <2>3 DEF TakeInstruction
    <3> QED BY <1>5, <2>1, <2>2, <2>3, <3>1, LaneFacts
  <2>4. CASE Op[i] = "describe" /\ Len(lane["descriptions"]) < Capacity
    <3>1. /\ lane' = [jobs |-> Tail(lane["jobs"]),
                      descriptions |-> Append(lane["descriptions"], i)]
          /\ worker' = worker /\ UNCHANGED <<ledger, disk, pins, log>>
        BY <1>7, <2>1, <2>4 DEF TakeInstruction, Outside, files
    <3>2. i \in Described
        BY <2>2, <2>4 DEF Described
    <3>3. /\ lane'["jobs"] = Tail(lane["jobs"])
          /\ lane'["descriptions"] = Append(lane["descriptions"], i)
          /\ lane' = [k \in Lanes |-> lane'[k]]
        BY <3>1 DEF Lanes
    <3>4. lane'["jobs"] \in Seq(Iid \cup {Scan}) /\ lane'["descriptions"] \in Seq(Described)
        BY <2>1, <3>2, <3>3 DEF Inv, TypeInv
    <3>5. \A w \in Workers : Untouched(w)
        BY <3>1 DEF Untouched
    <3>6. worker' \in [Workers -> Jobs] /\ worker'["descriptions"].pc # "scan"
        BY <3>1 DEF Inv, TypeInv
    <3> QED BY <3>1, <3>3, <3>4, <3>5, <3>6, WorkersMove
  <2>5. CASE Op[i] = "describe" /\ ~(Len(lane["descriptions"]) < Capacity)
    <3>1. Drop(worker)
        BY <1>7, <2>5 DEF TakeInstruction
    <3> QED BY <2>1, <3>1, InvDrop DEF Outside, files, Inv, TypeInv
  <2> QED BY <2>3, <2>4, <2>5
<1> QED BY <1>2, <1>3, <1>4, <1>6, <1>7 DEF Take

-----------------------------------------------------------------------------
(* The workers handle jobs *)

\* A step of one worker that also changes tables, pins or the log.
LEMMA Effect ==
    ASSUME Inv, Keeps, TypeInv', RevocationInv', ApprovalIsConsent', seen' = seen,
           NEW w \in Workers, \A v \in Workers : v # w => worker'[v] = worker[v],
           WorkerInv(w)', w = "descriptions" => worker'[w].pc # "scan"
    PROVE  Inv'
<1>1. \A v \in Workers : WorkerInv(v)'
    BY WorkerStays DEF Untouched
<1>2. \A i \in seen' : Done(i)'
    BY DoneStays DEF Inv
<1>3. worker'["descriptions"].pc # "scan"
    BY LaneFacts DEF Inv
<1> QED BY <1>1, <1>2, <1>3 DEF Inv

LEMMA BusyFacts ==
    ASSUME Inv, NEW w \in Workers, Busy(w)
    PROVE  /\ worker[w].iid \in Iid
           /\ w \in Lanes => (Op[worker[w].iid] = "describe" <=> w = "descriptions")
           /\ Op[worker[w].iid] = "key_rotation" => worker[w].class \in Classes
BY DEF Inv, WorkerInv

\* The job of a worker moves on and nothing else happens.
LEMMA JobMoves ==
    ASSUME Inv, UNCHANGED <<ledger, disk, pins, log, lane>>, NEW w \in Workers, Busy(w),
           NEW pc \in PCs \ {"scan"}, NEW body \in Bodies, NEW i, i = worker[w].iid,
           (Goes(w, pc) /\ pc # "append") \/ (Answers(w, body) /\ pc = "append"),
           w \in Lanes /\ pc = "effect" => i \notin seen,
           pc = "lock" => Op[i] \in Silent,
           pc = "append" => Agrees(i, body) /\ (Op[i] \in Silent => body = "error"),
           w \in Lanes /\ pc = "complete" => Done(i)
    PROVE  Inv'
<1>1. /\ worker' \in [Workers -> Jobs] /\ \A v \in Workers : v # w => worker'[v] = worker[v]
      /\ worker'[w].pc = pc /\ worker'[w].iid = i /\ worker'[w].class = worker[w].class
      /\ pc = "append" => worker'[w].body = body
  <2>1. CASE Goes(w, pc) /\ pc # "append"
      BY <2>1, Moves DEF Goes, Inv
  <2>2. CASE Answers(w, body) /\ pc = "append"
    <3>1. worker' = [worker EXCEPT ![w].pc = "append", ![w].body = body]
        BY <2>2 DEF Answers
    <3> QED BY <2>2, <3>1 DEF Inv, TypeInv, Jobs
  <2> QED BY <2>1, <2>2
<1>2. Agrees(i, body) => Agrees(i, body)'
    BY DEF Agrees, ledger
<1>3. Done(i) => Done(i)'
    BY Unchanged, DoneStays DEF ledger
<1>4. WorkerInv(w)'
    BY <1>1, <1>2, <1>3, BusyFacts DEF WorkerInv, At, ledger
<1> QED BY <1>1, <1>4, Moved

LEMMA InvLookUp == ASSUME Inv, NEW w \in Workers, LookUp(w) PROVE Inv'
<1>1. PICK i : i = worker[w].iid
    OBVIOUS
<1>2. Busy(w) /\ UNCHANGED <<ledger, disk, pins, log, lane>>
    BY DEF LookUp, At, Busy, files, Rest
<1>3. {"complete", "lock", "effect"} \subseteq PCs \ {"scan"} /\ "error" \in Bodies
    BY DEF PCs, Bodies
<1>4. CASE i \in seen
  <2>1. Goes(w, "complete") /\ Done(i)
      BY <1>1, <1>4 DEF LookUp, Inv
  <2> QED BY <1>1, <1>2, <1>3, <2>1, JobMoves
<1>5. CASE i \notin seen /\ Op[i] = "minimum_version"
  <2>1. Goes(w, "lock") /\ Op[i] \in Silent
      BY <1>1, <1>5 DEF LookUp, Silent
  <2> QED BY <1>1, <1>2, <1>3, <2>1, JobMoves
<1>6. CASE i \notin seen /\ Op[i] # "minimum_version"
  <2>1. Goes(w, "effect")
      BY <1>1, <1>6 DEF LookUp
  <2> QED BY <1>1, <1>2, <1>3, <1>6, <2>1, JobMoves
<1> QED BY <1>4, <1>5, <1>6

\* Answers that change no table.
LEMMA InvAnswers ==
    ASSUME Inv, NEW w \in Workers,
           HandlePrepare(w) \/ HandleDescribe(w) \/ HandleFails(w) \/ CheckRotation(w)
    PROVE  Inv'
<1>1. PICK i : i = worker[w].iid
    OBVIOUS
<1>2. Busy(w) /\ UNCHANGED <<ledger, disk, pins, log, lane>>
    BY DEF HandlePrepare, HandleDescribe, HandleFails, CheckRotation, Does, At, Busy, files, Rest
<1>3. {"append", "lock"} \subseteq PCs \ {"scan"} /\ {"ready", "refused", "description", "error"} \subseteq Bodies
    BY DEF PCs, Bodies
<1>4. CASE Answers(w, "error")
  <2>1. Agrees(i, "error")
      BY DEF Agrees
  <2> QED BY <1>1, <1>2, <1>3, <1>4, <2>1, JobMoves
<1>5. CASE HandlePrepare(w) \/ HandleDescribe(w)
  <2>1. PICK b \in Bodies : Answers(w, b)
      BY <1>3, <1>5 DEF HandlePrepare, HandleDescribe
  <2>2. Op[i] \notin Silent /\ Op[i] # "revoke"
      BY <1>1, <1>5 DEF HandlePrepare, HandleDescribe, Does, Silent
  <2> QED BY <1>1, <1>2, <1>3, <2>1, <2>2, JobMoves DEF Agrees
<1>6. CASE CheckRotation(w) /\ Goes(w, "lock")
  <2>1. Op[i] \in Silent
      BY <1>1, <1>6 DEF CheckRotation, Silent
  <2> QED BY <1>1, <1>2, <1>3, <1>6, <2>1, JobMoves
<1> QED BY <1>4, <1>5, <1>6 DEF HandleFails, CheckRotation

LEMMA InvHandleOffer == ASSUME Inv, NEW w \in Workers, HandleOffer(w) PROVE Inv'
<1>1. PICK i : i = worker[w].iid
    OBVIOUS
<1>2. Busy(w) /\ i \in Iid /\ Op[i] \in {"offer", "unoffer"} /\ UNCHANGED <<disk, pins, log, lane>>
    BY <1>1, BusyFacts DEF HandleOffer, Does, At, Busy, files, Rest
<1>3. Op[i] \notin Silent /\ Op[i] # "revoke" /\ {"ready", "refused"} \subseteq Bodies /\ "append" \in PCs
    BY <1>2 DEF Silent, Bodies, PCs
<1>4. CASE UNCHANGED ledger /\ Answers(w, "refused")
    BY <1>1, <1>2, <1>3, <1>4, JobMoves DEF Agrees
<1>5. ASSUME NEW state \in {"offered", "withdrawn"}, PutOffer(i, state), Answers(w, "ready")
      PROVE  Inv'
  <2>1. UNCHANGED <<seen, perm, revoked, stored>>
      BY <1>5 DEF PutOffer
  <2>2. offer' \in Offers
      BY <1>2, <1>5 DEF PutOffer, KeepsApproval, Offers, Inv, TypeInv
  <2>3. ApprovalIsConsent'
      BY <1>5 DEF PutOffer, KeepsApproval, Offers, Inv, TypeInv, ApprovalIsConsent
  <2>4. Keeps
      BY <1>2, <2>1, Unchanged
  <2>5. worker' = [worker EXCEPT ![w].pc = "append", ![w].body = "ready"]
      BY <1>5 DEF Answers
  <2>6. /\ worker' \in [Workers -> Jobs] /\ \A v \in Workers : v # w => worker'[v] = worker[v]
        /\ worker'[w].pc = "append" /\ worker'[w].iid = i /\ worker'[w].class = worker[w].class
        /\ worker'[w].body = "ready"
      BY <1>1, <1>3, <2>5 DEF Inv, TypeInv, Jobs
  <2>7. WorkerInv(w)'
      BY <1>1, <1>2, <1>3, <2>6, BusyFacts DEF WorkerInv, At, Agrees
  <2>8. TypeInv'
      BY <1>2, <2>1, <2>2, <2>6 DEF Inv, TypeInv, PinsOK
  <2>9. RevocationInv'
      BY <1>2, <2>1 DEF Inv, RevocationInv, Agrees
  <2> QED BY <2>1, <2>3, <2>4, <2>6, <2>7, <2>8, <2>9, Effect
<1> QED BY <1>1, <1>4, <1>5 DEF HandleOffer

LEMMA InvHandleRevoke == ASSUME Inv, NEW w \in Workers, HandleRevoke(w) PROVE Inv'
<1>1. PICK i : i = worker[w].iid
    OBVIOUS
<1>2. PICK b : b = RevokeAnswer(i)
    OBVIOUS
<1>3. /\ Busy(w) /\ i \in Iid /\ Op[i] = "revoke"
      /\ UNCHANGED <<seen, offer, consent, disk, pins, log, lane>>
    BY <1>1, BusyFacts DEF HandleRevoke, Does, At, Busy, files, Rest
<1>4. Op[i] \notin Silent /\ "append" \in PCs
    BY <1>3 DEF Silent, PCs
<1>5. b \in PermStates /\ b # None /\ b \in Bodies
    BY <1>2, <1>3, ChannelAssumption DEF RevokeAnswer, Inv, TypeInv, Bodies
<1>6. /\ stored' = [stored EXCEPT ![i] = b] /\ Answers(w, b)
      /\ IF stored[i] # None THEN UNCHANGED <<perm, revoked>>
         ELSE revoked' = TRUE /\ perm' = IF perm = "unknown" THEN perm ELSE "closed"
    BY <1>1, <1>2 DEF HandleRevoke
<1>7. /\ stored' \in [Iid -> PermStates \cup {None}] /\ stored'[i] = b
      /\ \A k \in Iid : stored[k] # None => stored'[k] = stored[k]
    BY <1>2, <1>3, <1>5, <1>6 DEF RevokeAnswer, Inv, TypeInv
<1>8. revoked' /\ perm' \in PermStates /\ perm' # "active"
    BY <1>3, <1>6 DEF Inv, TypeInv, RevocationInv, PermStates
<1>9. Keeps
    BY <1>3, <1>7, <1>8 DEF Keeps, Grows
<1>10. worker' = [worker EXCEPT ![w].pc = "append", ![w].body = b]
    BY <1>6 DEF Answers
<1>11. /\ worker' \in [Workers -> Jobs] /\ \A v \in Workers : v # w => worker'[v] = worker[v]
       /\ worker'[w].pc = "append" /\ worker'[w].iid = i /\ worker'[w].class = worker[w].class
       /\ worker'[w].body = b
    BY <1>1, <1>4, <1>5, <1>10 DEF Inv, TypeInv, Jobs
<1>12. WorkerInv(w)'
    BY <1>1, <1>3, <1>4, <1>5, <1>7, <1>11, BusyFacts DEF WorkerInv, At, Agrees
<1>13. TypeInv'
    BY <1>3, <1>7, <1>8, <1>11 DEF Inv, TypeInv, PinsOK
<1>14. RevocationInv'
  <2>1. \A a \in log' : a.iid \in Iid /\ Agrees(a.iid, a.body)
      BY <1>3 DEF Inv, TypeInv, RevocationInv
  <2>2. \A a \in log' : Agrees(a.iid, a.body)'
      BY <1>3, <1>7, <2>1 DEF Agrees
  <2> QED BY <1>8, <2>2 DEF RevocationInv
<1>15. ApprovalIsConsent'
    BY <1>3 DEF Inv, ApprovalIsConsent
<1> QED BY <1>3, <1>9, <1>11, <1>12, <1>13, <1>14, <1>15, Effect

\* The pins that a rotation or minimum version writes have all of the old ones
\* and what it asked for.
LEMMA NewPinsGrow ==
    ASSUME Inv, NEW w \in Workers, At(w, "lock"), NEW i, i = worker[w].iid
    PROVE  /\ PinsOK(NewPins(w)) /\ Grows(pins, NewPins(w)) /\ PinFacts(i, NewPins(w))
           /\ Op[i] \in Silent
<1>1. Busy(w) /\ i \in Iid /\ Op[i] \in Silent
    BY BusyFacts DEF At, Busy, Inv, WorkerInv
<1>2. i # None /\ PinsOK(pins)
    BY <1>1, ChannelAssumption DEF Inv, TypeInv
<1>3. CASE Op[i] = "minimum_version"
  <2>1. NewPins(w) = [pins EXCEPT !["version"] = i]
      BY <1>3 DEF NewPins
  <2>2. /\ PinsOK(NewPins(w)) /\ NewPins(w)["version"] = i
        /\ \A k \in Classes \cup {"expires"} : NewPins(w)[k] = pins[k]
      BY <1>2, <2>1 DEF PinsOK, PinKeys, Classes
  <2> QED BY <1>1, <1>2, <1>3, <2>2 DEF Grows, PinFacts
<1>4. CASE Op[i] # "minimum_version"
  <2>1. Op[i] = "key_rotation"
      BY <1>1, <1>4 DEF Silent
  <2>2. PICK c \in Classes : c = worker[w].class
      BY <1>1, <2>1, BusyFacts
  <2>3. NewPins(w) = [pins EXCEPT ![c] = @ \cup Keys[i], !["expires"] = @ \cup {Signer[i]}]
      BY <1>4, <2>2 DEF NewPins, Rotated
  <2>4. /\ PinsOK(NewPins(w))
        /\ NewPins(w)[c] = pins[c] \cup Keys[i]
        /\ NewPins(w)["expires"] = pins["expires"] \cup {Signer[i]}
        /\ \A k \in PinKeys : k # c /\ k # "expires" => NewPins(w)[k] = pins[k]
    <3>1. c \in PinKeys /\ "expires" \in PinKeys /\ c # "expires"
        BY DEF PinKeys, Classes
    <3> QED BY <1>2, <2>3, <3>1 DEF PinsOK
  <2>5. Keys[i] \subseteq Pinned(NewPins(w))
      BY <2>4 DEF Pinned
  <2>6. Grows(pins, NewPins(w))
      BY <2>4 DEF Grows, PinKeys, Classes
  <2> QED BY <1>1, <1>4, <2>4, <2>5, <2>6 DEF PinFacts
<1> QED BY <1>3, <1>4

\* The pins change while the tables and the log do not.
LEMMA PinsMove ==
    ASSUME Inv, UNCHANGED <<ledger, log, lane>>, PinsOK(pins'), PinsOK(disk'),
           Grows(pins, pins'), Grows(pins, disk') \/ Grows(disk, disk'),
           NEW w \in Workers, worker' \in [Workers -> Jobs],
           \A v \in Workers : v # w => worker'[v] = worker[v],
           WorkerInv(w)', w = "descriptions" => worker'[w].pc # "scan"
    PROVE  Inv'
<1>1. Keeps
    BY DEF Keeps, ledger
<1>2. TypeInv'
    BY DEF Inv, TypeInv, ledger
<1>3. RevocationInv' /\ ApprovalIsConsent' /\ seen' = seen
    BY DEF Inv, RevocationInv, ApprovalIsConsent, Agrees, ledger
<1> QED BY <1>1, <1>2, <1>3, Effect

LEMMA InvSavePins ==
    ASSUME Inv, NEW w \in Workers, SavePins(w) \/ SavePinsFails(w)
    PROVE  Inv'
<1>1. PICK i : i = worker[w].iid
    OBVIOUS
<1>2. /\ At(w, "lock") /\ Busy(w) /\ i \in Iid /\ UNCHANGED <<ledger, log, lane>>
    BY <1>1, BusyFacts DEF SavePins, SavePinsFails, At, Busy, Rest
<1>3. /\ PinsOK(NewPins(w)) /\ Grows(pins, NewPins(w)) /\ PinFacts(i, NewPins(w))
      /\ Op[i] \in Silent /\ Op[i] # "revoke"
    BY <1>1, <1>2, NewPinsGrow DEF Silent
<1>4. {"complete", "append"} \subseteq PCs /\ "error" \in Bodies /\ Idle \in Jobs
    BY DEF PCs, Bodies, Idle, Jobs
<1>5. ASSUME Ends(w)
      PROVE  /\ worker' \in [Workers -> Jobs] /\ \A v \in Workers : v # w => worker'[v] = worker[v]
             /\ WorkerInv(w)' /\ worker'[w].pc # "scan"
  <2>1. /\ worker' \in [Workers -> Jobs] /\ \A v \in Workers : v # w => worker'[v] = worker[v]
        /\ worker'[w].pc = "idle"
      BY <1>4, <1>5 DEF Ends, Inv, TypeInv, Idle
  <2> QED BY <2>1 DEF WorkerInv, Busy
<1>6. CASE SavePins(w)
  <2>1. disk' = NewPins(w) /\ pins' = NewPins(w)
      BY <1>6 DEF SavePins
  <2>2. CASE w \in Old
      BY <1>2, <1>3, <1>5, <1>6, <2>1, <2>2, PinsMove DEF SavePins
  <2>3. CASE w \notin Old
    <3>1. worker' = [worker EXCEPT ![w].pc = "complete"]
        BY <1>6, <2>3 DEF SavePins, Goes
    <3>2. /\ worker' \in [Workers -> Jobs] /\ \A v \in Workers : v # w => worker'[v] = worker[v]
          /\ worker'[w].pc = "complete" /\ worker'[w].iid = i /\ worker'[w].class = worker[w].class
        BY <1>1, <1>4, <3>1, Moves DEF Inv
    <3>3. Done(i)'
        BY <1>3, <2>1 DEF Done, PinFacts
    <3>4. WorkerInv(w)'
        BY <1>1, <1>2, <3>2, <3>3, BusyFacts DEF WorkerInv, At
    <3> QED BY <1>2, <1>3, <2>1, <3>2, <3>4, PinsMove
  <2> QED BY <2>2, <2>3
<1>7. CASE SavePinsFails(w)
  <2>1. /\ pins' = pins /\ Grows(pins, pins') /\ PinsOK(pins')
        /\ PinsOK(disk') /\ (Grows(pins, disk') \/ Grows(disk, disk'))
      BY <1>3, <1>7 DEF SavePinsFails, Grows, Inv, TypeInv, PinsOK
  <2>2. CASE w \in Old
      BY <1>2, <1>5, <1>7, <2>1, <2>2, PinsMove DEF SavePinsFails
  <2>3. CASE w \notin Old
    <3>1. worker' = [worker EXCEPT ![w].pc = "append", ![w].body = "error"]
        BY <1>7, <2>3 DEF SavePinsFails, Answers
    <3>2. /\ worker' \in [Workers -> Jobs] /\ \A v \in Workers : v # w => worker'[v] = worker[v]
          /\ worker'[w].pc = "append" /\ worker'[w].iid = i /\ worker'[w].class = worker[w].class
          /\ worker'[w].body = "error"
        BY <1>1, <1>4, <3>1 DEF Inv, TypeInv, Jobs
    <3>3. WorkerInv(w)'
        BY <1>1, <1>2, <1>4, <3>2, BusyFacts DEF WorkerInv, At, Agrees
    <3> QED BY <1>2, <2>1, <3>2, <3>3, PinsMove
  <2> QED BY <2>2, <2>3
<1> QED BY <1>6, <1>7

\* The answer is in the log before the worker completes the instruction.
LEMMA InvAppendAnswer == ASSUME Inv, NEW w \in Workers, AppendAnswer(w) PROVE Inv'
<1>1. PICK i : i = worker[w].iid
    OBVIOUS
<1>2. PICK b : b = worker[w].body
    OBVIOUS
<1>3. /\ At(w, "append") /\ Busy(w) /\ i \in Iid /\ UNCHANGED <<ledger, disk, pins, lane>>
      /\ log' = log \cup {[iid |-> i, body |-> b]}
    BY <1>1, <1>2, BusyFacts DEF AppendAnswer, At, Busy, Rest
<1>4. Agrees(i, b) /\ (Op[i] \in Silent => b = "error")
    BY <1>1, <1>2, <1>3 DEF Inv, WorkerInv
<1>5. Keeps
    BY <1>3 DEF Keeps, Grows, ledger
<1>6. "complete" \in PCs /\ Idle \in Jobs /\ "error" \in Bodies
    BY DEF PCs, Idle, Jobs, Bodies
<1>7. /\ worker' \in [Workers -> Jobs] /\ \A v \in Workers : v # w => worker'[v] = worker[v]
      /\ worker'[w].pc # "scan" /\ WorkerInv(w)'
  <2>1. CASE Ends(w)
    <3>1. /\ worker' \in [Workers -> Jobs] /\ \A v \in Workers : v # w => worker'[v] = worker[v]
          /\ worker'[w].pc = "idle"
        BY <1>6, <2>1 DEF Ends, Inv, TypeInv, Idle
    <3> QED BY <3>1 DEF WorkerInv, Busy
  <2>2. CASE b # "error" /\ Goes(w, "complete")
    <3>1. /\ worker' \in [Workers -> Jobs] /\ \A v \in Workers : v # w => worker'[v] = worker[v]
          /\ worker'[w].pc = "complete" /\ worker'[w].iid = i /\ worker'[w].class = worker[w].class
        BY <1>1, <1>6, <2>2, Moves DEF Goes, Inv
    <3>2. Op[i] = "revoke" => revoked'
        BY <1>3, <1>4, <2>2 DEF Agrees, Inv, RevocationInv, ledger
    <3>3. Op[i] \notin Silent
        BY <1>4, <2>2
    <3>4. \E a \in log' : a.iid = i /\ a.body # "error"
      <4> DEFINE a == [iid |-> i, body |-> b]
      <4>1. a \in log' /\ a.iid = i /\ a.body # "error"
          BY <1>3, <2>2
      <4> QED BY <4>1
    <3>5. PinFacts(i, pins') /\ PinFacts(i, disk')
        BY <3>3 DEF PinFacts, Silent
    <3>6. Done(i)'
        BY <3>2, <3>4, <3>5 DEF Done, PinFacts
    <3> QED BY <1>1, <1>3, <3>1, <3>6, BusyFacts DEF WorkerInv, At
  <2> QED BY <1>2, <2>1, <2>2 DEF AppendAnswer
<1>8. TypeInv'
  <2>1. b \in Bodies
      BY <1>2, <1>3 DEF Inv, WorkerInv
  <2>2. log' \subseteq [iid : Iid, body : Bodies]
      BY <1>3, <2>1 DEF Inv, TypeInv
  <2> QED BY <1>3, <1>7, <2>2 DEF Inv, TypeInv, ledger, PinsOK
<1>9. RevocationInv' /\ ApprovalIsConsent' /\ seen' = seen
  <2>1. \A a \in log' : Agrees(a.iid, a.body)
      BY <1>3, <1>4 DEF Inv, RevocationInv
  <2> QED BY <1>3, <2>1 DEF Inv, RevocationInv, ApprovalIsConsent, Agrees, ledger
<1> QED BY <1>5, <1>7, <1>8, <1>9, Effect

LEMMA InvEnds ==
    ASSUME Inv, NEW w \in Workers, AppendFails(w) \/ CompleteFails(w) \/ Stop(w)
    PROVE  Inv'
<1>1. UNCHANGED <<ledger, disk, pins, log>> /\ Idle \in Jobs
    BY DEF AppendFails, CompleteFails, Stop, files, Idle, Jobs, PCs
<1>2. [worker EXCEPT ![w] = Idle] \in [Workers -> Jobs]
    BY <1>1 DEF Inv, TypeInv
<1>3. CASE Ends(w) /\ UNCHANGED lane
  <2>1. /\ worker' \in [Workers -> Jobs] /\ \A v \in Workers : v # w => worker'[v] = worker[v]
        /\ worker'[w].pc = "idle"
      BY <1>1, <1>3 DEF Ends, Inv, TypeInv, Idle
  <2>2. WorkerInv(w)'
      BY <2>1 DEF WorkerInv, Busy
  <2> QED BY <1>1, <1>3, <2>1, <2>2, Moved
<1>4. CASE Drop([worker EXCEPT ![w] = Idle])
  <2>1. \A l \in Lanes : \/ [worker EXCEPT ![w] = Idle][l] = worker[l]
                         \/ [worker EXCEPT ![w] = Idle][l] = Idle
      BY LaneFacts DEF Inv, TypeInv
  <2> QED BY <1>1, <1>2, <1>4, <2>1, InvDrop
<1> QED BY <1>3, <1>4 DEF AppendFails, CompleteFails, Stop, Rest

LEMMA InvComplete == ASSUME Inv, NEW w \in Workers, Complete(w) PROVE Inv'
<1>1. PICK i : i = worker[w].iid
    OBVIOUS
<1>2. /\ w \in Lanes /\ At(w, "complete") /\ Busy(w) /\ i \in Iid /\ Done(i)
      /\ seen' = seen \cup {i} /\ Ends(w)
      /\ UNCHANGED <<offer, perm, revoked, stored, consent, disk, pins, log, lane>>
    BY <1>1, BusyFacts DEF Complete, Alive, At, Busy, files, Rest, Inv, WorkerInv
<1>3. Keeps
    BY <1>2, Unchanged
<1>4. /\ worker' \in [Workers -> Jobs] /\ \A v \in Workers : v # w => worker'[v] = worker[v]
      /\ worker'[w].pc = "idle"
    BY <1>2 DEF Ends, Inv, TypeInv, Idle, Jobs, PCs
<1>5. \A j \in seen' : Done(j)'
    BY <1>2, <1>3, DoneStays DEF Inv
<1>6. ASSUME NEW v \in Workers PROVE WorkerInv(v)'
  <2>1. Untouched(v)
      BY <1>4 DEF Untouched
  <2>2. CASE v = w
      BY <1>4, <2>2 DEF WorkerInv, Busy
  <2>3. CASE v # w
    <3>1. ASSUME v \in Lanes, At(v, "effect") PROVE worker[v].iid \notin seen' \ seen
      <4>1. Busy(v)
          BY <3>1 DEF At, Busy
      <4>2. Op[worker[v].iid] = "describe" <=> v = "descriptions"
          BY <3>1, <4>1, BusyFacts
      <4>3. Op[i] = "describe" <=> w = "descriptions"
          BY <1>1, <1>2, BusyFacts
      <4> QED BY <1>2, <2>3, <3>1, <4>2, <4>3 DEF Lanes
    <3> QED BY <1>3, <2>1, <3>1, WorkerStays
  <2> QED BY <2>2, <2>3
<1>7. TypeInv'
    BY <1>2, <1>4 DEF Inv, TypeInv, PinsOK
<1>8. RevocationInv' /\ ApprovalIsConsent'
    BY <1>2 DEF Inv, RevocationInv, ApprovalIsConsent, Agrees
<1>9. worker'["descriptions"].pc # "scan"
    BY <1>4, LaneFacts DEF Inv
<1> QED BY <1>5, <1>6, <1>7, <1>8, <1>9 DEF Inv

LEMMA InvAround ==
    ASSUME Inv, \/ \E K \in Bootstraps : Bootstrap(K)
                \/ Approve \/ PermissionMoves \/ (\E k \in Kid : Expire(k)) \/ UNCHANGED vars
    PROVE  Inv'
<1>1. /\ UNCHANGED <<log, lane, worker, seen, stored, revoked>>
      /\ worker' \in [Workers -> Jobs] /\ \A v \in Workers : worker'[v] = worker[v]
    BY DEF Bootstrap, Approve, PermissionMoves, Expire, vars, ledger, files, channel, Inv, TypeInv
<1>2. PinsOK(pins') /\ PinsOK(disk') /\ Grows(pins, pins') /\ (Grows(pins, disk') \/ Grows(disk, disk'))
  <2>1. ASSUME NEW K \in Bootstraps, Bootstrap(K) PROVE <1>2!:
    <3>1. disk' = [pins EXCEPT !["scan"] = K] /\ pins' = disk' /\ pins["scan"] = {}
        BY <2>1 DEF Bootstrap
    <3>2. PinsOK(pins') /\ \A k \in PinKeys : pins'[k] = IF k = "scan" THEN K ELSE pins[k]
        BY <3>1 DEF Inv, TypeInv, PinsOK, PinKeys, Classes
    <3> QED BY <3>1, <3>2 DEF Grows, PinKeys, Classes
  <2>2. CASE UNCHANGED <<pins, disk>>
      BY <2>2 DEF Inv, TypeInv, PinsOK, Grows
  <2> QED BY <2>1, <2>2 DEF Approve, PermissionMoves, Expire, vars, files
<1>3. Keeps
    BY <1>1, <1>2 DEF Keeps
<1>4. perm' \in PermStates /\ (revoked' => perm' # "active")
    BY DEF Bootstrap, Approve, PermissionMoves, Expire, vars, ledger, Inv, TypeInv, RevocationInv, PermStates
<1>5. offer' \in Offers /\ ApprovalIsConsent'
    BY DEF Bootstrap, Approve, PermissionMoves, Expire, vars, ledger, Inv, TypeInv, Offers,
           ApprovalIsConsent
<1>6. TypeInv'
    BY <1>1, <1>2, <1>4, <1>5 DEF Inv, TypeInv
<1>7. RevocationInv'
    BY <1>1, <1>4 DEF Inv, RevocationInv, Agrees
<1>8. \A w \in Workers : WorkerInv(w)'
    BY <1>1, <1>3, WorkerStays DEF Untouched
<1>9. \A i \in seen' : Done(i)'
    BY <1>1, <1>3, DoneStays DEF Inv
<1> QED BY <1>1, <1>5, <1>6, <1>7, <1>8, <1>9 DEF Inv

LEMMA InvStep == ASSUME Inv, [Next]_vars PROVE Inv'
<1>1. ASSUME NEW w \in Workers, Work(w) \/ Fails(w) PROVE Inv'
  <2>1. CASE Work(w)
      BY <2>1, InvLookUp, InvHandleOffer, InvHandleRevoke, InvAnswers, InvSavePins,
         InvAppendAnswer, InvComplete DEF Work
  <2>2. CASE Fails(w)
      BY <2>2, InvAnswers, InvSavePins, InvEnds DEF Fails
  <2> QED BY <1>1, <2>1, <2>2
<1> QED BY <1>1, InvConnection, InvCrash, InvTake, InvAround DEF Next

\* The invariant holds in every state of the program.
THEOREM ChannelInvariant == Spec => []Inv
<1>1. Init => Inv
    BY InvInit
<1>2. Inv /\ [Next]_vars => Inv'
    BY InvStep
<1> QED BY <1>1, <1>2, PTL DEF Spec

\* What is recorded as seen was done, whatever fails between an effect, its
\* answer and Complete.
THEOREM SeenMeansDone == Spec => []SeenIsDone
<1>1. Inv => SeenIsDone
    BY DEF Inv, SeenIsDone, Done, RevocationInv
<1> QED BY <1>1, ChannelInvariant, PTL

\* All answers to one revocation name the same state of the permission.
THEOREM RevocationAnswersOnce == Spec => []RevocationAnswersAgree
<1>1. Inv => RevocationAnswersAgree
    BY DEF Inv, RevocationAnswersAgree, RevocationInv, Agrees
<1> QED BY <1>1, ChannelInvariant, PTL

\* An offer counts as approved only while the owner's approval of it stands.
THEOREM ApprovalNeedsConsent == Spec => []ApprovalIsConsent
<1>1. Inv => ApprovalIsConsent
    BY DEF Inv
<1> QED BY <1>1, ChannelInvariant, PTL

\* The pins of what was seen are in memory and on disk, whichever of two
\* connections, a bootstrap or a failed save wrote last.
THEOREM SeenStaysPinned == Spec => []SeenIsPinned
<1>1. Inv => SeenIsPinned
    BY DEF Inv, SeenIsPinned, Done, PinFacts
<1> QED BY <1>1, ChannelInvariant, PTL

\* No step of any worker sets the offer by an instruction that was seen.
THEOREM SeenNeverSets == Spec => SeenSetsNothing
<1> DEFINE Sets == <<offer.iid, offer.state>>' # <<offer.iid, offer.state>> => offer'.iid \notin seen
<1>1. ASSUME Inv, [Next]_vars PROVE [Sets]_vars
  <2>1. ASSUME NEW w \in Workers, HandleOffer(w) PROVE offer' = offer \/ offer'.iid \notin seen
    <3>1. w \in Lanes /\ At(w, "effect") /\ Busy(w)
        BY <2>1 DEF HandleOffer, Does, Alive, At, Busy
    <3>2. worker[w].iid \notin seen
        BY <1>1, <3>1 DEF Inv, WorkerInv
    <3> QED BY <2>1, <3>2 DEF HandleOffer, PutOffer, ledger
  <2>2. CASE Approve
      BY <1>1, <2>2 DEF Approve, Inv, TypeInv, Offers
  <2>3. ASSUME NEW w \in Workers, Work(w), ~HandleOffer(w) PROVE offer' = offer
      BY <2>3 DEF Work, LookUp, HandleRevoke, HandlePrepare, HandleDescribe, CheckRotation,
                  SavePins, AppendAnswer, Complete, ledger
  <2>4. ASSUME NEW w \in Workers, Fails(w) PROVE offer' = offer
      BY <2>4 DEF Fails, HandleFails, SavePinsFails, AppendFails, CompleteFails, Stop, ledger
  <2>5. CASE \/ Connect \/ Disconnect \/ ScanTick \/ Crash \/ Take \/ ScanFails
             \/ (\E i \in Iid : Deliver(i)) \/ (\E K \in Bootstraps : Bootstrap(K))
             \/ PermissionMoves \/ (\E k \in Kid : Expire(k)) \/ UNCHANGED vars
    <3>1. offer' = offer
        BY <2>5 DEF Connect, Disconnect, ScanTick, Crash, Take, TakeScan, ScanEnds, TakeInvalid,
                    TakeInstruction, TakeDescription, Outside, ScanFails, Deliver, Bootstrap,
                    PermissionMoves, Expire, vars, ledger
    <3> QED BY <3>1
  <2> QED BY <1>1, <2>1, <2>2, <2>3, <2>4, <2>5 DEF Next
<1>2. Spec => [][Sets]_vars
    BY <1>1, ChannelInvariant, PTL DEF Spec
<1> QED BY <1>2 DEF SeenSetsNothing
=============================================================================
