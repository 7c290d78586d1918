---------------------------- MODULE ControlChannel ----------------------------
(***************************************************************************)
(* The control channel of the gateway: signed instructions of ai.market    *)
(* arrive over a websocket, wait in a lane of the connection, are handled  *)
(* by the worker of that lane, answered in the audit log and then recorded *)
(* as seen (internal/channel/channel.go, Connect; internal/gateway/        *)
(* gateway.go, Handle).  ai.market sends an instruction again until it is  *)
(* seen, on the same or on a later connection and in any order.            *)
(*                                                                         *)
(* The work of a connection has a context that ends with the connection.   *)
(* Every statement on the ledger fails from then on, but savePins and the  *)
(* append to the audit log know no context, so the worker of a dropped     *)
(* connection may still finish one of them beside its successor.           *)
(*                                                                         *)
(* One file in one listing version, one permission.  What makes an offer   *)
(* or a description acceptable is an input.  Receipts, inventories and the *)
(* delivery of the log are the subject of ReceiptDelivery.                 *)
(***************************************************************************)
EXTENDS Integers, Sequences, FiniteSets, FiniteSetsExt

CONSTANTS
    Iid,        \* instructions
    Op,         \* their operations
    Signer,     \* the key that signed each
    Keys,       \* the keys a rotation adds
    Workloads,  \* sets of instructions ai.market may have issued
    Kid,        \* key ids
    Paired,     \* the keys of each class at pairing
    Bootstraps, \* key sets of signed scan bootstraps
    BootSigner, \* the listing key that signed them
    Approval,   \* whether offers need local approval
    Capacity,   \* jobs that wait in a lane (64)
    MaxScans,   \* bound: periodic scans
    MaxFaults,  \* bound: crashes, disconnects and failed operations
    Scan, None

Classes == {"listing", "permission", "scan"}
PermStates == {"unknown", "active", "expired", "closed"}

ASSUME ChannelAssumption ==
    /\ Signer \in [Iid -> Kid] /\ Keys \in [Iid -> SUBSET Kid]
    /\ Workloads \subseteq SUBSET Iid
    /\ Paired \in [Classes -> SUBSET Kid] /\ Bootstraps \subseteq SUBSET Kid
    /\ Capacity \in Nat /\ MaxScans \in Nat /\ MaxFaults \in Nat
    /\ Approval \in BOOLEAN /\ Scan \notin Iid /\ None \notin Iid \cup PermStates

VARIABLES
    (* the ledger *)
    seen,     \* seen_instructions
    offer,    \* the row of offers
    perm,     \* state of the permission as a revocation reads it
    revoked,  \* whether it is in revocations
    stored,   \* revocation_answers
    (* files *)
    disk,     \* pins.json
    log,      \* answers in the audit log
    (* the process *)
    pins,     \* Gateway.State.Pins
    latched,  \* Log: an append failed
    conn,     \* whether the context of the connection stands
    lane,     \* jobs and descriptions
    worker,   \* their workers, and those of the connection before
    (* environment *)
    issued,   \* the workload
    past,     \* keys whose expiry in the pins has passed
    scans, faults,
    (* history *)
    consent   \* the offer the owner approved, while it stands

vars == <<seen, offer, perm, revoked, stored, disk, log, pins, latched, conn,
          lane, worker, issued, past, scans, faults, consent>>
ledger == <<seen, offer, perm, revoked, stored, consent>>
files  == <<disk, pins, past, log, latched>>
channel == <<conn, lane, worker>>

-----------------------------------------------------------------------------
Lanes    == {"jobs", "descriptions"}
OldOf    == [jobs |-> "old jobs", descriptions |-> "old descriptions"]
Old      == {OldOf[l] : l \in Lanes}
LaneOf(w) == CHOOSE l \in Lanes : OldOf[l] = w
Workers  == Lanes \cup Old
Idle     == [pc |-> "idle", iid |-> None, class |-> None, body |-> None]
NoOffer  == [state |-> "none", iid |-> None, approved |-> FALSE]
Silent   == {"key_rotation", "minimum_version"}

\* Client.keys: the pinned keys of a class that have not expired.
Active(class) == pins[class] \ past

\* Instruction.Kind and Client.verify; None if no key of the class fits.
ClassesOf(i) ==
    CASE Op[i] \in {"offer", "unoffer", "describe", "minimum_version"} -> <<"listing">>
      [] Op[i] \in {"revoke", "prepare"} -> <<"permission">>
      [] OTHER -> <<"listing", "permission", "scan">>
Fitting(i) == {n \in DOMAIN ClassesOf(i) : Signer[i] \in Active(ClassesOf(i)[n])}
ClassOf(i) == IF Fitting(i) = {} THEN None ELSE ClassesOf(i)[Min(Fitting(i))]

InFlight(i) == \E l \in Lanes : worker[l].iid = i \/ \E n \in DOMAIN lane[l] : lane[l][n] = i

Fault == faults < MaxFaults /\ faults' = faults + 1

Init ==
    /\ issued \in Workloads
    /\ seen = {} /\ offer = NoOffer /\ perm = "unknown" /\ revoked = FALSE
    /\ stored = [i \in Iid |-> None] /\ log = {}
    /\ pins = [c \in Classes \cup {"expires", "version"} |->
                 IF c = "expires" THEN {} ELSE IF c = "version" THEN None ELSE Paired[c]]
    /\ disk = pins /\ latched = FALSE
    /\ conn = FALSE /\ lane = [l \in Lanes |-> <<>>] /\ worker = [w \in Workers |-> Idle]
    /\ past = {} /\ scans = 0 /\ faults = 0 /\ consent = None

-----------------------------------------------------------------------------
(* The connection *)

\* Connect returns: its context ends and its queues are lost.  Of its workers
\* those run on that need no context for their next step.
Outlives(x) == \/ x.pc \in {"lock", "append"}
               \/ x.pc = "effect" /\ Op[x.iid] = "key_rotation"
Drop(W) ==
    /\ conn' = FALSE
    /\ lane' = [l \in Lanes |-> <<>>]
    /\ worker' = [w \in Workers |-> IF w \in Old /\ Outlives(W[LaneOf(w)])
                                    THEN W[LaneOf(w)] ELSE Idle]

Queue(l, job) ==
    IF Len(lane[l]) < Capacity
    THEN lane' = [lane EXCEPT ![l] = Append(@, job)] /\ UNCHANGED <<conn, worker>>
    ELSE Drop(worker)

Connect ==
    /\ ~conn
    /\ conn' = TRUE /\ lane' = [lane EXCEPT !["jobs"] = <<Scan>>]
    /\ UNCHANGED <<ledger, files, worker, issued, scans, faults>>

Disconnect ==
    /\ conn /\ Fault /\ Drop(worker)
    /\ UNCHANGED <<ledger, files, issued, scans>>

\* ai.market sends an instruction, seen or not, with one copy under way at a time.
Deliver(i) ==
    /\ conn /\ i \in issued /\ ~InFlight(i) /\ Queue("jobs", i)
    /\ UNCHANGED <<ledger, files, issued, scans, faults>>

ScanTick ==
    /\ conn /\ scans < MaxScans /\ scans' = scans + 1 /\ Queue("jobs", Scan)
    /\ UNCHANGED <<ledger, files, issued, faults>>

Crash ==
    /\ Fault
    /\ conn' = FALSE /\ lane' = [l \in Lanes |-> <<>>] /\ worker' = [w \in Workers |-> Idle]
    /\ pins' = disk /\ latched' = FALSE
    /\ UNCHANGED <<ledger, disk, past, log, issued, scans>>

-----------------------------------------------------------------------------
(* The workers take jobs *)

Taken(l) == lane' = [lane EXCEPT ![l] = Tail(@)]
Takes(l) == conn /\ worker[l] = Idle /\ lane[l] # <<>>
Outside  == UNCHANGED <<ledger, files, issued, scans, faults>>

TakeScan ==
    /\ Takes("jobs") /\ Head(lane["jobs"]) = Scan /\ Taken("jobs")
    /\ worker' = [worker EXCEPT !["jobs"].pc = "scan"]
    /\ UNCHANGED conn /\ Outside

ScanEnds ==
    /\ worker["jobs"].pc = "scan" /\ worker' = [worker EXCEPT !["jobs"] = Idle]
    /\ UNCHANGED <<conn, lane>> /\ Outside

ScanFails ==
    /\ worker["jobs"].pc = "scan" /\ Fault /\ Drop([worker EXCEPT !["jobs"] = Idle])
    /\ UNCHANGED <<ledger, files, issued, scans>>

Starts(l, i) == worker' = [worker EXCEPT ![l] = [pc |-> "handle", iid |-> i,
                                                 class |-> ClassOf(i), body |-> None]]

\* A token that does not verify is dropped without an answer.
TakeInvalid ==
    /\ Takes("jobs") /\ Head(lane["jobs"]) # Scan /\ ClassOf(Head(lane["jobs"])) = None
    /\ Taken("jobs") /\ UNCHANGED <<conn, worker>> /\ Outside

\* A describe moves on to its own lane; everything else is processed.
TakeInstruction ==
    /\ Takes("jobs")
    /\ LET i == Head(lane["jobs"]) IN
       /\ i # Scan /\ ClassOf(i) # None
       /\ IF Op[i] # "describe" THEN Starts("jobs", i) /\ Taken("jobs") /\ UNCHANGED conn
          ELSE IF Len(lane["descriptions"]) < Capacity
          THEN /\ lane' = [jobs |-> Tail(lane["jobs"]),
                           descriptions |-> Append(lane["descriptions"], i)]
               /\ UNCHANGED <<conn, worker>>
          ELSE Drop(worker)
    /\ Outside

TakeDescription ==
    /\ Takes("descriptions")
    /\ Starts("descriptions", Head(lane["descriptions"])) /\ Taken("descriptions")
    /\ UNCHANGED conn /\ Outside

-----------------------------------------------------------------------------
(* Handle: statements on the ledger, which need a context that stands *)

Alive(w)  == w \in Lanes
At(w, pc) == worker[w].pc = pc
Goes(w, pc) == worker' = [worker EXCEPT ![w].pc = pc]
Ends(w)   == worker' = [worker EXCEPT ![w] = Idle]
Answers(w, body) == worker' = [worker EXCEPT ![w].pc = "append", ![w].body = body]
Does(w, ops) == Alive(w) /\ At(w, "effect") /\ Op[worker[w].iid] \in ops
Rest == UNCHANGED <<conn, lane, issued, scans>>

\* WasSeen; of a seen instruction only Complete is repeated.
LookUpNever(w) ==
    /\ Alive(w) /\ At(w, "handle")
    /\ Goes(w, IF Op[worker[w].iid] = "minimum_version" THEN "lock" ELSE "effect")
    /\ UNCHANGED <<ledger, files, faults>> /\ Rest
LookUp(w) ==
    /\ Alive(w) /\ At(w, "handle")
    /\ Goes(w, IF worker[w].iid \in seen THEN "complete"
               ELSE IF Op[worker[w].iid] = "minimum_version" THEN "lock" ELSE "effect")
    /\ UNCHANGED <<ledger, files, faults>> /\ Rest

\* The approval of an offer survives its withdrawal and its redelivery.
KeepsApprovalOfFile(i, state) == state = "withdrawn" \/ offer.state = "offered"
KeepsApproval(i, state) ==
    \/ state = "withdrawn"
    \/ offer.state = "offered" /\ state = "offered" /\ offer.iid = i
PutOffer(i, state) ==
    /\ offer' = [state |-> state, iid |-> i, approved |-> KeepsApproval(i, state) /\ offer.approved]
    /\ consent' = IF state = "offered" /\ consent = i THEN consent ELSE None
    /\ UNCHANGED <<seen, perm, revoked, stored>>

HandleOffer(w) ==
    /\ Does(w, {"offer", "unoffer"})
    /\ \/ /\ PutOffer(worker[w].iid, IF Op[worker[w].iid] = "offer" THEN "offered" ELSE "withdrawn")
          /\ Answers(w, "ready")
       \/ Op[worker[w].iid] = "offer" /\ UNCHANGED ledger /\ Answers(w, "refused")
    /\ UNCHANGED <<files, faults>> /\ Rest

\* RevokeInstruction: the first answer is stored and given again.
RevokeAnswerAfresh(i) == perm
RevokeAnswer(i) == IF stored[i] # None THEN stored[i] ELSE perm
HandleRevoke(w) ==
    /\ Does(w, {"revoke"})
    /\ LET i == worker[w].iid IN
       /\ stored' = [stored EXCEPT ![i] = RevokeAnswer(i)]
       /\ IF stored[i] # None THEN UNCHANGED <<perm, revoked>>
          ELSE /\ revoked' = TRUE
               /\ perm' = IF perm = "unknown" THEN perm ELSE "closed"
       /\ Answers(w, RevokeAnswer(i))
    /\ UNCHANGED <<seen, offer, consent, files, faults>> /\ Rest

\* Prepare: the offer and its approval; the file and the coverage are inputs.
Offered == offer.state = "offered" /\ (Approval => offer.approved)
HandlePrepare(w) ==
    /\ Does(w, {"prepare"})
    /\ \/ Offered /\ Answers(w, "ready")
       \/ Answers(w, "refused")
    /\ UNCHANGED <<ledger, files, faults>> /\ Rest

HandleDescribe(w) ==
    /\ Does(w, {"describe"}) /\ Answers(w, "description")
    /\ UNCHANGED <<ledger, files, faults>> /\ Rest

\* A statement or a read fails: the answer is an error, and nothing is seen.
HandleFails(w) ==
    /\ Alive(w) /\ (At(w, "handle") \/ At(w, "effect")) /\ Fault /\ Answers(w, "error")
    /\ UNCHANGED <<ledger, files>> /\ Rest

-----------------------------------------------------------------------------
(* Handle: the pins, under keyMu, with or without a connection *)

\* The check for common key ids reads the pins before keyMu is taken.
Collides(i, class) ==
    IF class = "scan" THEN Keys[i] \cap (pins["permission"] \cup pins["listing"]) # {}
    ELSE Keys[i] \cap pins["scan"] # {}
CheckRotation(w) ==
    /\ At(w, "effect") /\ Op[worker[w].iid] = "key_rotation"
    /\ IF Collides(worker[w].iid, worker[w].class) THEN Answers(w, "error") ELSE Goes(w, "lock")
    /\ UNCHANGED <<ledger, files, faults>> /\ Rest

RotatedOnly(i, class) == [pins EXCEPT ![class] = Keys[i], !["expires"] = @ \cup {Signer[i]}]
Rotated(i, class) == [pins EXCEPT ![class] = @ \cup Keys[i], !["expires"] = @ \cup {Signer[i]}]
NewPins(w) == IF Op[worker[w].iid] = "minimum_version"
              THEN [pins EXCEPT !["version"] = worker[w].iid]
              ELSE Rotated(worker[w].iid, worker[w].class)

\* savePins writes a file beside pins.json and renames it.
SavePins(w) ==
    /\ At(w, "lock") /\ disk' = NewPins(w) /\ pins' = disk'
    /\ IF w \in Old THEN Ends(w) ELSE Goes(w, "complete")
    /\ UNCHANGED <<ledger, past, log, latched, faults>> /\ Rest

\* It may fail before or after the rename; the pins in memory stay.
SavePinsFails(w) ==
    /\ At(w, "lock") /\ Fault /\ disk' \in {disk, NewPins(w)}
    /\ IF w \in Old THEN Ends(w) ELSE Answers(w, "error")
    /\ UNCHANGED <<ledger, pins, past, log, latched>> /\ Rest

\* VerificationControl: the scan keys are set once, by the verification lane.
Disjoint(K) == /\ pins["permission"] \cap pins["listing"] = {}
               /\ K \cap (pins["permission"] \cup pins["listing"]) = {}
Bootstrap(K) ==
    /\ pins["scan"] = {} /\ BootSigner \in Active("listing") /\ Disjoint(K)
    /\ disk' = [pins EXCEPT !["scan"] = K] /\ pins' = disk'
    /\ UNCHANGED <<ledger, past, log, latched, channel, issued, scans, faults>>

-----------------------------------------------------------------------------
(* process: the answer, and the end of an instruction *)

\* An append is not bound to the connection.
AppendAnswerCompletes(w) ==
    /\ At(w, "append") /\ ~latched
    /\ log' = log \cup {[iid |-> worker[w].iid, body |-> worker[w].body]}
    /\ IF w \in Old THEN Ends(w) ELSE Goes(w, "complete")
    /\ UNCHANGED <<ledger, disk, pins, past, latched, faults>> /\ Rest
AppendAnswerUnrefused(w) ==
    /\ At(w, "append") /\ ~latched
    /\ log' = log \cup {[iid |-> worker[w].iid, body |-> worker[w].body]}
    /\ IF w \in Old \/ worker[w].body \in {"error", "refused"} THEN Ends(w) ELSE Goes(w, "complete")
    /\ UNCHANGED <<ledger, disk, pins, past, latched, faults>> /\ Rest
AppendAnswer(w) ==
    /\ At(w, "append") /\ ~latched
    /\ log' = log \cup {[iid |-> worker[w].iid, body |-> worker[w].body]}
    /\ IF w \in Old \/ worker[w].body = "error" THEN Ends(w) ELSE Goes(w, "complete")
    /\ UNCHANGED <<ledger, disk, pins, past, latched, faults>> /\ Rest

\* A failed append latches the log until the next start and ends the connection.
AppendFails(w) ==
    /\ At(w, "append")
    /\ IF latched THEN UNCHANGED faults ELSE Fault
    /\ latched' = TRUE
    /\ IF w \in Old THEN Ends(w) /\ UNCHANGED <<conn, lane>>
       ELSE Drop([worker EXCEPT ![w] = Idle])
    /\ UNCHANGED <<ledger, disk, pins, past, log, issued, scans>>

Complete(w) ==
    /\ Alive(w) /\ At(w, "complete")
    /\ seen' = seen \cup {worker[w].iid} /\ Ends(w)
    /\ UNCHANGED <<offer, perm, revoked, stored, consent, files, faults>> /\ Rest

CompleteFails(w) ==
    /\ Alive(w) /\ At(w, "complete") /\ Fault /\ Drop([worker EXCEPT ![w] = Idle])
    /\ UNCHANGED <<ledger, files, issued, scans>>

\* The worker of a dropped connection notices the end of its context before
\* it appends.
Stop(w) ==
    /\ w \in Old /\ At(w, "append") /\ Ends(w)
    /\ UNCHANGED <<ledger, files, faults>> /\ Rest

-----------------------------------------------------------------------------
(* Around the channel *)

\* aim-gateway approve, a process of its own: the pending offer is approved.
Approve ==
    /\ Approval /\ offer.state = "offered" /\ ~offer.approved
    /\ offer' = [offer EXCEPT !.approved = TRUE] /\ consent' = offer.iid
    /\ UNCHANGED <<seen, perm, revoked, stored, files, channel, issued, scans, faults>>

\* The permission is bound at the door, completes, or expires and is closed.
\* Followed only where a revocation can see it.
PermissionMoves ==
    /\ \E i \in issued : Op[i] = "revoke"
    /\ \/ perm = "unknown" /\ ~revoked /\ perm' = "active"
       \/ perm = "active" /\ perm' \in {"expired", "closed"}
       \/ perm = "expired" /\ perm' = "closed"
    /\ UNCHANGED <<seen, offer, revoked, stored, consent, files, channel, issued, scans, faults>>

\* Seven days after a rotation its signer expires.
Expire(k) ==
    /\ k \in pins["expires"] \ past /\ past' = past \cup {k}
    /\ UNCHANGED <<ledger, disk, pins, log, latched, channel, issued, scans, faults>>

Work(w) == \/ LookUp(w) \/ HandleOffer(w) \/ HandleRevoke(w) \/ HandlePrepare(w)
           \/ HandleDescribe(w) \/ CheckRotation(w) \/ SavePins(w)
           \/ AppendAnswer(w) \/ Complete(w)
Fails(w) == HandleFails(w) \/ SavePinsFails(w) \/ AppendFails(w) \/ CompleteFails(w) \/ Stop(w)
Take     == TakeScan \/ ScanEnds \/ TakeInvalid \/ TakeInstruction \/ TakeDescription

Next ==
    \/ Connect \/ Disconnect \/ ScanTick \/ Crash \/ Take \/ ScanFails
    \/ \E i \in Iid : Deliver(i)
    \/ \E w \in Workers : Work(w) \/ Fails(w)
    \/ \E K \in Bootstraps : Bootstrap(K)
    \/ Approve \/ PermissionMoves \/ \E k \in Kid : Expire(k)

Spec == Init /\ [][Next]_vars

\* The gateway reconnects, its workers run, and ai.market keeps sending what
\* is not seen.
FairSpec == /\ Spec /\ WF_vars(Connect) /\ WF_vars(Take)
            /\ \A w \in Workers : WF_vars(Work(w))
            /\ \A i \in Iid : WF_vars(i \notin seen /\ Deliver(i))

-----------------------------------------------------------------------------
(* Properties *)

\* What is recorded as seen was done: its answer is in the audit log, and the
\* permission of a revocation can never be bound again.  A crash, a lost
\* connection or a failure between effect, answer and Complete leaves the
\* instruction to be sent again (gateway.go: Handle; channel.go: process).
SeenIsDone ==
    \A i \in seen :
        /\ Op[i] \notin Silent => \E a \in log : a.iid = i /\ a.body # "error"
        /\ Op[i] = "revoke" => revoked /\ perm # "active"

\* An instruction sent again after its answer was appended is answered again,
\* but all answers to one revocation name the same state of the permission,
\* although the first of them changed it (ledger.go: RevokeInstruction).
RevocationAnswersAgree ==
    \A a, b \in {e \in log : Op[e.iid] = "revoke" /\ e.body # "error"} :
        a.iid = b.iid => a.body = b.body

\* An offer counts as approved only if the owner approved it, under this very
\* instruction and since it was last withdrawn (ledger.go: PutOffer, Approve).
ApprovalIsConsent == offer.state = "offered" /\ offer.approved => consent = offer.iid

\* An instruction that was seen never sets the offer again: neither its next
\* delivery nor the worker of a dropped connection that still holds it.
SeenSetsNothing ==
    [][<<offer.iid, offer.state>>' # <<offer.iid, offer.state>> => offer'.iid \notin seen]_vars

\* The pins of a rotation or minimum version that was seen are in memory and
\* on disk, whatever a failed save, a bootstrap, or the worker of a dropped
\* connection writes beside it.
Pinned(p) == UNION {p[c] : c \in Classes}
SeenIsPinned ==
    \A i \in seen : \A p \in {pins, disk} :
        /\ Op[i] = "key_rotation" => Keys[i] \subseteq Pinned(p) /\ Signer[i] \in p["expires"]
        /\ Op[i] = "minimum_version" => p["version"] # None

\* No instruction is lost: while its signer is pinned and the log accepts
\* entries after the last restart, every one is seen in the end, in whatever
\* order they arrive.  A describe expires instead.
EveryInstructionSeen ==
    <>[]~latched =>
        <>(\A i \in issued : i \in seen \/ Op[i] = "describe" \/ Signer[i] \in past)

\* The key ids of the three classes remain distinct (docs/data-flow.md:38).
KeyClassesDistinct == \A c, d \in Classes : c # d => pins[c] \cap pins[d] = {}
=============================================================================
