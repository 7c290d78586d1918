------------------------------ MODULE StateVolume ------------------------------
(***************************************************************************)
(* The state volume of a gateway: the files that pairing and the           *)
(* verification keys leave on it, over crashes of a process and of the     *)
(* host (internal/pairing/pairing.go, internal/verification/keys.go, and   *)
(* the callers in internal/gateway/gateway.go and cmd/aim-gateway).        *)
(*                                                                         *)
(* A rename is visible at once and durable when its directory has been     *)
(* synced; a crash of the host keeps, of every name changed since, the old *)
(* or the new entry.  A file is synced before it is renamed, so it is      *)
(* whole under either name, and is named here by the attempt or the random *)
(* value it holds.  An operator changes the pairing code and the version   *)
(* of the image only while no process runs.                                *)
(***************************************************************************)
EXTENDS Integers, Sequences, FiniteSets

CONSTANTS Procs, Codes, Versions, Runners, \* Runners are ids the backend may assign
          None, MaxCrashes, MaxStarts

PairFiles == <<"identity.key", "secret.bin", "pins.json">>
Marker == ".pairing-complete"
Receipt == "verification-receipt.key"
Commitment == "verification-commitment.key"
Registration == "verification-registration.json"
Bound == "verification-binding.json"
Paired == {PairFiles[i] : i \in DOMAIN PairFiles}
KeyFiles == {Receipt, Commitment, Registration, Bound}
Names == Paired \cup {Marker} \cup KeyFiles

VARIABLES visible, durable, \* name -> content, None when there is no such file
          staged,           \* the names in .pairing-staging, None when there is none
          code, version,    \* AIM_PAIRING_CODE (or None), and the image
          used,             \* codes the backend has answered: each once
          named,            \* <<nonce, runner>> of the tokens it has issued
          proc,             \* each process of the gateway
          fresh,            \* random values drawn so far
          loaded, opened, acked, \* what LoadOrPair, OpenKeys and Acknowledge returned
          crashes, starts

vars == <<visible, durable, staged, code, version, used, named, proc, fresh,
          loaded, opened, acked, crashes, starts>>

NoBinding == [runner |-> None, nonce |-> None, version |-> None]
Off == [pc |-> "off", then |-> "off", attempt |-> None, left |-> <<>>, binding |-> NoBinding]

Init ==
    /\ visible = [n \in Names |-> None] /\ durable = visible /\ staged = None
    /\ code \in Codes /\ version \in Versions /\ used = {} /\ named = {}
    /\ proc = [p \in Procs |-> Off] /\ fresh = 0
    /\ loaded = {} /\ opened = {} /\ acked = {} /\ crashes = 0 /\ starts = 0

At(p, pc) == proc[p].pc = pc
Goto(p, pc) == proc' = [proc EXCEPT ![p].pc = pc]
Fail(p) == proc' = [proc EXCEPT ![p] = Off]
Has(n) == visible[n] # None

Entries == <<visible, durable, staged>>
World == <<code, version, used, named, fresh, loaded, opened, acked, crashes, starts>>

\* syncDirectory of the volume, and the step that follows it.
Sync(p) ==
    /\ At(p, "sync")
    /\ durable' = visible
    /\ Goto(p, proc[p].then)
    /\ UNCHANGED <<visible, staged, World>>

-----------------------------------------------------------------------------
(* Pairing *)

\* run: LoadOrPair pairs when a code is set, and loads otherwise.
Start(p) ==
    /\ At(p, "off") /\ starts < MaxStarts
    /\ starts' = starts + 1
    /\ Goto(p, IF code # None THEN "pair" ELSE "load")
    /\ UNCHANGED <<Entries, code, version, used, named, fresh, loaded, opened, acked, crashes>>

\* Pair: what an interrupted attempt staged is removed first.
Clean(p) ==
    /\ At(p, "pair")
    /\ staged' = None
    /\ Goto(p, "empty")
    /\ UNCHANGED <<visible, durable, World>>

RequireEmpty(p) ==
    /\ At(p, "empty")
    /\ IF staged = None /\ \A n \in Names : ~Has(n) THEN Goto(p, "post") ELSE Fail(p)
    /\ UNCHANGED <<Entries, World>>

\* The POST: the backend takes a code once, and its answer may be lost.
Post(p) ==
    /\ At(p, "post")
    /\ \/ /\ code \notin used
          /\ used' = used \cup {code} /\ fresh' = fresh + 1
          /\ \/ proc' = [proc EXCEPT ![p].pc = "stage", ![p].attempt = fresh + 1, ![p].left = PairFiles]
             \/ Fail(p)
       \/ Fail(p) /\ UNCHANGED <<used, fresh>>
    /\ UNCHANGED <<Entries, code, version, named, loaded, opened, acked, crashes, starts>>

\* Mkdir, and the three files written and synced under it.
Stage(p) ==
    /\ At(p, "stage")
    /\ IF staged = None THEN staged' = Paired /\ Goto(p, "rename") ELSE Fail(p) /\ UNCHANGED staged
    /\ UNCHANGED <<visible, durable, World>>

InStage(n) == staged # None /\ n \in staged

ThenMarkUnsynced(pr) == [pr EXCEPT !.pc = "mark"]

\* The step after the last rename: the directory is synced before the marker.
ThenMark(pr) == [pr EXCEPT !.pc = "sync", !.then = "mark"]
Rename(p) ==
    LET n == proc[p].left[1]
        rest == [proc[p] EXCEPT !.left = Tail(@)]
    IN  /\ At(p, "rename")
        /\ IF InStage(n)
           THEN /\ visible' = [visible EXCEPT ![n] = proc[p].attempt]
                /\ staged' = staged \ {n}
                /\ proc' = [proc EXCEPT ![p] = IF rest.left = <<>> THEN ThenMark(rest) ELSE rest]
           ELSE Fail(p) /\ UNCHANGED <<visible, staged>>
        /\ UNCHANGED <<durable, World>>

\* The marker is written and synced in the staging directory, then renamed.
Mark(p) ==
    /\ At(p, "mark")
    /\ IF staged # None THEN staged' = staged \cup {Marker} /\ Goto(p, "publish")
       ELSE Fail(p) /\ UNCHANGED staged
    /\ UNCHANGED <<visible, durable, World>>

Publish(p) ==
    /\ At(p, "publish")
    /\ IF InStage(Marker)
       THEN /\ visible' = [visible EXCEPT ![Marker] = proc[p].attempt]
            /\ staged' = staged \ {Marker}
            /\ proc' = [proc EXCEPT ![p].pc = "sync", ![p].then = "finish"]
       ELSE Fail(p) /\ UNCHANGED <<visible, staged>>
    /\ UNCHANGED <<durable, World>>

\* The staging directory is removed; the process goes on with its own keys.
FinishPair(p) ==
    /\ At(p, "finish")
    /\ IF staged = {} THEN staged' = None /\ Goto(p, "keys") /\ loaded' = loaded \cup {proc[p].attempt}
       ELSE Fail(p) /\ UNCHANGED <<staged, loaded>>
    /\ UNCHANGED <<visible, durable, code, version, used, named, fresh, opened, acked, crashes, starts>>

\* Load: what the three files hold, once the marker is there.  `approve' loads
\* beside a running process, and any Load removes the staging directory.
Load(p) ==
    /\ At(p, "load")
    /\ staged' = None
    /\ IF Has(Marker) /\ \A n \in Paired : Has(n)
       THEN Goto(p, "keys") /\ loaded' = loaded \cup {visible[n] : n \in Paired}
       ELSE Fail(p) /\ UNCHANGED loaded
    /\ UNCHANGED <<visible, durable, code, version, used, named, fresh, opened, acked, crashes, starts>>

Approve ==
    /\ staged # None /\ staged' = None
    /\ UNCHANGED <<visible, durable, proc, World>>

-----------------------------------------------------------------------------
(* Verification keys *)

KeySteps == {"commitment", "binding", "ready"}

\* OpenKeys holds verification-keys.lock from its first read to its return.
Locked(p) ==
    \A q \in Procs \ {p} : proc[q].pc \notin KeySteps /\ ~(At(q, "sync") /\ proc[q].then \in KeySteps)

\* atomicFile: the rename; the sync of the directory follows.
Store(p, n, what, then) ==
    /\ visible' = [visible EXCEPT ![n] = what]
    /\ proc' = [proc EXCEPT ![p].pc = "sync", ![p].then = then]

\* OpenKeys: the receipt key is drawn when no key file is there at all.
OpenKeys(p) ==
    /\ At(p, "keys") /\ Locked(p)
    /\ IF Has(Receipt) THEN Goto(p, "binding") /\ UNCHANGED <<visible, fresh>>
       ELSE IF \E n \in KeyFiles : Has(n) THEN Fail(p) /\ UNCHANGED <<visible, fresh>>
       ELSE Store(p, Receipt, fresh + 1, "commitment") /\ fresh' = fresh + 1
    /\ UNCHANGED <<durable, staged, code, version, used, named, loaded, opened, acked, crashes, starts>>

OpenCommitment(p) ==
    /\ At(p, "commitment")
    /\ Store(p, Commitment, fresh + 1, "binding") /\ fresh' = fresh + 1
    /\ UNCHANGED <<durable, staged, code, version, used, named, loaded, opened, acked, crashes, starts>>

Current(b) == b.nonce # None /\ b.version = version

\* The request of another image: the runner the binding names, a new nonce.
RequestForgetful(b) == [runner |-> None, nonce |-> fresh + 1, version |-> version]
Request(b) == [runner |-> b.runner, nonce |-> fresh + 1, version |-> version]

\* OpenKeys: the binding of this image, its pending request, or a new request.
OpenBinding(p) ==
    LET b == IF Has(Bound) THEN visible[Bound] ELSE NoBinding
        pending == IF Has(Registration) THEN visible[Registration] ELSE NoBinding
        kept == IF Current(b) THEN b ELSE pending
    IN  /\ At(p, "binding")
        /\ IF ~Has(Commitment) THEN Fail(p) /\ UNCHANGED <<visible, fresh>>
           ELSE IF Current(kept)
           THEN /\ proc' = [proc EXCEPT ![p].pc = "ready", ![p].binding = kept]
                /\ UNCHANGED <<visible, fresh>>
           ELSE /\ visible' = [visible EXCEPT ![Registration] = Request(b)]
                /\ proc' = [proc EXCEPT ![p].pc = "sync", ![p].then = "ready", ![p].binding = Request(b)]
                /\ fresh' = fresh + 1
        /\ UNCHANGED <<durable, staged, code, version, used, named, loaded, opened, acked, crashes, starts>>

HoldsRunner(p) ==
    \/ proc[p].pc \in {"running", "acknowledged"}
    \/ At(p, "sync") /\ proc[p].then = "acknowledged"

\* OpenKeys returns; LockRunner lets one process of the volume go on.
Ready(p) ==
    /\ At(p, "ready")
    /\ opened' = opened \cup {<<visible[Receipt], visible[Commitment]>>}
    /\ IF \E q \in Procs : HoldsRunner(q)
       THEN Fail(p) ELSE Goto(p, "running")
    /\ UNCHANGED <<Entries, code, version, used, named, fresh, loaded, acked, crashes, starts>>

\* Acknowledge: a token for the nonce of this process that names runner r.  The
\* backend answers a nonce with one runner, and any nonce with any runner.
Acknowledge(p, r) ==
    LET b == [proc[p].binding EXCEPT !.runner = r]
    IN  /\ At(p, "running")
        /\ proc[p].binding.runner \in {None, r}
        /\ \A k \in named : k[1] = b.nonce => k[2] = r
        /\ named' = named \cup {<<b.nonce, r>>}
        /\ Store(p, Bound, b, "acknowledged")
        /\ UNCHANGED <<durable, staged, code, version, used, fresh, loaded, opened, acked, crashes, starts>>

Acknowledged(p) ==
    /\ At(p, "acknowledged")
    /\ proc' = [proc EXCEPT ![p].pc = "running", ![p].binding = visible[Bound]]
    /\ acked' = acked \cup {visible[Bound].runner}
    /\ UNCHANGED <<Entries, code, version, used, named, fresh, loaded, opened, crashes, starts>>

-----------------------------------------------------------------------------
(* The world *)

\* The operator sets another code, or none, or another image.
Configure ==
    /\ \A p \in Procs : At(p, "off")
    /\ \E c \in Codes \cup {None}, v \in Versions :
          <<c, v>> # <<code, version>> /\ code' = c /\ version' = v
    /\ UNCHANGED <<Entries, proc, used, named, fresh, loaded, opened, acked, crashes, starts>>

\* A process is killed: the host keeps its page cache.
Kill(p) ==
    /\ ~At(p, "off") /\ Fail(p)
    /\ UNCHANGED <<Entries, World>>

HostCrash ==
    /\ crashes < MaxCrashes /\ crashes' = crashes + 1
    /\ \E lost \in SUBSET {n \in Names : visible[n] # durable[n]} :
          visible' = [n \in Names |-> IF n \in lost THEN durable[n] ELSE visible[n]]
    /\ durable' = visible'
    /\ staged' \in {None, staged}
    /\ proc' = [p \in Procs |-> Off]
    /\ UNCHANGED <<code, version, used, named, fresh, loaded, opened, acked, starts>>

PairStep(p) ==
    Clean(p) \/ RequireEmpty(p) \/ Post(p) \/ Stage(p) \/ Rename(p) \/ Mark(p) \/ Publish(p) \/ FinishPair(p)

KeyStep(p) ==
    OpenKeys(p) \/ OpenCommitment(p) \/ OpenBinding(p) \/ Ready(p) \/ Acknowledged(p)

Next ==
    \/ \E p \in Procs : Start(p) \/ Sync(p) \/ PairStep(p) \/ Load(p) \/ KeyStep(p) \/ Kill(p)
    \/ \E p \in Procs, r \in Runners : Acknowledge(p, r)
    \/ Approve \/ Configure \/ HostCrash

Spec == Init /\ [][Next]_vars

-----------------------------------------------------------------------------
(* Properties *)

\* A volume that says it is paired holds the whole state of one attempt, and
\* whatever crashes, restarts and upgrades follow, the gateway has one identity
\* and one pair of verification keys ("Never reset consent identity",
\* keys.go:83).  Once a runner has been acknowledged it stays the runner, as
\* long as the host does not crash: a pending registration is used unsynced
\* (keys.go:133), and a crash may take it back and keep the binding that
\* followed from it (pairing.go: Pair; keys.go: OpenKeys, Acknowledge).
VolumeKeepsIdentity ==
    /\ Has(Marker) => \A n \in Paired : visible[n] = visible[Marker]
    /\ Cardinality(loaded) <= 1
    /\ Cardinality(opened) <= 1
    /\ crashes = 0 => Cardinality(acked) <= 1
=============================================================================
