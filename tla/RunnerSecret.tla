------------------------------ MODULE RunnerSecret ------------------------------
(***************************************************************************)
(* The secret of the AWS verifier: its receipt key, its registration, its  *)
(* pinned keys, over invocations that overlap and die anywhere             *)
(* (awsverification/bootstrap.go: Bootstrap, Rotate; aws.go: Secrets).     *)
(*                                                                         *)
(* Secrets Manager has no conditional write, so a row of the ledger (the   *)
(* fence) reserves the next immutable version of the secret first.  Both   *)
(* writes may be done and their answer lost, in which case the invocation  *)
(* ends as if they had not.  The seven days an outgoing key stays valid    *)
(* are left out: a key that was pinned stays usable.                       *)
(***************************************************************************)
EXTENDS Integers, FiniteSets

CONSTANTS Slots,         \* invocations that may overlap
          Runners,       \* ids the backend may assign
          FirstKeys,     \* what a registration pins
          Tokens,        \* rotations: [by |-> signing key, key |-> key it adds]
          None,
          MaxInvocations

NoFence == [version |-> 0, id |-> None]

VARIABLES lease,     \* row "bootstrap" of the ledger
          fence,     \* row "secret": the version reserved last, and its id
          secrets,   \* id -> secret, for each version that was put
          assigned,  \* <<nonce, runner>> of the registrations the backend took
          inv,       \* each invocation
          fresh, invocations,
          keysUsed, runnersUsed, pinned \* what Bootstrap and Rotate have returned

vars == <<lease, fence, secrets, assigned, inv, fresh, invocations, keysUsed, runnersUsed, pinned>>

Done == [pc |-> "done", secret |-> None, next |-> None, id |-> None, then |-> "done"]
NewSecret(k) ==
    [version |-> 0, key |-> k, registering |-> TRUE, runner |-> None, rotation |-> None, pins |-> {}]

Init ==
    /\ lease = FALSE /\ fence = NoFence /\ secrets = [i \in {} |-> None] /\ assigned = {}
    /\ inv = [i \in Slots |-> Done] /\ fresh = 0 /\ invocations = 0
    /\ keysUsed = {} /\ runnersUsed = {} /\ pinned = {}

At(i, pc) == inv[i].pc = pc
Becomes(i, r) == inv' = [inv EXCEPT ![i] = r]
Fail(i) == Becomes(i, Done)
Cloud == <<lease, fence, secrets, assigned>>
Seen == <<keysUsed, runnersUsed, pinned>>

Invoke(i) ==
    /\ At(i, "done") /\ invocations < MaxInvocations
    /\ invocations' = invocations + 1
    /\ Becomes(i, [Done EXCEPT !.pc = "load"])
    /\ UNCHANGED <<Cloud, fresh, Seen>>

\* Secrets.Load: the version the fence names, never an older one, and nothing
\* at all only when no version was ever reserved.
Load(i) ==
    /\ At(i, "load")
    /\ IF fence = NoFence
       THEN Becomes(i, [Done EXCEPT !.pc = "claim"])
       ELSE Becomes(i, [Done EXCEPT !.pc = "read", !.id = fence.id, !.next = fence.version])
    /\ UNCHANGED <<Cloud, fresh, invocations, Seen>>

\* The second half of Load, and the check that the lease was taken.
ReadSecret(i) ==
    /\ At(i, "read")
    /\ IF lease /\ inv[i].id \in DOMAIN secrets /\ secrets[inv[i].id].version = inv[i].next
       THEN LET s == secrets[inv[i].id]
            IN  Becomes(i, [Done EXCEPT !.pc = IF s.runner # None THEN "ready" ELSE "register", !.secret = s])
       ELSE Fail(i)
    /\ UNCHANGED <<Cloud, fresh, invocations, Seen>>

\* Bootstrap: the lease is put when there is none, then the keys are drawn.
Claim(i) ==
    /\ At(i, "claim")
    /\ IF lease THEN Fail(i) /\ UNCHANGED <<lease, fresh>>
       ELSE /\ lease' = TRUE /\ fresh' = fresh + 1
            /\ \/ Becomes(i, [Done EXCEPT !.pc = "reserve", !.next = NewSecret(fresh + 1), !.then = "register"])
               \/ Fail(i)
    /\ UNCHANGED <<fence, secrets, assigned, invocations, Seen>>

FenceAny(version) == TRUE

\* The condition of the fence: the version that was loaded is still the last.
FenceIs(version) == fence.version = version

\* Save: the next version is reserved under a new random id.
Reserve(i) ==
    LET version == inv[i].next.version
        id == fresh + 1
    IN  /\ At(i, "reserve")
        /\ IF FenceIs(version)
           THEN /\ fence' = [version |-> version + 1, id |-> id]
                /\ fresh' = fresh + 1
                /\ \/ Becomes(i, [inv[i] EXCEPT !.pc = "put", !.id = id])
                   \/ Fail(i)
           ELSE Fail(i) /\ UNCHANGED <<fence, fresh>>
        /\ UNCHANGED <<lease, secrets, assigned, invocations, Seen>>

\* Save: the secret itself.
Put(i) ==
    LET s == [inv[i].next EXCEPT !.version = @ + 1]
    IN  /\ At(i, "put")
        /\ \/ /\ secrets' = [d \in DOMAIN secrets \cup {inv[i].id} |-> IF d = inv[i].id THEN s ELSE secrets[d]]
              /\ \/ Becomes(i, [Done EXCEPT !.pc = inv[i].then, !.secret = s])
                 \/ Fail(i)
           \/ Fail(i) /\ UNCHANGED secrets
        /\ UNCHANGED <<lease, fence, assigned, fresh, invocations, Seen>>

\* Bootstrap: the exact stored request, which the backend answers with one
\* runner however often it comes; then the secret with the runner is saved.
Register(i) ==
    LET s == inv[i].secret
        mine == {a \in assigned : a[1] = s.key}
    IN  /\ At(i, "register") /\ s.registering
        /\ \E r \in Runners :
              /\ \A a \in mine : a[2] = r
              /\ assigned' = assigned \cup {<<s.key, r>>}
              /\ \/ Becomes(i, [Done EXCEPT !.pc = "reserve", !.then = "ready",
                                   !.next = [s EXCEPT !.runner = r, !.registering = FALSE, !.pins = FirstKeys]])
                 \/ Fail(i)
        /\ UNCHANGED <<lease, fence, secrets, fresh, invocations, Seen>>

\* Bootstrap returns: the invocation works with this secret from here on.
Ready(i) ==
    /\ At(i, "ready")
    /\ keysUsed' = keysUsed \cup {inv[i].secret.key}
    /\ runnersUsed' = runnersUsed \cup {inv[i].secret.runner}
    /\ Becomes(i, [inv[i] EXCEPT !.pc = "work"])
    /\ UNCHANGED <<Cloud, fresh, invocations, pinned>>

\* Rotate: a token signed by a pinned key adds a key that is not pinned yet.
Rotate(i, t) ==
    LET s == inv[i].secret
    IN  /\ At(i, "work") /\ t # s.rotation
        /\ t.by \in s.pins /\ t.key \notin s.pins
        /\ Becomes(i, [inv[i] EXCEPT !.pc = "reserve", !.then = "rotated",
                          !.next = [s EXCEPT !.rotation = t, !.pins = @ \cup {t.key}]])
        /\ UNCHANGED <<Cloud, fresh, invocations, Seen>>

\* Invoke records the rotation as done.
Rotated(i) ==
    /\ At(i, "rotated")
    /\ pinned' = pinned \cup inv[i].secret.pins
    /\ Fail(i)
    /\ UNCHANGED <<Cloud, fresh, invocations, keysUsed, runnersUsed>>

\* The platform ends an invocation, or it has nothing more to do.
End(i) ==
    /\ ~At(i, "done")
    /\ Fail(i)
    /\ UNCHANGED <<Cloud, fresh, invocations, Seen>>

Next ==
    \E i \in Slots :
        \/ Invoke(i) \/ Load(i) \/ ReadSecret(i) \/ Claim(i) \/ Reserve(i) \/ Put(i)
        \/ Register(i) \/ Ready(i) \/ Rotated(i) \/ End(i)
        \/ \E t \in Tokens : Rotate(i, t)

Spec == Init /\ [][Next]_vars

-----------------------------------------------------------------------------
(* Properties *)

\* However invocations overlap and die, they all work with one receipt key and
\* as one runner, and a rotation that was recorded as done is in every secret
\* that can still be read ("Never replace keys", bootstrap.go:80; "refuses work
\* rather than resetting key history", aws.go:134).
KeyHistoryKept ==
    /\ Cardinality(keysUsed) <= 1
    /\ Cardinality(runnersUsed) <= 1
    /\ fence.id \in DOMAIN secrets => pinned \subseteq secrets[fence.id].pins
=============================================================================
