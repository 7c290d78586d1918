------------------------------ MODULE PartsProofs ------------------------------
(***************************************************************************)
(* The promises of the parts that meet no other part while they run, each  *)
(* for every value of the constants: theorems about Parts.  A section      *)
(* states the inductive invariant of one part and shows that its steps     *)
(* keep it; the last section says what follows of a behaviour of Parts.    *)
(***************************************************************************)
EXTENDS Parts, StateVolumeProofs, SequenceTheorems

\* An instance counts as the module does.
LEMMA Counting ==
    \A S : /\ Secret!Cardinality(S) = Cardinality(S)
           /\ Records!Cardinality(S) = Cardinality(S)
           /\ Described!Cardinality(S) = Cardinality(S)
<1> QED BY DEF Secret!Cardinality, Records!Cardinality, Described!Cardinality, Cardinality

-----------------------------------------------------------------------------
(* The secret of a hosted verifier (RunnerSecret) *)

\* The invocation works with a secret that was put, or is about to put one.
HasSecret(p) == p.pc \in {"register", "ready", "work", "rotated"}
Plans(p) == p.pc \in {"reserve", "put"}

Pinnable == FirstKeys \cup {t.key : t \in Tokens}
SecretType ==
    [version : Nat, key : Nat, registering : BOOLEAN, runner : Runners \cup {None},
     rotation : Tokens \cup {None}, pins : SUBSET Pinnable]

\* A secret with a runner is registered, and the backend knows it under its key.
Named(s) == <<s.key, s.runner>> \in assigned /\ ~s.registering

SecretOK(s) ==
    /\ s \in SecretType
    /\ s.runner # None => Named(s)
    /\ s.registering => s.pins = {}

\* The fence names the newest version and its id is taken by no other; nothing
\* was put before a version was reserved.
FenceOK ==
    /\ fence \in [version : Nat, id : Nat \cup {None}]
    /\ fence.version = 0 => fence.id = None /\ pinned = {}
    /\ fence.version # 0 => fence.id \in 1 .. drawn

Stored(d) ==
    /\ d \in 1 .. drawn
    /\ SecretOK(secrets[d])
    /\ 1 <= secrets[d].version /\ secrets[d].version <= fence.version
    /\ secrets[d].version = fence.version => d = fence.id

\* The secret the fence names can be read.
Readable == fence.id \in DOMAIN secrets
CurrentSecret == secrets[fence.id]

\* What an invocation holds: a secret of the newest version is the current one,
\* and the pins of a rotation that is about to be recorded are current.
HoldsOK(p) ==
    HasSecret(p) =>
        /\ SecretOK(p.secret)
        /\ 1 <= p.secret.version /\ p.secret.version <= fence.version
        /\ p.secret.version = fence.version => Readable /\ p.secret = CurrentSecret
        /\ p.pc \in {"ready", "work"} => Named(p.secret)
        /\ p.pc = "rotated" /\ Readable => p.secret.pins \subseteq CurrentSecret.pins

\* What an invocation is about to save: if no version came between, it takes over
\* the pins of the current secret; reserved, it is the only one.
PlansOK(p) ==
    Plans(p) =>
        /\ SecretOK(p.next)
        /\ p.then \in {"register", "ready", "rotated"}
        /\ p.then = "ready" => Named(p.next)
        /\ p.pc = "reserve" =>
              /\ p.next.version <= fence.version
              /\ p.next.version = fence.version /\ fence.version # 0 =>
                    Readable /\ CurrentSecret.pins \subseteq p.next.pins
        /\ p.pc = "put" =>
              /\ ~Readable /\ p.id = fence.id /\ p.next.version + 1 = fence.version
              /\ pinned \subseteq p.next.pins
              /\ \A j \in Slots : inv[j].pc = "rotated" => inv[j].secret.pins \subseteq p.next.pins

OnePut == \A i, j \in Slots : inv[i].pc = "put" /\ inv[j].pc = "put" => i = j

\* Everything is of one key, drawn under the lease.
OneKey(k) ==
    /\ keysUsed \subseteq {k}
    /\ \A a \in assigned : a[1] = k
    /\ \A d \in DOMAIN secrets : secrets[d].key = k
    /\ \A i \in Slots : /\ HasSecret(inv[i]) => inv[i].secret.key = k
                        /\ Plans(inv[i]) => inv[i].next.key = k

OneRunner ==
    /\ assigned \subseteq Nat \X Runners
    /\ \A a, b \in assigned : a = b
    /\ \A r \in runnersUsed : \E a \in assigned : a[2] = r

NothingYet ==
    /\ assigned = {} /\ keysUsed = {} /\ DOMAIN secrets = {}
    /\ \A i \in Slots : ~HasSecret(inv[i]) /\ ~Plans(inv[i])

Pcs == {"done", "load", "read", "claim"} \cup {"reserve", "put"} \cup {"register", "ready", "work", "rotated"}
Proc == [pc : Pcs, secret : SecretType \cup {None}, next : SecretType \cup Nat \cup {None},
         id : Nat \cup {None}, then : Pcs]

SecretTypeOK ==
    /\ lease \in BOOLEAN /\ drawn \in Nat
    /\ inv \in [Slots -> Proc]
    /\ secrets = [d \in DOMAIN secrets |-> secrets[d]]

SecretInv ==
    /\ SecretTypeOK /\ FenceOK /\ OnePut /\ OneRunner
    /\ \A d \in DOMAIN secrets : Stored(d)
    /\ \A i \in Slots : HoldsOK(inv[i]) /\ PlansOK(inv[i])
    /\ Readable => pinned \subseteq CurrentSecret.pins
    /\ \E k \in 0 .. drawn : OneKey(k)
    /\ ~lease => NothingYet

LEMMA SecretInitial == Secret!Init => SecretInv
<1> SUFFICES ASSUME Secret!Init PROVE SecretInv
    OBVIOUS
<1> Secret!Done \in Proc /\ Secret!Done.pc = "done"
    BY DEF Secret!Done, Proc, Pcs
<1> \A i \in Slots : inv[i] = Secret!Done
    BY DEF Secret!Init
<1> 0 \in 0 .. drawn /\ OneKey(0)
    BY DEF Secret!Init, OneKey, HasSecret, Plans
<1> QED
    BY DEF Secret!Init, SecretInv, SecretTypeOK, FenceOK, Secret!NoFence, OnePut, OneRunner, NothingYet,
           HoldsOK, PlansOK, HasSecret, Plans, Readable

\* What is true of a secret, of a stored one and of an invocation stays true
\* while the fence and what it names stay and the backend only learns more.
LEMMA SecretOKStays ==
    ASSUME NEW s, SecretOK(s), assigned \subseteq assigned'
    PROVE  SecretOK(s)' /\ (Named(s) => Named(s)')
BY DEF SecretOK, Named, SecretType, Pinnable

\* A step of one invocation that changes neither the ledger nor the secret.
LEMMA SecretTurn ==
    ASSUME SecretInv, NEW i \in Slots, NEW p \in Proc, inv' = [inv EXCEPT ![i] = p],
           UNCHANGED <<lease, fence, secrets, drawn>>, assigned \subseteq assigned', OneRunner',
           p.pc # "put", p.pc # "rotated", lease \/ (~HasSecret(p) /\ ~Plans(p)),
           lease \/ UNCHANGED <<assigned, keysUsed>>,
           HoldsOK(p)', PlansOK(p)',
           fence.version = 0 => pinned' = {},
           Readable => pinned' \subseteq CurrentSecret.pins,
           \A j \in Slots : inv[j].pc = "put" /\ j # i => pinned' \subseteq inv[j].next.pins,
           \A k \in 0 .. drawn : OneKey(k) => OneKey(k)'
    PROVE  SecretInv'
<1> SecretTypeOK
    BY DEF SecretInv
<1>i. inv'[i] = p /\ \A j \in Slots : j # i => inv'[j] = inv[j]
    BY DEF SecretTypeOK
<1>1. SecretTypeOK'
    BY DEF SecretTypeOK
<1>2. FenceOK'
    BY DEF SecretInv, FenceOK
<1>3. OnePut'
    BY <1>i DEF SecretInv, OnePut
<1>4. ASSUME NEW d \in DOMAIN secrets' PROVE Stored(d)'
    BY SecretOKStays, Stored(d) DEF SecretInv, Stored
<1>5. ASSUME NEW j \in Slots PROVE (HoldsOK(inv[j]) /\ PlansOK(inv[j]))'
    <2>1. CASE j = i
        BY <2>1, <1>i DEF HoldsOK, PlansOK, HasSecret, Plans, SecretOK, Named, Readable, CurrentSecret
    <2>2. CASE j # i
        <3>1. PICK y : y = inv[j]
            OBVIOUS
        <3>2. HoldsOK(y) /\ PlansOK(y) /\ inv'[j] = y
            BY <3>1, <2>2, <1>i DEF SecretInv
        <3>3. HoldsOK(y)'
            BY <3>2, SecretOKStays DEF HoldsOK, HasSecret, Readable, CurrentSecret
        <3>4. PlansOK(y)'
            <4>1. ASSUME y.pc = "put", NEW l \in Slots, inv'[l].pc = "rotated"
                  PROVE  inv'[l].secret.pins \subseteq y.next.pins
                BY <4>1, <3>2, <1>i DEF PlansOK, Plans
            <4>2. y.pc = "put" => pinned' \subseteq y.next.pins
                BY <3>1, <2>2
            <4> QED BY <4>1, <4>2, <3>2, SecretOKStays DEF PlansOK, Plans, Readable, CurrentSecret
        <3> QED BY <3>2, <3>3, <3>4 DEF HoldsOK, PlansOK, HasSecret, Plans, SecretOK, Named, Readable, CurrentSecret
    <2> QED BY <2>1, <2>2
<1>6. (Readable => pinned \subseteq CurrentSecret.pins)'
    BY DEF Readable, CurrentSecret
<1>7. (\E k \in 0 .. drawn : OneKey(k))'
    BY DEF SecretInv
<1>8. (~lease => NothingYet)'
    BY <1>i DEF SecretInv, NothingYet
<1> QED BY <1>1, <1>2, <1>3, <1>4, <1>5, <1>6, <1>7, <1>8 DEF SecretInv

LEMMA SecretFail ==
    ASSUME SecretInv, NEW i \in Slots, Secret!Fail(i), UNCHANGED <<lease, fence, secrets, drawn, assigned, runnersUsed>>,
           lease \/ UNCHANGED keysUsed,
           fence.version = 0 => pinned' = {},
           Readable => pinned' \subseteq CurrentSecret.pins,
           \A j \in Slots : inv[j].pc = "put" /\ j # i => pinned' \subseteq inv[j].next.pins,
           \A k \in 0 .. drawn : OneKey(k) => keysUsed' \subseteq {k}
    PROVE  SecretInv'
<1>1. PICK p : p = Secret!Done
    OBVIOUS
<1>2. p \in Proc /\ ~HasSecret(p) /\ ~Plans(p) /\ p.pc # "put" /\ p.pc # "rotated"
    BY <1>1 DEF Secret!Done, Proc, Pcs, HasSecret, Plans
<1>3. inv' = [inv EXCEPT ![i] = p]
    BY <1>1 DEF Secret!Fail, Secret!Becomes
<1>4. HoldsOK(p)' /\ PlansOK(p)' /\ OneRunner'
    BY <1>2 DEF HoldsOK, PlansOK, SecretInv, OneRunner, HasSecret, Plans
<1>5. ASSUME NEW k \in 0 .. drawn, OneKey(k) PROVE OneKey(k)'
    BY <1>2, <1>3, <1>5 DEF OneKey, SecretInv, SecretTypeOK
<1> QED BY <1>2, <1>3, <1>4, <1>5, SecretTurn

\* A process that holds nothing.
LEMMA SecretIdle ==
    ASSUME SecretInv, NEW i \in Slots, NEW p \in Proc, ~HasSecret(p), ~Plans(p), inv' = [inv EXCEPT ![i] = p],
           UNCHANGED <<lease, fence, secrets, drawn, assigned, runnersUsed, keysUsed, pinned>>
    PROVE  SecretInv'
<1>2. p.pc # "put" /\ p.pc # "rotated"
    BY DEF HasSecret, Plans
<1>3. ASSUME NEW j \in Slots, inv[j].pc = "put"
      PROVE  pinned' \subseteq inv[j].next.pins
    BY <1>3 DEF SecretInv, PlansOK, Plans
<1>4. HoldsOK(p)' /\ PlansOK(p)' /\ OneRunner'
    BY DEF HoldsOK, PlansOK, SecretInv, OneRunner, HasSecret, Plans
<1>5. ASSUME NEW k \in 0 .. drawn, OneKey(k) PROVE OneKey(k)'
    BY <1>5 DEF OneKey, SecretInv, SecretTypeOK
<1> QED BY <1>2, <1>3, <1>4, <1>5, SecretTurn DEF SecretInv, FenceOK, Readable, CurrentSecret

LEMMA SecretInvoke ==
    ASSUME SecretInv, NEW i \in Slots, Secret!Invoke(i)
    PROVE  SecretInv'
<1>1. PICK p : p = [Secret!Done EXCEPT !.pc = "load"]
    OBVIOUS
<1>2. p \in Proc /\ ~HasSecret(p) /\ ~Plans(p)
    BY <1>1 DEF Secret!Done, Proc, Pcs, HasSecret, Plans
<1> QED BY <1>1, <1>2, SecretIdle DEF Secret!Invoke, Secret!Becomes, Secret!Cloud, Secret!Seen

LEMMA SecretLoad ==
    ASSUME SecretInv, NEW i \in Slots, Secret!Load(i)
    PROVE  SecretInv'
<1>1. PICK p : p = IF fence = Secret!NoFence THEN [Secret!Done EXCEPT !.pc = "claim"]
                   ELSE [Secret!Done EXCEPT !.pc = "read", !.id = fence.id, !.next = fence.version]
    OBVIOUS
<1>2. fence.version \in Nat /\ fence.id \in Nat \cup {None}
    BY DEF SecretInv, FenceOK
<1>3. p \in Proc /\ ~HasSecret(p) /\ ~Plans(p)
    BY <1>1, <1>2 DEF Secret!Done, Proc, Pcs, HasSecret, Plans
<1> QED BY <1>1, <1>3, SecretIdle DEF Secret!Load, Secret!Becomes, Secret!Cloud, Secret!Seen

\* What does not change when a process takes a secret over.
LEMMA SecretHeld ==
    ASSUME SecretInv, NEW i \in Slots, NEW p \in Proc, HasSecret(p), p.pc # "rotated", lease,
           inv' = [inv EXCEPT ![i] = p],
           HoldsOK(p), \A k \in 0 .. drawn : OneKey(k) => p.secret.key = k /\ keysUsed' \subseteq {k},
           UNCHANGED <<lease, fence, secrets, drawn, assigned, pinned>>, OneRunner'
    PROVE  SecretInv'
<1>1. ~Plans(p) /\ p.pc # "put"
    BY DEF HasSecret, Plans
<1>2. ASSUME NEW j \in Slots, inv[j].pc = "put"
      PROVE  pinned' \subseteq inv[j].next.pins
    BY <1>2 DEF SecretInv, PlansOK, Plans
<1>3. HoldsOK(p)' /\ PlansOK(p)'
    BY <1>1 DEF HoldsOK, PlansOK, HasSecret, Plans, SecretOK, Named, Readable, CurrentSecret
<1>4. ASSUME NEW k \in 0 .. drawn, OneKey(k) PROVE OneKey(k)'
    BY <1>1, <1>4 DEF OneKey, SecretInv, SecretTypeOK
<1> QED BY <1>1, <1>2, <1>3, <1>4, SecretTurn DEF SecretInv, FenceOK, Readable, CurrentSecret

LEMMA SecretEnd ==
    ASSUME SecretInv, NEW i \in Slots, Secret!Fail(i), UNCHANGED <<Secret!Cloud, drawn, Secret!Seen>>
    PROVE  SecretInv'
<1>1. ASSUME NEW j \in Slots, inv[j].pc = "put"
      PROVE  pinned \subseteq inv[j].next.pins
    BY <1>1 DEF SecretInv, PlansOK, Plans
<1> QED BY <1>1, SecretFail DEF Secret!Cloud, Secret!Seen, SecretInv, FenceOK, OneKey

LEMMA SecretRead ==
    ASSUME SecretInv, NEW i \in Slots, Secret!ReadSecret(i)
    PROVE  SecretInv'
<1>1. CASE lease /\ inv[i].id \in DOMAIN secrets /\ secrets[inv[i].id].version = inv[i].next
    <2>1. PICK s : s = secrets[inv[i].id]
        OBVIOUS
    <2>2. PICK p : p = [Secret!Done EXCEPT !.pc = IF s.runner # None THEN "ready" ELSE "register", !.secret = s]
        OBVIOUS
    <2>3. SecretOK(s) /\ 1 <= s.version /\ s.version <= fence.version
          /\ (s.version = fence.version => Readable /\ s = CurrentSecret)
        BY <1>1, <2>1 DEF SecretInv, Stored, Readable, CurrentSecret
    <2>4. p \in Proc /\ HasSecret(p) /\ p.pc # "rotated" /\ p.secret = s
          /\ p.pc = (IF s.runner # None THEN "ready" ELSE "register")
        BY <2>2, <2>3 DEF Secret!Done, Proc, Pcs, HasSecret, SecretOK
    <2>5. HoldsOK(p)
        BY <2>3, <2>4 DEF HoldsOK, SecretOK
    <2>6. \A k \in 0 .. drawn : OneKey(k) => p.secret.key = k /\ keysUsed' \subseteq {k}
        BY <1>1, <2>1, <2>4 DEF OneKey, Secret!ReadSecret, Secret!Seen
    <2>7. inv' = [inv EXCEPT ![i] = p]
        BY <1>1, <2>1, <2>2 DEF Secret!ReadSecret, Secret!Becomes
    <2> QED BY <1>1, <2>4, <2>5, <2>6, <2>7, SecretHeld DEF Secret!ReadSecret, Secret!Cloud, Secret!Seen, SecretInv, OneRunner
<1>2. CASE ~(lease /\ inv[i].id \in DOMAIN secrets /\ secrets[inv[i].id].version = inv[i].next)
    BY <1>2, SecretEnd DEF Secret!ReadSecret
<1> QED BY <1>1, <1>2

LEMMA SecretReady ==
    ASSUME SecretInv, NEW i \in Slots, Secret!Ready(i)
    PROVE  SecretInv'
<1>1. PICK p : p = [inv[i] EXCEPT !.pc = "work"]
    OBVIOUS
<1>2. inv[i] \in Proc /\ inv[i].pc = "ready" /\ HoldsOK(inv[i]) /\ HasSecret(inv[i]) /\ lease
    BY DEF SecretInv, SecretTypeOK, Secret!Ready, Secret!At, HasSecret, NothingYet
<1>3. p \in Proc /\ HasSecret(p) /\ p.pc = "work" /\ p.secret = inv[i].secret
    BY <1>1, <1>2 DEF Proc, Pcs, HasSecret
<1>4. HoldsOK(p)
    BY <1>2, <1>3 DEF HoldsOK
<1>5. Named(inv[i].secret)
    BY <1>2 DEF HoldsOK
<1>6. OneRunner'
    BY <1>5 DEF OneRunner, Named, Secret!Ready, Secret!Cloud, SecretInv
<1>7. \A k \in 0 .. drawn : OneKey(k) => p.secret.key = k /\ keysUsed' \subseteq {k}
    BY <1>2, <1>3 DEF OneKey, Secret!Ready
<1> QED BY <1>1, <1>2, <1>3, <1>4, <1>6, <1>7, SecretHeld DEF Secret!Ready, Secret!Becomes, Secret!Cloud

\* What does not change when a process is about to save a secret.
LEMMA SecretPlanned ==
    ASSUME SecretInv, NEW i \in Slots, NEW p \in Proc, p.pc = "reserve", lease,
           inv' = [inv EXCEPT ![i] = p], PlansOK(p)',
           \A k \in 0 .. drawn : OneKey(k) => p.next.key = k /\ \A a \in assigned' : a[1] = k,
           UNCHANGED <<lease, fence, secrets, drawn, pinned, keysUsed>>,
           assigned \subseteq assigned', OneRunner'
    PROVE  SecretInv'
<1>1. ~HasSecret(p)
    BY DEF HasSecret
<1>2. ASSUME NEW j \in Slots, inv[j].pc = "put"
      PROVE  pinned' \subseteq inv[j].next.pins
    BY <1>2 DEF SecretInv, PlansOK, Plans
<1>3. HoldsOK(p)'
    BY <1>1 DEF HoldsOK, HasSecret
<1>4. ASSUME NEW k \in 0 .. drawn, OneKey(k) PROVE OneKey(k)'
    BY <1>1, <1>4 DEF OneKey, SecretInv, SecretTypeOK
<1> QED BY <1>1, <1>2, <1>3, <1>4, SecretTurn DEF SecretInv, FenceOK, Readable, CurrentSecret

LEMMA SecretRegister ==
    ASSUME SecretInv, NEW i \in Slots, Secret!Register(i)
    PROVE  SecretInv'
<1>1. PICK s : s = inv[i].secret
    OBVIOUS
<1>2. PICK r \in Runners :
          /\ \A a \in {b \in assigned : b[1] = s.key} : a[2] = r
          /\ assigned' = assigned \cup {<<s.key, r>>}
          /\ \/ Secret!Becomes(i, [Secret!Done EXCEPT !.pc = "reserve", !.then = "ready",
                             !.next = [s EXCEPT !.runner = r, !.registering = FALSE, !.pins = FirstKeys]])
             \/ Secret!Fail(i)
    BY <1>1 DEF Secret!Register
<1>3. /\ inv[i].pc = "register" /\ HoldsOK(inv[i]) /\ HasSecret(inv[i]) /\ lease
      /\ SecretOK(s) /\ s.registering /\ s.pins = {}
      /\ 1 <= s.version /\ s.version <= fence.version
      /\ s.version = fence.version => Readable /\ s = CurrentSecret
    BY <1>1 DEF SecretInv, SecretTypeOK, Secret!Register, Secret!At, HasSecret, NothingYet, HoldsOK, SecretOK
<1>4. \A k \in 0 .. drawn : OneKey(k) => s.key = k
    BY <1>1, <1>3 DEF OneKey
<1>5. \A a \in assigned : a = <<s.key, r>>
    <2>1. PICK k \in 0 .. drawn : OneKey(k)
        BY DEF SecretInv
    <2>2. \A a \in assigned : a \in Nat \X Runners /\ a[1] = s.key
        BY <2>1, <1>4 DEF OneKey, SecretInv, OneRunner
    <2>3. \A a \in assigned : a[2] = r
        BY <2>2, <1>2
    <2> QED BY <2>2, <2>3
<1>6. OneRunner'
    <2>1. <<s.key, r>> \in Nat \X Runners
        BY <1>3 DEF SecretOK, SecretType
    <2>2. runnersUsed' = runnersUsed
        BY DEF Secret!Register, Secret!Seen
    <2> QED BY <2>1, <2>2, <1>2, <1>5 DEF SecretInv, OneRunner
<1>7. CASE Secret!Fail(i)
    <2>1. ASSUME NEW j \in Slots, inv[j].pc = "put"
          PROVE  pinned \subseteq inv[j].next.pins
        BY <2>1 DEF SecretInv, PlansOK, Plans
    <2>2. PICK p : p = Secret!Done
        OBVIOUS
    <2>3. p \in Proc /\ ~HasSecret(p) /\ ~Plans(p) /\ p.pc # "put" /\ p.pc # "rotated"
        BY <2>2 DEF Secret!Done, Proc, Pcs, HasSecret, Plans
    <2>4. inv' = [inv EXCEPT ![i] = p]
        BY <1>7, <2>2 DEF Secret!Fail, Secret!Becomes
    <2>5. HoldsOK(p)' /\ PlansOK(p)'
        BY <2>3 DEF HoldsOK, PlansOK, HasSecret, Plans
    <2>6. ASSUME NEW k \in 0 .. drawn, OneKey(k) PROVE OneKey(k)'
        BY <1>2, <1>4, <2>3, <2>4, <2>6 DEF OneKey, SecretInv, SecretTypeOK, Secret!Register, Secret!Seen
    <2> QED BY <1>2, <1>3, <1>6, <2>1, <2>3, <2>4, <2>5, <2>6, SecretTurn DEF Secret!Register, Secret!Seen, SecretInv, FenceOK
<1>8. CASE ~Secret!Fail(i)
    <2>1. PICK n : n = [s EXCEPT !.runner = r, !.registering = FALSE, !.pins = FirstKeys]
        OBVIOUS
    <2>2. PICK p : p = [Secret!Done EXCEPT !.pc = "reserve", !.then = "ready", !.next = n]
        OBVIOUS
    <2>3. n \in SecretType /\ n.key = s.key /\ n.version = s.version /\ n.runner = r
          /\ ~n.registering
        BY <1>3, <2>1 DEF SecretOK, SecretType, Pinnable
    <2>4. p \in Proc /\ p.pc = "reserve" /\ p.then = "ready" /\ p.next = n
        BY <2>2, <2>3 DEF Secret!Done, Proc, Pcs
    <2>5. Named(n)'
        BY <1>2, <2>3 DEF Named
    <2>6. Readable /\ s = CurrentSecret => Readable' /\ CurrentSecret'.pins \subseteq n.pins
        BY <1>3 DEF Readable, CurrentSecret, Secret!Register
    <2>7. PlansOK(p)'
        BY <1>3, <2>3, <2>4, <2>5, <2>6 DEF PlansOK, SecretOK, Secret!Register
    <2>8. inv' = [inv EXCEPT ![i] = p]
        BY <1>2, <1>8, <2>1, <2>2 DEF Secret!Becomes
    <2>9. ASSUME NEW k \in 0 .. drawn, OneKey(k)
          PROVE  p.next.key = k /\ \A a \in assigned' : a[1] = k
        BY <1>2, <1>4, <2>3, <2>4, <2>9 DEF OneKey
    <2> QED BY <1>2, <1>3, <1>6, <2>4, <2>7, <2>8, <2>9, SecretPlanned DEF Secret!Register, Secret!Seen
<1> QED BY <1>7, <1>8

LEMMA SecretRotate ==
    ASSUME SecretInv, NEW i \in Slots, NEW t \in Tokens, Secret!Rotate(i, t)
    PROVE  SecretInv'
<1>1. PICK s : s = inv[i].secret
    OBVIOUS
<1>2. PICK n : n = [s EXCEPT !.rotation = t, !.pins = @ \cup {t.key}]
    OBVIOUS
<1>3. PICK p : p = [inv[i] EXCEPT !.pc = "reserve", !.then = "rotated", !.next = n]
    OBVIOUS
<1>4. /\ inv[i] \in Proc /\ inv[i].pc = "work" /\ lease
      /\ SecretOK(s) /\ Named(s)
      /\ 1 <= s.version /\ s.version <= fence.version
      /\ s.version = fence.version => Readable /\ s = CurrentSecret
    BY <1>1 DEF SecretInv, SecretTypeOK, Secret!Rotate, Secret!At, HasSecret, NothingYet, HoldsOK
<1>5. n \in SecretType /\ n.key = s.key /\ n.version = s.version /\ n.runner = s.runner
      /\ n.registering = s.registering /\ s.pins \subseteq n.pins
    BY <1>2, <1>4 DEF SecretOK, SecretType, Pinnable
<1>6. p \in Proc /\ p.pc = "reserve" /\ p.then = "rotated" /\ p.next = n
    BY <1>3, <1>4, <1>5 DEF Proc, Pcs
<1>7. Named(n)'
    BY <1>4, <1>5 DEF Named, Secret!Rotate, Secret!Cloud
<1>8. Readable /\ s = CurrentSecret => Readable' /\ CurrentSecret'.pins \subseteq n.pins
    BY <1>5 DEF Readable, CurrentSecret, Secret!Rotate, Secret!Cloud
<1>9. PlansOK(p)'
    BY <1>4, <1>5, <1>6, <1>7, <1>8 DEF PlansOK, SecretOK, Secret!Rotate, Secret!Cloud, Named
<1>10. inv' = [inv EXCEPT ![i] = p]
    BY <1>1, <1>2, <1>3 DEF Secret!Rotate, Secret!Becomes
<1>11. \A k \in 0 .. drawn : OneKey(k) => n.key = k
    BY <1>1, <1>4, <1>5 DEF OneKey, HasSecret
<1>12. OneRunner'
    BY DEF SecretInv, OneRunner, Secret!Rotate, Secret!Cloud, Secret!Seen
<1> QED BY <1>4, <1>6, <1>9, <1>10, <1>11, <1>12, SecretPlanned DEF Secret!Rotate, Secret!Cloud, Secret!Seen, OneKey

LEMMA SecretRotated ==
    ASSUME SecretInv, NEW i \in Slots, Secret!Rotated(i)
    PROVE  SecretInv'
<1>1. /\ inv[i].pc = "rotated" /\ lease
      /\ 1 <= inv[i].secret.version /\ inv[i].secret.version <= fence.version
      /\ inv[i].secret.version \in Nat
      /\ Readable => inv[i].secret.pins \subseteq CurrentSecret.pins
    BY DEF SecretInv, SecretTypeOK, Secret!Rotated, Secret!At, HasSecret, NothingYet, HoldsOK, SecretOK, SecretType
<1>2. fence.version # 0
    BY <1>1
<1>3. ASSUME NEW j \in Slots, inv[j].pc = "put"
      PROVE  pinned' \subseteq inv[j].next.pins
    BY <1>1, <1>3 DEF SecretInv, PlansOK, Plans, Secret!Rotated
<1>4. Readable => pinned' \subseteq CurrentSecret.pins
    BY <1>1 DEF SecretInv, Secret!Rotated
<1> QED BY <1>1, <1>2, <1>3, <1>4, SecretFail DEF Secret!Rotated, Secret!Cloud, OneKey

\* The first key is drawn by the one process that takes the lease.
LEMMA SecretClaim ==
    ASSUME SecretInv, NEW i \in Slots, Secret!Claim(i)
    PROVE  SecretInv'
<1>1. CASE lease
    BY <1>1, SecretEnd DEF Secret!Claim, Secret!Cloud, Secret!Seen
<1>2. CASE ~lease
    <2>1. PICK p : p = inv'[i]
        OBVIOUS
    <2>2. PICK n : n = Secret!NewSecret(drawn + 1)
        OBVIOUS
    <2>3. drawn \in Nat /\ drawn' = drawn + 1 /\ lease' /\ NothingYet
        BY <1>2 DEF Secret!Claim, SecretInv, SecretTypeOK
    <2>4. n \in SecretType /\ n.key = drawn + 1 /\ n.version = 0 /\ n.runner = None /\ n.pins = {}
        BY <2>2, <2>3 DEF Secret!NewSecret, SecretType
    <2>5. PICK q : q = [Secret!Done EXCEPT !.pc = "reserve", !.next = n, !.then = "register"]
        OBVIOUS
    <2>6. PICK e : e = Secret!Done
        OBVIOUS
    <2>7. q \in Proc /\ q.pc = "reserve" /\ q.next = n /\ q.then = "register"
        BY <2>4, <2>5 DEF Secret!Done, Proc, Pcs
    <2>8. e \in Proc /\ e.pc = "done"
        BY <2>6 DEF Secret!Done, Proc, Pcs
    <2>9. inv' = [inv EXCEPT ![i] = q] \/ inv' = [inv EXCEPT ![i] = e]
        BY <1>2, <2>2, <2>5, <2>6 DEF Secret!Claim, Secret!Fail, Secret!Becomes
    <2>10. /\ p = q \/ p = e
           /\ inv' \in [Slots -> Proc] /\ \A j \in Slots : j # i => inv'[j] = inv[j]
        BY <2>1, <2>7, <2>8, <2>9 DEF SecretInv, SecretTypeOK
    <2>11. SecretTypeOK' /\ FenceOK' /\ OneRunner'
        BY <2>3, <2>10 DEF SecretInv, SecretTypeOK, FenceOK, OneRunner, Secret!Claim, Secret!Seen
    <2>12. OnePut'
        BY <2>1, <2>3, <2>7, <2>8, <2>10 DEF OnePut, NothingYet, Plans
    <2>13. DOMAIN secrets' = {}
        BY <2>3 DEF NothingYet, Secret!Claim
    <2>14. ASSUME NEW j \in Slots PROVE (HoldsOK(inv[j]) /\ PlansOK(inv[j]))'
        <3>1. CASE j # i
            BY <2>3, <2>10, <3>1 DEF NothingYet, HoldsOK, PlansOK, HasSecret, Plans
        <3>2. CASE j = i /\ p = e
            BY <2>1, <2>8, <3>2 DEF HoldsOK, PlansOK, HasSecret, Plans
        <3>3. CASE j = i /\ p = q
            <4>1. HoldsOK(q)'
                BY <2>7 DEF HoldsOK, HasSecret
            <4>2. SecretOK(n)' /\ fence.version \in Nat /\ fence' = fence
                BY <2>4 DEF SecretOK, SecretInv, FenceOK, Secret!Claim
            <4>3. PlansOK(q)'
                BY <2>4, <2>7, <4>2 DEF PlansOK, Plans
            <4> QED BY <2>1, <3>3, <4>1, <4>3 DEF HoldsOK, PlansOK, HasSecret, Plans, SecretOK, Named, Readable, CurrentSecret
        <3> QED BY <2>10, <3>1, <3>2, <3>3
    <2>15. (\E k \in 0 .. drawn : OneKey(k))'
        <3> PICK k : k = drawn + 1
            OBVIOUS
        <3>1. \A j \in Slots : /\ HasSecret(inv'[j]) => FALSE
                               /\ Plans(inv'[j]) => inv'[j].next.key = k
            BY <2>1, <2>3, <2>4, <2>7, <2>8, <2>10 DEF NothingYet, HasSecret, Plans
        <3>2. OneKey(k)'
            BY <2>3, <2>13, <3>1 DEF OneKey, NothingYet, Secret!Claim, Secret!Seen
        <3> QED BY <2>3, <3>2
    <2>16. ~Readable'
        BY <2>13 DEF Readable
    <2> QED BY <2>3, <2>11, <2>12, <2>13, <2>14, <2>15, <2>16 DEF SecretInv
<1> QED BY <1>1, <1>2

LEMMA SecretReserve ==
    ASSUME SecretInv, NEW i \in Slots, Secret!Reserve(i)
    PROVE  SecretInv'
<1>1. CASE ~Secret!FenceIs(inv[i].next.version)
    BY <1>1, SecretEnd DEF Secret!Reserve, Secret!Cloud
<1>2. CASE Secret!FenceIs(inv[i].next.version)
    <2>1. PICK n : n = inv[i].next
        OBVIOUS
    <2>2. PICK q : q = [inv[i] EXCEPT !.pc = "put", !.id = drawn + 1]
        OBVIOUS
    <2>3. PICK e : e = Secret!Done
        OBVIOUS
    <2>4. /\ inv[i] \in Proc /\ PlansOK(inv[i]) /\ inv[i].pc = "reserve" /\ Plans(inv[i]) /\ lease
          /\ drawn \in Nat /\ fence.version \in Nat
        BY DEF SecretInv, SecretTypeOK, FenceOK, Secret!Reserve, Secret!At, Plans, NothingYet
    <2>5. /\ SecretOK(n) /\ n.version = fence.version
          /\ fence.version # 0 => Readable /\ CurrentSecret.pins \subseteq n.pins
        BY <1>2, <2>1, <2>4 DEF PlansOK, Secret!FenceIs
    <2>6. q \in Proc /\ q.pc = "put" /\ q.id = drawn + 1 /\ q.next = n /\ q.then = inv[i].then
        <3>1. drawn + 1 \in Nat /\ "put" \in Pcs
            BY <2>4 DEF Pcs
        <3> QED BY <2>1, <2>2, <2>4, <3>1 DEF Proc
    <2>7. e \in Proc /\ e.pc = "done"
        BY <2>3 DEF Secret!Done, Proc, Pcs
    <2>8. /\ fence' = [version |-> n.version + 1, id |-> drawn + 1] /\ drawn' = drawn + 1
          /\ inv' = [inv EXCEPT ![i] = q] \/ inv' = [inv EXCEPT ![i] = e]
        BY <1>2, <2>1, <2>2, <2>3 DEF Secret!Reserve, Secret!Fail, Secret!Becomes
    <2>9. /\ fence'.version = fence.version + 1 /\ fence'.id = drawn + 1
        BY <2>5, <2>8
    <2>10. PICK p \in Proc : /\ p = q \/ p = e
                             /\ inv' = [inv EXCEPT ![i] = p]
        BY <2>6, <2>7, <2>8
    <2>11. inv'[i] = p /\ \A j \in Slots : j # i => inv'[j] = inv[j]
        BY <2>10 DEF SecretInv, SecretTypeOK
    <2>12. UNCHANGED <<lease, secrets, assigned, keysUsed, runnersUsed, pinned>>
        BY DEF Secret!Reserve, Secret!Seen
    <2>13. ~Readable'
        BY <2>4, <2>9, <2>12 DEF Readable, SecretInv, Stored
    <2>14. SecretTypeOK' /\ FenceOK' /\ OneRunner'
        BY <2>4, <2>5, <2>8, <2>10, <2>12 DEF SecretInv, SecretTypeOK, FenceOK, OneRunner
    <2>15. ASSUME NEW j \in Slots PROVE j # i => inv[j].pc # "put"
        <3> SUFFICES ASSUME inv[j].pc = "put" PROVE FALSE
            OBVIOUS
        <3>1. PlansOK(inv[j]) /\ Plans(inv[j]) /\ inv[j].next.version \in Nat
            BY DEF SecretInv, Plans, PlansOK, SecretOK, SecretType
        <3> QED BY <2>4, <2>5, <3>1 DEF PlansOK
    <2>16. OnePut'
        BY <2>11, <2>15 DEF OnePut
    <2>17. ASSUME NEW d \in DOMAIN secrets' PROVE Stored(d)'
        <3>1. Stored(d) /\ secrets'[d] = secrets[d] /\ secrets[d].version \in Nat
            BY <2>12 DEF SecretInv, Stored, SecretOK, SecretType
        <3>2. SecretOK(secrets[d])'
            BY <2>12, <3>1 DEF Stored, SecretOK, Named
        <3> QED BY <2>4, <2>8, <2>9, <3>1, <3>2 DEF Stored
    <2>18. pinned \subseteq n.pins /\ \A j \in Slots : inv[j].pc = "rotated" => inv[j].secret.pins \subseteq n.pins
        <3>1. CASE fence.version = 0
            <4>1. pinned = {}
                BY <3>1 DEF SecretInv, FenceOK
            <4>2. \A j \in Slots : ~HasSecret(inv[j])
                BY <3>1 DEF SecretInv, HoldsOK, SecretOK, SecretType
            <4> QED BY <4>1, <4>2 DEF HasSecret
        <3>2. CASE fence.version # 0
            BY <2>5, <3>2 DEF SecretInv, HoldsOK, HasSecret
        <3> QED BY <3>1, <3>2
    <2>19. ASSUME NEW j \in Slots PROVE (HoldsOK(inv[j]) /\ PlansOK(inv[j]))'
        <3>1. PICK y : y = inv'[j]
            OBVIOUS
        <3>2. HoldsOK(y)'
            <4>1. CASE j # i
                <5>1. HoldsOK(y) /\ (HasSecret(y) => y.secret.version \in Nat)
                    BY <2>11, <3>1, <4>1 DEF SecretInv, HoldsOK, SecretOK, SecretType
                <5> QED BY <2>4, <2>9, <2>12, <2>13, <5>1, SecretOKStays DEF HoldsOK, HasSecret
            <4>2. CASE j = i
                BY <2>6, <2>7, <2>10, <2>11, <3>1, <4>2 DEF HoldsOK, HasSecret
            <4> QED BY <4>1, <4>2
        <3>3. PlansOK(y)'
            <4>1. CASE j # i
                <5>1. PlansOK(y) /\ (Plans(y) => y.next.version \in Nat) /\ y.pc # "put"
                    BY <2>11, <2>15, <3>1, <4>1 DEF SecretInv, PlansOK, SecretOK, SecretType
                <5> QED BY <2>4, <2>9, <2>12, <5>1, SecretOKStays DEF PlansOK, Plans
            <4>2. CASE j = i /\ p = e
                BY <2>7, <2>11, <3>1, <4>2 DEF PlansOK, Plans
            <4>3. CASE j = i /\ p = q
                <5>1. \A l \in Slots : inv'[l].pc = "rotated" => inv'[l].secret.pins \subseteq n.pins
                    BY <2>6, <2>11, <2>18, <4>3
                <5>2. SecretOK(n)' /\ (Named(n) => Named(n)')
                    BY <2>5, <2>12 DEF SecretOK, Named
                <5>3. y = q /\ pinned' \subseteq n.pins
                    BY <2>11, <2>12, <2>18, <3>1, <4>3
                <5>4. q.then \in {"register", "ready", "rotated"} /\ (q.then = "ready" => Named(n))
                    BY <2>1, <2>4, <2>6 DEF PlansOK
                <5> QED BY <2>5, <2>6, <2>9, <2>13, <5>1, <5>2, <5>3, <5>4 DEF PlansOK
            <4> QED BY <2>10, <4>1, <4>2, <4>3
        <3> QED BY <3>1, <3>2, <3>3 DEF HoldsOK, PlansOK, HasSecret, Plans, SecretOK, Named, Readable, CurrentSecret
    <2>20. PICK k \in 0 .. drawn : OneKey(k)
        BY DEF SecretInv
    <2>21. OneKey(k)' /\ k \in 0 .. drawn'
        BY <2>1, <2>4, <2>6, <2>7, <2>8, <2>10, <2>11, <2>12, <2>20 DEF OneKey, HasSecret, Plans
    <2> QED BY <2>4, <2>12, <2>13, <2>14, <2>16, <2>17, <2>19, <2>21 DEF SecretInv
<1> QED BY <1>1, <1>2

LEMMA SecretPut ==
    ASSUME SecretInv, NEW i \in Slots, Secret!Put(i)
    PROVE  SecretInv'
<1>1. CASE Secret!Fail(i) /\ UNCHANGED secrets
    BY <1>1, SecretEnd DEF Secret!Put, Secret!Cloud
<1>2. CASE ~(Secret!Fail(i) /\ UNCHANGED secrets)
    <2>1. PICK n : n = inv[i].next
        OBVIOUS
    <2>2. PICK s : s = [n EXCEPT !.version = @ + 1]
        OBVIOUS
    <2>3. PICK q : q = [Secret!Done EXCEPT !.pc = inv[i].then, !.secret = s]
        OBVIOUS
    <2>4. PICK e : e = Secret!Done
        OBVIOUS
    <2>5. /\ inv[i] \in Proc /\ PlansOK(inv[i]) /\ inv[i].pc = "put" /\ Plans(inv[i]) /\ lease
          /\ drawn \in Nat /\ fence.version \in Nat
        BY DEF SecretInv, SecretTypeOK, FenceOK, Secret!Put, Secret!At, Plans, NothingYet
    <2>6. /\ SecretOK(n) /\ ~Readable /\ inv[i].id = fence.id /\ n.version + 1 = fence.version
          /\ pinned \subseteq n.pins
          /\ \A j \in Slots : inv[j].pc = "rotated" => inv[j].secret.pins \subseteq n.pins
          /\ inv[i].then \in {"register", "ready", "rotated"}
          /\ inv[i].then = "ready" => Named(n)
        BY <2>1, <2>5 DEF PlansOK
    <2>7. /\ s \in SecretType /\ s.version = fence.version /\ s.key = n.key /\ s.pins = n.pins
          /\ s.runner = n.runner /\ s.registering = n.registering
        BY <2>2, <2>6 DEF SecretOK, SecretType
    <2>8. /\ q \in Proc /\ q.pc = inv[i].then /\ q.secret = s
        BY <2>3, <2>6, <2>7 DEF Secret!Done, Proc, Pcs
    <2>9. e \in Proc /\ e.pc = "done"
        BY <2>4 DEF Secret!Done, Proc, Pcs
    <2>10. /\ secrets' = [d \in DOMAIN secrets \cup {fence.id} |-> IF d = fence.id THEN s ELSE secrets[d]]
           /\ inv' = [inv EXCEPT ![i] = q] \/ inv' = [inv EXCEPT ![i] = e]
        BY <1>2, <2>1, <2>2, <2>3, <2>4, <2>6 DEF Secret!Put, Secret!Fail, Secret!Becomes
    <2>11. PICK p \in Proc : /\ p = q \/ p = e
                             /\ inv' = [inv EXCEPT ![i] = p]
        BY <2>8, <2>9, <2>10
    <2>12. inv'[i] = p /\ \A j \in Slots : j # i => inv'[j] = inv[j]
        BY <2>11 DEF SecretInv, SecretTypeOK
    <2>13. UNCHANGED <<lease, fence, drawn, assigned, keysUsed, runnersUsed, pinned>>
        BY DEF Secret!Put, Secret!Seen
    <2>14. /\ Readable' /\ CurrentSecret' = s /\ fence.id \notin DOMAIN secrets
           /\ DOMAIN secrets' = DOMAIN secrets \cup {fence.id}
           /\ \A d \in DOMAIN secrets : secrets'[d] = secrets[d]
        BY <2>6, <2>10, <2>13 DEF Readable, CurrentSecret
    <2>15. SecretTypeOK' /\ FenceOK' /\ OneRunner'
        BY <2>10, <2>11, <2>13, <2>14 DEF SecretInv, SecretTypeOK, FenceOK, OneRunner
    <2>16. \A j \in Slots : j # i => inv[j].pc # "put"
        BY <2>5 DEF SecretInv, OnePut
    <2>17. p.pc # "put" /\ ~Plans(p)
        BY <2>6, <2>8, <2>9, <2>11 DEF Plans
    <2>18. OnePut'
        BY <2>12, <2>16, <2>17 DEF OnePut
    <2>19. SecretOK(s)' /\ (inv[i].then = "ready" => Named(s)')
        BY <2>6, <2>7, <2>13 DEF SecretOK, Named
    <2>20. 1 <= fence.version
        BY <2>5, <2>6 DEF SecretOK, SecretType
    <2>21. ASSUME NEW d \in DOMAIN secrets' PROVE Stored(d)'
        <3>1. CASE d = fence.id
            <4>1. d \in 1 .. drawn /\ secrets'[d] = s
                BY <2>10, <2>20, <3>1 DEF SecretInv, FenceOK
            <4> QED BY <2>5, <2>7, <2>13, <2>19, <2>20, <3>1, <4>1 DEF Stored, SecretOK, Named
        <3>2. CASE d # fence.id
            <4>1. Stored(d) /\ secrets'[d] = secrets[d]
                BY <2>14, <3>2 DEF SecretInv
            <4> QED BY <2>13, <4>1 DEF Stored, SecretOK, Named
        <3> QED BY <3>1, <3>2
    <2>22. ASSUME NEW j \in Slots PROVE (HoldsOK(inv[j]) /\ PlansOK(inv[j]))'
        <3>1. PICK y : y = inv'[j]
            OBVIOUS
        <3>2. HoldsOK(y)'
            <4>1. CASE j # i
                <5>1. /\ HoldsOK(y)
                      /\ y.pc = "rotated" => y.secret.pins \subseteq n.pins
                    BY <2>6, <2>12, <3>1, <4>1 DEF SecretInv
                <5> QED BY <2>6, <2>7, <2>13, <2>14, <5>1, SecretOKStays DEF HoldsOK, HasSecret
            <4>2. CASE j = i /\ p = e
                BY <2>9, <2>12, <3>1, <4>2 DEF HoldsOK, HasSecret
            <4>3. CASE j = i /\ p = q
                <5>1. y = q
                    BY <2>12, <3>1, <4>3
                <5> QED BY <2>5, <2>6, <2>7, <2>8, <2>13, <2>14, <2>19, <2>20, <5>1 DEF HoldsOK
            <4> QED BY <2>11, <4>1, <4>2, <4>3
        <3>3. PlansOK(y)'
            <4>1. CASE j # i
                <5>1. PlansOK(y) /\ (Plans(y) => y.next.version \in Nat) /\ y.pc # "put"
                    BY <2>12, <2>16, <3>1, <4>1 DEF SecretInv, PlansOK, SecretOK, SecretType
                <5> QED BY <2>6, <2>13, <5>1, <2>20, SecretOKStays DEF PlansOK, Plans
            <4>2. CASE j = i
                BY <2>12, <2>17, <3>1, <4>2 DEF PlansOK, Plans
            <4> QED BY <4>1, <4>2
        <3> QED BY <3>1, <3>2, <3>3 DEF HoldsOK, PlansOK, HasSecret, Plans, SecretOK, Named, Readable, CurrentSecret
    <2>23. PICK k \in 0 .. drawn : OneKey(k)
        BY DEF SecretInv
    <2>24. OneKey(k)'
        <3>1. s.key = k
            BY <2>1, <2>5, <2>7, <2>23 DEF OneKey
        <3>2. \A d \in DOMAIN secrets' : secrets'[d].key = k
            BY <2>10, <2>14, <2>23, <3>1 DEF OneKey
        <3>3. \A j \in Slots : /\ HasSecret(inv'[j]) => inv'[j].secret.key = k
                               /\ Plans(inv'[j]) => inv'[j].next.key = k
            BY <2>8, <2>9, <2>11, <2>12, <2>17, <2>23, <3>1 DEF OneKey, HasSecret
        <3> QED BY <2>13, <2>23, <3>2, <3>3 DEF OneKey
    <2>25. (Readable => pinned \subseteq CurrentSecret.pins)'
        BY <2>6, <2>7, <2>13, <2>14
    <2> QED BY <2>5, <2>13, <2>15, <2>18, <2>21, <2>22, <2>23, <2>24, <2>25 DEF SecretInv
<1> QED BY <1>1, <1>2

LEMMA SecretStep == SecretInv /\ [Secret!Next]_(Secret!vars) => SecretInv'
<1> SUFFICES ASSUME SecretInv, [Secret!Next]_(Secret!vars) PROVE SecretInv'
    OBVIOUS
<1>1. ASSUME NEW i \in Slots, Secret!Rotated(i) \/ Secret!End(i) PROVE SecretInv'
    BY <1>1, SecretRotated, SecretEnd DEF Secret!End
<1>2. CASE UNCHANGED Secret!vars
    <2>1. /\ UNCHANGED <<lease, fence, secrets, assigned, inv, drawn, keysUsed, runnersUsed, pinned>>
        BY <1>2 DEF Secret!vars
    <2> QED BY <2>1 DEF SecretInv, SecretTypeOK, FenceOK, OnePut, OneRunner, Stored, HoldsOK, PlansOK, Readable,
              CurrentSecret, OneKey, NothingYet, SecretOK, Named, HasSecret, Plans
<1> QED BY <1>1, <1>2, SecretInvoke, SecretLoad, SecretRead, SecretClaim, SecretReserve, SecretPut,
           SecretRegister, SecretReady, SecretRotate DEF Secret!Next

LEMMA AtMostOne ==
    ASSUME NEW S, \A a, b \in S : a = b
    PROVE  Cardinality(S) <= 1
<1>1. CASE S = {}
    BY <1>1, FS_EmptySet
<1>2. CASE S # {}
    <2>1. PICK x : S = {x}
        BY <1>2
    <2> QED BY <2>1, FS_Singleton
<1> QED BY <1>1, <1>2

\* The invocations work with one receipt key and as one runner, and a readable
\* secret has every rotation that was recorded (bootstrap.go, aws.go).
THEOREM KeyHistoryIsKept == Secret!Spec => []Secret!KeyHistoryKept
<1>1. SecretInv => Secret!KeyHistoryKept
    <2> SUFFICES ASSUME SecretInv PROVE Secret!KeyHistoryKept
        OBVIOUS
    <2>1. Cardinality(keysUsed) <= 1
        <3>1. \A a, b \in keysUsed : a = b
            BY DEF SecretInv, OneKey
        <3> QED BY <3>1, AtMostOne
    <2>2. Cardinality(runnersUsed) <= 1
        <3>1. \A a, b \in runnersUsed : a = b
            BY DEF SecretInv, OneRunner
        <3> QED BY <3>1, AtMostOne
    <2> QED BY <2>1, <2>2, Counting DEF Secret!KeyHistoryKept, SecretInv, Readable, CurrentSecret
<1> QED BY <1>1, SecretInitial, SecretStep, PTL DEF Secret!Spec

-----------------------------------------------------------------------------
(* The readers of the cloud sources (SourceReader) *)

Byte == {Pin} \X Nat
Body == [range : Nat, bytes : Seq(Byte), broken : BOOLEAN]
CallType ==
    [op : {"none", "at", "open", "stream"}, off : Nat, asked : Nat, body : Body,
     how : {"running", "full", "eof", "failed"}]

\* A part of the signed object.
Genuine(bytes, from) ==
    /\ bytes \in Seq(Byte)
    /\ \A k \in 1 .. Len(bytes) : bytes[k] = <<Pin, from + k - 1>>

ReaderInv ==
    /\ start \in Nat /\ Genuine(cache, start)
    /\ call \in CallType
    /\ Genuine(got, call.off) /\ Len(got) <= call.asked
    /\ call.op \in {"open", "stream"} => call.off = 0 /\ call.asked = Size
    /\ Reader!Running /\ call.op = "open" => got = <<>>
    /\ Reader!Running /\ call.op = "stream" => Genuine(call.body.bytes, 0)
    /\ call.how = "full" => Len(got) = call.asked
    /\ call.how = "eof" => call.off + Len(got) >= Size

LEMMA BytesGenuine ==
    ASSUME NEW from \in Nat, NEW n \in Nat
    PROVE  Genuine(Reader!Bytes(Pin, from, n), from) /\ Len(Reader!Bytes(Pin, from, n)) = n
<1>1. \A k \in 1 .. n : <<Pin, from + k - 1>> \in Byte
    BY DEF Byte
<1>2. Reader!Bytes(Pin, from, n) \in Seq(Byte) /\ Len(Reader!Bytes(Pin, from, n)) = n
    BY <1>1 DEF Reader!Bytes
<1> QED BY <1>2 DEF Reader!Bytes, Genuine

LEMMA GenuineIsBytes ==
    ASSUME NEW from \in Nat, NEW bytes, Genuine(bytes, from)
    PROVE  bytes = Reader!Bytes(Pin, from, Len(bytes))
<1>1. Len(bytes) \in Nat /\ bytes \in Seq(Byte)
    BY LenProperties DEF Genuine
<1>2. PICK b : b = Reader!Bytes(Pin, from, Len(bytes))
    OBVIOUS
<1>3. b \in Seq(Byte) /\ Len(b) = Len(bytes) /\ \A k \in 1 .. Len(bytes) : b[k] = bytes[k]
    BY <1>1, <1>2, BytesGenuine DEF Genuine
<1> QED BY <1>1, <1>2, <1>3, SeqEqual

LEMMA EmptyIsGenuine ==
    ASSUME NEW from \in Nat
    PROVE  Genuine(<<>>, from) /\ Len(<<>>) = 0
BY DEF Genuine

\* What a copy is.
Copied(whole, head, window, skipped, n) == whole = head \o SubSeq(window, skipped + 1, skipped + n)

\* The copy of a part of the window behind what the call has so far.
LEMMA GenuineGrows ==
    ASSUME NEW off \in Nat, NEW head, NEW from \in Nat, NEW window, NEW n \in Nat, NEW skipped \in Nat, NEW whole,
           Genuine(head, off), Genuine(window, from), Copied(whole, head, window, skipped, n),
           off + Len(head) = from + skipped, skipped + n <= Len(window)
    PROVE  Genuine(whole, off) /\ Len(whole) = Len(head) + n
<1>1. head \in Seq(Byte) /\ window \in Seq(Byte) /\ Len(head) \in Nat /\ Len(window) \in Nat
    BY LenProperties DEF Genuine
<1>2. PICK a : a = skipped + 1
    OBVIOUS
<1>a. a \in Int
    BY <1>1, <1>2
<1>3. PICK more : more = SubSeq(window, a, a + n - 1)
    OBVIOUS
<1>4. \A k \in a .. a + n - 1 : k \in 1 .. Len(window) /\ window[k] \in Byte /\ window[k] = <<Pin, from + k - 1>>
    BY <1>1, <1>2, <1>a DEF Genuine
<1>5. more \in Seq(Byte) /\ Len(more) = n /\ \A k \in 1 .. n : more[k] = window[a + k - 1]
    <2>1. a + n - 1 \in Int /\ (IF a <= a + n - 1 THEN a + n - 1 - a + 1 ELSE 0) = n /\ a + n - 1 - a + 1 = n
        BY <1>a
    <2>2. /\ more \in Seq(Byte)
          /\ Len(more) = IF a <= a + n - 1 THEN a + n - 1 - a + 1 ELSE 0
          /\ \A k \in 1 .. a + n - 1 - a + 1 : more[k] = window[a + k - 1]
        BY <1>a, <1>3, <1>4, <2>1, SubSeqProperties
    <2> QED BY <2>1, <2>2
<1>6. \A k \in 1 .. n : more[k] = <<Pin, off + Len(head) + k - 1>>
    <2> TAKE k \in 1 .. n
    <2>1. a + k - 1 \in a .. a + n - 1 /\ from + (a + k - 1) - 1 = off + Len(head) + k - 1
        BY <1>1, <1>2, <1>a
    <2> QED BY <2>1, <1>4, <1>5
<1>7. /\ head \o more \in Seq(Byte) /\ Len(head \o more) = Len(head) + n
      /\ \A k \in 1 .. Len(head) + n : (head \o more)[k] = IF k <= Len(head) THEN head[k] ELSE more[k - Len(head)]
    BY <1>1, <1>5, ConcatProperties
<1>8. ASSUME NEW k \in 1 .. Len(head) + n PROVE (head \o more)[k] = <<Pin, off + k - 1>>
    <2>1. CASE k <= Len(head)
        BY <1>1, <1>7, <2>1 DEF Genuine
    <2>2. CASE ~(k <= Len(head))
        <3>1. k - Len(head) \in 1 .. n /\ off + Len(head) + (k - Len(head)) - 1 = off + k - 1
            BY <1>1, <2>2
        <3> QED BY <1>1, <1>6, <1>7, <2>2, <3>1
    <2> QED BY <2>1, <2>2
<1>9. whole = head \o more
    <2>1. skipped + n = a + n - 1
        BY <1>1, <1>2
    <2> QED BY <1>2, <1>3, <2>1 DEF Copied
<1>10. Genuine(head \o more, off) /\ Len(head \o more) = Len(head) + n
    BY <1>7, <1>8 DEF Genuine
<1> QED BY <1>9, <1>10

LEMMA NoBodyType == Reader!NoBody \in Body
<1>1. <<>> \in Seq(Byte)
    OBVIOUS
<1> QED BY <1>1 DEF Reader!NoBody, Body

\* Whatever arrives of the bucket and is not refused is of the signed object.
LEMMA GetIsGenuine ==
    ASSUME NEW from \in Nat, NEW n \in Nat, NEW r \in Reader!Bodies(from, n), Reader!Get(r, from)
    PROVE  r \in Body /\ Genuine(r.bytes, from)
<1>1. PICK held : held = IF source = "version" THEN Pin ELSE gen
    OBVIOUS
<1>2. held = Pin /\ r.range = from
    BY <1>1 DEF Reader!Get, Reader!Served
<1>3. /\ r.broken \in BOOLEAN /\ r = [range |-> r.range, bytes |-> r.bytes, broken |-> r.broken]
      /\ \E k \in Nat : r.bytes = Reader!Bytes(held, from, k)
    <2>1. CASE r = [range |-> from, bytes |-> Reader!Bytes(held, from, n), broken |-> FALSE]
        BY <2>1
    <2>2. CASE \E k \in 0 .. n - 1 : r = [range |-> from, bytes |-> Reader!Bytes(held, from, k), broken |-> TRUE]
        <3>1. PICK k \in 0 .. n - 1 : r = [range |-> from, bytes |-> Reader!Bytes(held, from, k), broken |-> TRUE]
            BY <2>2
        <3>2. k \in Nat
            OBVIOUS
        <3> QED BY <3>1, <3>2
    <2>3. CASE \E k \in (0 .. n - 1) \cup {n + 1} : r = [range |-> from, bytes |-> Reader!Bytes(held, from, k), broken |-> FALSE]
        <3>1. PICK k \in (0 .. n - 1) \cup {n + 1} : r = [range |-> from, bytes |-> Reader!Bytes(held, from, k), broken |-> FALSE]
            BY <2>3
        <3>2. k \in Nat
            OBVIOUS
        <3> QED BY <3>1, <3>2
    <2>4. CASE r = [range |-> from + 1, bytes |-> Reader!Bytes(held, from + 1, n), broken |-> FALSE]
        BY <1>2, <2>4
    <2> QED BY <1>1, <2>1, <2>2, <2>3, <2>4 DEF Reader!Bodies
<1>4. PICK k \in Nat : r.bytes = Reader!Bytes(Pin, from, k)
    BY <1>2, <1>3
<1>5. Genuine(Reader!Bytes(Pin, from, k), from)
    BY BytesGenuine
<1>6. r.bytes \in Seq(Byte) /\ Genuine(r.bytes, from)
    BY <1>4, <1>5 DEF Genuine
<1> QED BY <1>2, <1>3, <1>6 DEF Body

LEMMA ReaderInitial == Reader!Init => ReaderInv
<1> SUFFICES ASSUME Reader!Init PROVE ReaderInv
    OBVIOUS
<1>1. call \in CallType /\ call.how = "failed" /\ call.op = "none" /\ call.off = 0 /\ call.asked = 0
    BY NoBodyType DEF Reader!Init, Reader!NoCall, Reader!Call, CallType
<1> QED BY <1>1, EmptyIsGenuine DEF Reader!Init, ReaderInv, Reader!Running

\* A call that has just begun, and one that ends.
LEMMA ReaderBegins ==
    ASSUME ReaderInv, NEW op \in {"at", "open"}, NEW off \in Nat, NEW asked \in Nat,
           op = "open" => off = 0 /\ asked = Size,
           call' = Reader!Call(op, off, asked, Reader!NoBody), got' = <<>>, UNCHANGED <<cache, start>>
    PROVE  ReaderInv'
<1>1. /\ call' \in CallType /\ call'.op = op /\ call'.off = off /\ call'.asked = asked /\ call'.how = "running"
    BY NoBodyType DEF Reader!Call, CallType
<1> QED BY <1>1, EmptyIsGenuine DEF ReaderInv, Reader!Running, Genuine

LEMMA ReaderFinishes ==
    ASSUME ReaderInv, NEW how \in {"full", "eof", "failed"}, Reader!Finish(how), UNCHANGED got,
           start' \in Nat, Genuine(cache', start'),
           how = "full" => Len(got) = call.asked,
           how = "eof" => call.off + Len(got) >= Size
    PROVE  ReaderInv'
<1>1. /\ call' \in CallType /\ call'.op = call.op /\ call'.off = call.off /\ call'.asked = call.asked
      /\ call'.how = how
    BY NoBodyType DEF ReaderInv, Reader!Finish, CallType
<1> QED BY <1>1 DEF ReaderInv, Reader!Running, Genuine

LEMMA SmallerOfBoth ==
    ASSUME NEW a \in Nat, NEW b \in Nat
    PROVE  Reader!Smaller(a, b) \in Nat /\ Reader!Smaller(a, b) <= a /\ Reader!Smaller(a, b) <= b
BY DEF Reader!Smaller

LEMMA ReaderCopies ==
    ASSUME ReaderInv, Reader!Copy
    PROVE  ReaderInv'
<1>1. /\ start \in Nat /\ Genuine(cache, start) /\ Genuine(got, call.off)
      /\ call.off \in Nat /\ call.asked \in Nat /\ Len(got) \in Nat /\ Len(cache) \in Nat
    BY LenProperties DEF ReaderInv, CallType, Genuine
<1>2. PICK n : n = Reader!Smaller(Reader!Left, start + Len(cache) - Reader!Pos)
    OBVIOUS
<1>3. Reader!Left > 0 /\ start <= Reader!Pos /\ Reader!Pos < start + Len(cache) /\ Reader!Pos = call.off + Len(got) /\ Reader!Left = call.asked - Len(got)
    BY DEF Reader!Copy, Reader!InWindow, Reader!Pos, Reader!Left
<1>4. PICK skipped : skipped = Reader!Pos - start
    OBVIOUS
<1>5. Copied(got', got, cache, skipped, n)
    BY <1>2, <1>4 DEF Reader!Copy, Copied
<1>6. /\ n \in Nat /\ skipped \in Nat /\ Len(got) + n <= call.asked
      /\ call.off + Len(got) = start + skipped /\ skipped + n <= Len(cache)
    <2>1. Reader!Left \in Nat /\ start + Len(cache) - Reader!Pos \in Nat
        <3>1. PICK k, a, s, w, o \in Nat : k = Len(got) /\ a = call.asked /\ s = start /\ w = Len(cache) /\ o = call.off
            BY <1>1
        <3>2. o + k < s + w /\ a - k > 0 /\ Reader!Left = a - k /\ Reader!Pos = o + k
            BY <1>3, <3>1
        <3>3. a - k \in Nat /\ s + w - (o + k) \in Nat
            BY <3>2
        <3> QED BY <3>1, <3>2, <3>3
    <2>2. n \in Nat /\ n <= Reader!Left /\ n <= start + Len(cache) - Reader!Pos
        BY <1>2, <2>1, SmallerOfBoth
    <2>3. call.off + Len(got) = start + skipped /\ skipped \in Nat
        BY <1>1, <1>3, <1>4
    <2>4. Len(got) + n <= call.asked
        BY <1>1, <1>3, <2>2
    <2>5. skipped + n <= Len(cache)
        <3>1. Reader!Pos \in Nat
            BY <1>1, <1>3
        <3> QED BY <1>1, <1>4, <2>2, <2>3, <3>1
    <2> QED BY <2>2, <2>3, <2>4, <2>5
<1>7. Genuine(got', call.off) /\ Len(got') = Len(got) + n
    <2>1. PICK off \in Nat, from \in Nat, m \in Nat, k \in Nat : off = call.off /\ from = start /\ m = n /\ k = skipped
        BY <1>1, <1>6
    <2>2. PICK head, window, whole : head = got /\ window = cache /\ whole = got'
        OBVIOUS
    <2>3. /\ Genuine(head, off) /\ Genuine(window, from) /\ Copied(whole, head, window, k, m)
          /\ off + Len(head) = from + k /\ k + m <= Len(window)
        BY <1>1, <1>5, <1>6, <2>1, <2>2
    <2>4. Genuine(whole, off) /\ Len(whole) = Len(head) + m
        BY <2>3, GenuineGrows
    <2> QED BY <2>1, <2>2, <2>4
<1> QED BY <1>6, <1>7 DEF ReaderInv, Reader!Copy, Reader!Running, Genuine

LEMMA ReaderRefills ==
    ASSUME ReaderInv, Reader!Refill, Size \in Nat, Window \in Nat
    PROVE  ReaderInv'
<1>1. /\ start \in Nat /\ Genuine(cache, start) /\ call.off \in Nat /\ Len(got) \in Nat
    BY LenProperties DEF ReaderInv, CallType, Genuine
<1>2. PICK n : n = Reader!Smaller(Reader!Smaller(Window, Size), Size - Reader!Pos)
    OBVIOUS
<1>3. n \in Nat /\ Reader!Pos \in Nat
    BY <1>1, <1>2 DEF Reader!Refill, Reader!Smaller, Reader!Pos
<1>4. PICK r \in Reader!Bodies(Reader!Pos, n) :
          IF Reader!Get(r, Reader!Pos) /\ ~r.broken /\ Len(r.bytes) = n
          THEN cache' = r.bytes /\ start' = Reader!Pos /\ UNCHANGED call
          ELSE /\ Reader!Finish("failed")
               /\ cache' = IF Reader!Get(r, Reader!Pos) THEN Reader!AfterFailure(r.bytes)
                           ELSE IF source = "bridge" THEN <<>> ELSE cache
               /\ UNCHANGED start
    BY <1>2 DEF Reader!Refill
<1>5. CASE Reader!Get(r, Reader!Pos) /\ ~r.broken /\ Len(r.bytes) = n
    <2>1. Genuine(cache', start') /\ start' \in Nat /\ UNCHANGED <<call, got>>
        BY <1>3, <1>4, <1>5, GetIsGenuine DEF Reader!Refill
    <2> QED BY <2>1 DEF ReaderInv, Reader!Running, Genuine
<1>6. CASE ~(Reader!Get(r, Reader!Pos) /\ ~r.broken /\ Len(r.bytes) = n)
    <2>1. Reader!Finish("failed") /\ start' = start /\ cache' \in {<<>>, cache}
        BY <1>4, <1>6 DEF Reader!AfterFailure
    <2>2. Genuine(<<>>, start)
        BY <1>1, EmptyIsGenuine
    <2>3. Genuine(cache', start')
        BY <1>1, <2>1, <2>2
    <2> QED BY <1>1, <2>1, <2>3, ReaderFinishes DEF Reader!Refill
<1> QED BY <1>5, <1>6

LEMMA ReaderReturns ==
    ASSUME ReaderInv, Reader!Returned, Size \in Nat
    PROVE  ReaderInv'
<1>1. /\ start \in Nat /\ Genuine(cache, start)
      /\ call.off \in Nat /\ call.asked \in Nat /\ Len(got) \in Nat
    BY LenProperties DEF ReaderInv, CallType, Genuine
<1>2. CASE Reader!Left = 0
    <2>1. Reader!Finish("full") /\ Len(got) = call.asked
        BY <1>1, <1>2 DEF Reader!Returned, Reader!Left
    <2> QED BY <1>1, <2>1, ReaderFinishes DEF Reader!Returned, Genuine
<1>3. CASE Reader!Left # 0
    <2>1. Reader!Finish("eof") /\ call.off + Len(got) >= Size
        BY <1>1, <1>3 DEF Reader!Returned, Reader!Pos
    <2> QED BY <1>1, <2>1, ReaderFinishes DEF Reader!Returned, Genuine
<1> QED BY <1>2, <1>3

LEMMA ReaderStreams ==
    ASSUME ReaderInv, Reader!Stream, Size \in Nat
    PROVE  ReaderInv'
<1>1. PICK r \in Reader!Bodies(0, Size) :
          IF Reader!Get(r, 0) THEN call' = [call EXCEPT !.op = "stream", !.body = r] ELSE Reader!Finish("failed")
    BY DEF Reader!Stream
<1>2. start \in Nat /\ Genuine(cache, start)
    BY DEF ReaderInv
<1>3. CASE Reader!Get(r, 0)
    <2>1. r \in Body /\ Genuine(r.bytes, 0)
        BY <1>3, GetIsGenuine
    <2>2. /\ call' \in CallType /\ call'.op = "stream" /\ call'.off = call.off /\ call'.asked = call.asked
          /\ call'.how = call.how /\ call'.body = r
        BY <1>1, <1>3, <2>1 DEF ReaderInv, CallType
    <2> QED BY <2>1, <2>2 DEF ReaderInv, Reader!Stream, Reader!Running, Genuine
<1>4. CASE ~Reader!Get(r, 0)
    BY <1>1, <1>2, <1>4, ReaderFinishes DEF Reader!Stream, Genuine
<1> QED BY <1>3, <1>4

LEMMA ReaderReads ==
    ASSUME ReaderInv, Reader!Read, Size \in Nat
    PROVE  ReaderInv'
<1>1. PICK bytes : bytes = call.body.bytes
    OBVIOUS
<1>2. /\ start \in Nat /\ Genuine(cache, start) /\ Genuine(got, 0) /\ Genuine(bytes, 0)
      /\ call.off = 0 /\ call.asked = Size /\ Len(got) \in Nat /\ Len(bytes) \in Nat
    BY <1>1, LenProperties DEF ReaderInv, CallType, Genuine, Reader!Read
<1>3. CASE Len(got) < Reader!Smaller(Len(bytes), call.asked)
    <2>1. PICK b : b = bytes[Len(got) + 1]
        OBVIOUS
    <2>2. b \in Byte /\ b = <<Pin, Len(got)>> /\ Len(got) + 1 <= Size
        BY <1>2, <1>3, <2>1 DEF Genuine, Reader!Smaller
    <2>3. got' = Append(got, b) /\ UNCHANGED call
        BY <1>1, <1>3, <2>1 DEF Reader!Read
    <2>4. /\ got' \in Seq(Byte) /\ Len(got') = Len(got) + 1
          /\ \A k \in 1 .. Len(got) : got'[k] = got[k]
          /\ got'[Len(got) + 1] = b
        BY <2>2, <2>3, AppendProperties DEF Genuine, ReaderInv
    <2>5. ASSUME NEW k \in 1 .. Len(got') PROVE got'[k] = <<Pin, 0 + k - 1>>
        <3>1. CASE k <= Len(got)
            BY <1>2, <2>4, <3>1 DEF Genuine
        <3>2. CASE ~(k <= Len(got))
            <4>1. k = Len(got) + 1 /\ 0 + k - 1 = Len(got)
                BY <1>2, <2>4, <3>2
            <4> QED BY <2>2, <2>4, <4>1
        <3> QED BY <3>1, <3>2
    <2>6. Genuine(got', 0)
        BY <2>4, <2>5 DEF Genuine
    <2> QED BY <1>2, <2>2, <2>3, <2>4, <2>6 DEF ReaderInv, Reader!Read, Reader!Running, Genuine
<1>4. CASE ~(Len(got) < Reader!Smaller(Len(bytes), call.asked))
    <2>1. PICK how : how = Reader!EndOf(call.body)
        OBVIOUS
    <2>2. how \in {"eof", "failed"} /\ (how = "eof" => Len(bytes) = Size)
        BY <1>1, <1>2, <2>1 DEF Reader!EndOf
    <2>3. how = "eof" => call.off + Len(got) >= Size
        BY <1>2, <1>4, <2>2 DEF Reader!Smaller
    <2>4. Reader!Finish(how)
        BY <1>1, <1>4, <2>1 DEF Reader!Read
    <2>5. UNCHANGED <<got, cache, start>>
        BY <1>1, <1>4 DEF Reader!Read
    <2> QED BY <1>2, <2>2, <2>3, <2>4, <2>5, ReaderFinishes
<1> QED BY <1>3, <1>4

LEMMA ReaderStep == Size \in Nat /\ Window \in Nat /\ ReaderInv /\ [Reader!Next]_(Reader!vars) => ReaderInv'
<1> SUFFICES ASSUME Size \in Nat, Window \in Nat, ReaderInv, [Reader!Next]_(Reader!vars) PROVE ReaderInv'
    OBVIOUS
<1>1. start \in Nat /\ Genuine(cache, start)
    BY DEF ReaderInv
<1>2. ASSUME NEW off \in 0 .. Size, NEW n \in 1 .. Size, Reader!ReadAt(off, n) PROVE ReaderInv'
    BY <1>2, ReaderBegins DEF Reader!ReadAt
<1>3. CASE Reader!Open
    BY <1>3, ReaderBegins DEF Reader!Open
<1>4. CASE Reader!Cancel
    BY <1>1, <1>4, ReaderFinishes DEF Reader!Cancel, Genuine
<1>5. CASE Reader!OpenAt \/ Reader!Overwrite \/ Reader!Delete \/ UNCHANGED Reader!vars
    <2>1. UNCHANGED <<cache, start, call, got>>
        BY <1>5 DEF Reader!OpenAt, Reader!Overwrite, Reader!Delete, Reader!vars
    <2> QED BY <2>1 DEF ReaderInv, Reader!Running, Genuine
<1>6. CASE Reader!Close
    <2>1. cache' = <<>> /\ start' = 0 /\ UNCHANGED <<call, got>>
        BY <1>6 DEF Reader!Close
    <2> QED BY <2>1, EmptyIsGenuine DEF ReaderInv, Reader!Running, Genuine
<1> QED BY <1>2, <1>3, <1>4, <1>5, <1>6, ReaderCopies, ReaderRefills, ReaderReturns, ReaderStreams,
           ReaderReads DEF Reader!Next

\* An operation gives bytes of the signed object only, and all there are if it
\* ends without an error (s3.go: ReadAt; reader.go: ReadAt, fullReader.Read).
THEOREM ReadsOnlyThePin ==
    ASSUME Size \in Nat, Window \in Nat
    PROVE  Reader!Spec => []Reader!ReadsPinnedBytes
<1>1. ReaderInv => Reader!ReadsPinnedBytes
    BY GenuineIsBytes DEF ReaderInv, CallType, Reader!ReadsPinnedBytes
<1> QED BY <1>1, ReaderInitial, ReaderStep, PTL DEF Reader!Spec

-----------------------------------------------------------------------------
(* The records of the inventory (Inventory) *)

Hash == Seq(Nat)
FileType == [blocks : Hash, mtime : Nat]
Known == [hash : Hash, mtime : Nat \cup {None}]
Report == [file : Records!Names, hash : Hash, mtime : Nat, present : BOOLEAN]

\* What the model leaves out of None: it is none of the values it stands beside.
NoneIsNoRecord == None \notin Nat /\ None \notin Hash /\ None \notin FileType /\ None \notin Known

\* Nothing but the hash of a content goes with its time.
Fair(f, hash, mtime) ==
    /\ mtime = None \/ mtime <= clock
    /\ disk[f] # None /\ disk[f].mtime = mtime /\ Len(disk[f].blocks) = Len(hash) => hash = disk[f].blocks

KnownOK(known) ==
    /\ known \in [Records!Names -> Known \cup {None}]
    /\ \A f \in Records!Names : known[f] # None => Fair(f, known[f].hash, known[f].mtime)

\* What has been read of a file that still has the time it had then.
Partial(f, read, mtime) ==
    /\ mtime <= clock
    /\ disk[f] # None /\ disk[f].mtime = mtime =>
          /\ Len(read) <= Len(disk[f].blocks)
          /\ \A k \in 1 .. Len(read) : read[k] = disk[f].blocks[k]

Reports(out, f) == {i \in DOMAIN out : out[i].file = f}

OutOK(out) ==
    /\ out \in Seq(Report)
    /\ \A i \in DOMAIN out : out[i].present => Fair(out[i].file, out[i].hash, out[i].mtime)

\* Every file that was known is reported, and as either present or missing.
Complete(x) ==
    /\ \A f \in Records!Names : Reports(x.out, f) = {} => x.prior[f] = None
    /\ \A i, j \in DOMAIN x.out : x.out[i].file = x.out[j].file => x.out[i].present = x.out[j].present

IsScan(x) ==
    x = [pc |-> x.pc, left |-> x.left, prior |-> x.prior, mtime |-> x.mtime, read |-> x.read, out |-> x.out]

ScanOK(x) ==
    /\ x.pc \in {"idle", "walk", "read", "put", "append"}
    /\ x.pc # "idle" => KnownOK(x.prior) /\ OutOK(x.out)
    /\ x.pc \in {"walk", "read"} =>
          x.left \in Seq(Records!Names) /\ \A i \in DOMAIN x.out : x.out[i].present
    /\ x.pc = "walk" => x.read = <<>>
    /\ x.pc = "read" =>
          /\ x.left # <<>> /\ x.mtime \in Nat /\ x.read \in Hash
          /\ Partial(x.left[1], x.read, x.mtime)
    /\ x.pc \in {"put", "append"} =>
          /\ Complete(x)
          /\ x.left \in Seq(Report)
          /\ \A i \in DOMAIN x.left : \E j \in DOMAIN x.out : x.left[i] = x.out[j]

\* The backend was told of the files that are known.
Level == \A f \in Records!Names : (active[f] = None) = (previous[f] = None)

\* What was appended so far: a file whose last report is out is there or not.
Applied(x) ==
    \A f \in Records!Names :
        Reports(x.left, f) = {} =>
            (active[f] = None <=> \A i \in Reports(x.out, f) : ~x.out[i].present)

AloneOK ==
    /\ \A s, t \in Scans : scan[s].pc # "idle" /\ scan[t].pc # "idle" => s = t
    /\ \A s \in Scans : /\ scan[s].pc # "idle" => scan[s].prior = previous
                        /\ scan[s].pc = "append" => Applied(scan[s])
    /\ (\A s \in Scans : scan[s].pc # "append") => Level

RecordsInv ==
    /\ clock \in Nat /\ disturbed \in BOOLEAN
    /\ disk \in [Records!Names -> FileType \cup {None}]
    /\ \A f \in Records!Names : disk[f] # None => disk[f].mtime <= clock
    /\ active \in [Records!Names -> Hash \cup {None}]
    /\ KnownOK(previous)
    /\ scan = [s \in Scans |-> scan[s]]
    /\ \A s \in Scans : IsScan(scan[s]) /\ ScanOK(scan[s])
    /\ ~disturbed => AloneOK

LEMMA RecordsInitial ==
    ASSUME NoneIsNoRecord, Records!Init
    PROVE  RecordsInv
<1>1. /\ clock = 0 /\ disturbed = FALSE
      /\ \A f \in Records!Names : previous[f] = None /\ active[f] = None
      /\ previous = [f \in Records!Names |-> None] /\ active = [f \in Records!Names |-> None]
      /\ disk = [f \in Records!Names |-> [blocks |-> <<0>>, mtime |-> 0]]
    BY DEF Records!Init
<1>2. <<0>> \in Hash
    BY DEF Hash
<1>3. disk \in [Records!Names -> FileType \cup {None}] /\ \A f \in Records!Names : disk[f].mtime <= clock
    BY <1>1, <1>2 DEF FileType
<1>4. \A s \in Scans : scan[s].pc = "idle" /\ IsScan(scan[s])
    BY DEF Records!Init, Records!Idle, IsScan
<1>5. KnownOK(previous)
    BY <1>1 DEF KnownOK
<1>6. AloneOK
    BY <1>1, <1>4 DEF AloneOK, Level
<1>7. scan = [s \in Scans |-> scan[s]]
    BY DEF Records!Init
<1> QED BY <1>1, <1>3, <1>4, <1>5, <1>6, <1>7 DEF RecordsInv, ScanOK

\* Whatever else a step does: a scan that is well is well after it, as long as
\* the files are what they were.
LEMMA ScanStands ==
    ASSUME NEW t \in Scans, NEW y, y = scan'[t], UNCHANGED <<disk, clock>>, IsScan(y), ScanOK(y)
    PROVE  (IsScan(scan[t]) /\ ScanOK(scan[t]))'
<1>1. IsScan(scan[t])'
    BY DEF IsScan
<1>2. ASSUME y.pc # "idle" PROVE KnownOK(scan[t].prior)' /\ OutOK(scan[t].out)'
    <2>1. KnownOK(y.prior) /\ OutOK(y.out)
        BY <1>2 DEF ScanOK
    <2>2. \A f, h, m : Fair(f, h, m)' <=> Fair(f, h, m)
        BY DEF Fair
    <2>3. KnownOK(scan[t].prior)'
        BY <2>1, <2>2 DEF KnownOK
    <2>4. OutOK(scan[t].out)'
        BY <2>1, <2>2 DEF OutOK
    <2> QED BY <2>3, <2>4
<1>3. ASSUME y.pc = "read" PROVE Partial(scan[t].left[1], scan[t].read, scan[t].mtime)'
    <2>1. Partial(y.left[1], y.read, y.mtime)
        BY <1>3 DEF ScanOK
    <2> QED BY <2>1 DEF Partial
<1>4. ASSUME y.pc \in {"put", "append"} PROVE Complete(scan[t])'
    <2>1. Complete(y)
        BY <1>4 DEF ScanOK
    <2> QED BY <2>1 DEF Complete, Reports
<1>5. /\ y.pc \in {"idle", "walk", "read", "put", "append"}
      /\ y.pc \in {"walk", "read"} =>
            y.left \in Seq(Records!Names) /\ \A i \in DOMAIN y.out : y.out[i].present
      /\ y.pc = "walk" => y.read = <<>>
      /\ y.pc = "read" => y.left # <<>> /\ y.mtime \in Nat /\ y.read \in Hash
      /\ y.pc \in {"put", "append"} =>
            y.left \in Seq(Report) /\ \A i \in DOMAIN y.left : \E j \in DOMAIN y.out : y.left[i] = y.out[j]
    BY DEF ScanOK
<1>6. ScanOK(scan[t])'
    BY <1>2, <1>3, <1>4, <1>5 DEF ScanOK
<1> QED BY <1>1, <1>6

\* A step of one scan that leaves the disk, the records and the log alone.
LEMMA RecordsTurn ==
    ASSUME RecordsInv, NEW s \in Scans, NEW x, IsScan(x), scan' = [scan EXCEPT ![s] = x],
           UNCHANGED <<disk, clock, previous, active, disturbed>>,
           scan[s].pc # "idle", ScanOK(x), x.pc # "idle" => x.prior = scan[s].prior,
           x.pc = "append" => (~disturbed => Applied(x)),
           scan[s].pc = "append" => x.pc = "append"
    PROVE  RecordsInv'
<1>1. scan'[s] = x /\ (\A t \in Scans : t # s => scan'[t] = scan[t]) /\ scan' = [t \in Scans |-> scan'[t]]
    BY DEF RecordsInv
<1>2. ASSUME NEW t \in Scans PROVE (IsScan(scan[t]) /\ ScanOK(scan[t]))'
    <2>1. PICK y : y = scan'[t]
        OBVIOUS
    <2>2. IsScan(y) /\ ScanOK(y)
        BY <1>1, <2>1 DEF RecordsInv
    <2> QED BY <2>1, <2>2, ScanStands
<1>3. ASSUME ~disturbed PROVE AloneOK'
    <2>1. AloneOK
        BY <1>3 DEF RecordsInv
    <2>2. \A t \in Scans : scan'[t].pc # "idle" => scan[t].pc # "idle" /\ scan'[t].prior = scan[t].prior
        BY <1>1
    <2>3. ASSUME NEW t \in Scans, scan'[t].pc = "append" PROVE Applied(scan[t])'
        <3>1. PICK y : y = scan'[t]
            OBVIOUS
        <3>2. Applied(y)
            BY <1>1, <1>3, <2>1, <2>3, <3>1 DEF AloneOK
        <3>3. Applied(y)'
            BY <3>2 DEF Applied, Reports
        <3> QED BY <3>1, <3>3 DEF Applied
    <2>4. (\A t \in Scans : scan'[t].pc # "append") => Level'
        BY <1>1, <2>1 DEF AloneOK, Level
    <2>5. \A t, u \in Scans : scan'[t].pc # "idle" /\ scan'[u].pc # "idle" => t = u
        BY <2>1, <2>2 DEF AloneOK
    <2>6. \A t \in Scans : scan'[t].pc # "idle" => scan'[t].prior = previous'
        BY <2>1, <2>2 DEF AloneOK
    <2> QED BY <2>3, <2>4, <2>5, <2>6 DEF AloneOK
<1>4. KnownOK(previous)'
    BY DEF RecordsInv, KnownOK, Fair
<1> QED BY <1>1, <1>2, <1>3, <1>4 DEF RecordsInv

LEMMA IdleOK ==
    ASSUME NEW x, x = Records!Idle
    PROVE  IsScan(x) /\ ScanOK(x) /\ x.pc = "idle"
BY DEF Records!Idle, IsScan, ScanOK

LEMMA RecordsCancel ==
    ASSUME RecordsInv, NEW s \in Scans, Records!Cancel(s)
    PROVE  RecordsInv'
<1>1. PICK x : x = Records!Idle
    OBVIOUS
<1>2. scan' = [scan EXCEPT ![s] = x]
    BY <1>1 DEF Records!Cancel, Records!Becomes
<1> QED BY <1>1, <1>2, IdleOK, RecordsTurn DEF Records!Cancel, Records!Disk, Records!Kept

LEMMA RecordsStart ==
    ASSUME RecordsInv, NEW s \in Scans, Records!Start(s), Files \in Seq(Records!Names)
    PROVE  RecordsInv'
<1>1. PICK x : x = [Records!Idle EXCEPT !.pc = "walk", !.left = Files, !.prior = previous]
    OBVIOUS
<1>2. IsScan(x) /\ x.pc = "walk" /\ x.left = Files /\ x.prior = previous /\ x.out = <<>> /\ x.read = <<>>
    BY <1>1 DEF Records!Idle, IsScan
<1>3. ScanOK(x)
    BY <1>2 DEF ScanOK, RecordsInv, OutOK
<1>4. /\ scan' = [scan EXCEPT ![s] = x] /\ scan[s].pc = "idle"
      /\ UNCHANGED <<disk, clock, previous, active>>
      /\ disturbed' = (disturbed \/ \E t \in Scans : scan[t].pc # "idle")
    BY <1>1 DEF Records!Start, Records!Becomes, Records!Disk, Records!Kept, Records!At
<1>5. scan'[s] = x /\ (\A t \in Scans : t # s => scan'[t] = scan[t]) /\ scan' = [t \in Scans |-> scan'[t]]
    BY <1>4 DEF RecordsInv
<1>6. ASSUME NEW t \in Scans PROVE (IsScan(scan[t]) /\ ScanOK(scan[t]))'
    <2>1. PICK y : y = scan'[t]
        OBVIOUS
    <2>2. IsScan(y) /\ ScanOK(y)
        BY <1>2, <1>3, <1>5, <2>1 DEF RecordsInv
    <2> QED BY <1>4, <2>1, <2>2, ScanStands
<1>7. ASSUME ~disturbed' PROVE AloneOK'
    <2>1. AloneOK /\ \A t \in Scans : scan[t].pc = "idle"
        BY <1>4, <1>7 DEF RecordsInv
    <2>2. Level'
        BY <1>4, <2>1 DEF AloneOK, Level
    <2>3. \A t \in Scans : scan'[t].pc # "append" /\ (scan'[t].pc # "idle" => t = s)
        BY <1>2, <1>5, <2>1
    <2> QED BY <1>2, <1>4, <1>5, <2>2, <2>3 DEF AloneOK
<1>8. KnownOK(previous)' /\ disturbed' \in BOOLEAN
    BY <1>4 DEF RecordsInv, KnownOK, Fair
<1> QED BY <1>4, <1>5, <1>6, <1>7, <1>8 DEF RecordsInv

Finds(x, y, hash, mtime) ==
    x = [y EXCEPT !.pc = "walk", !.left = Tail(@), !.read = <<>>,
            !.out = Append(@, [file |-> y.left[1], hash |-> hash, mtime |-> mtime, present |-> TRUE])]

\* One more file is found.
LEMMA FoundOK ==
    ASSUME NEW y, IsScan(y), ScanOK(y), y.pc \in {"walk", "read"}, y.left # <<>>,
           NEW hash \in Hash, NEW mtime \in Nat, Fair(y.left[1], hash, mtime),
           NEW x, Finds(x, y, hash, mtime)
    PROVE  IsScan(x) /\ ScanOK(x) /\ x.pc = "walk" /\ x.prior = y.prior
<1>1. PICK r : r = [file |-> y.left[1], hash |-> hash, mtime |-> mtime, present |-> TRUE]
    OBVIOUS
<1>2. /\ IsScan(x) /\ x.pc = "walk" /\ x.left = Tail(y.left) /\ x.read = <<>> /\ x.prior = y.prior
      /\ x.out = Append(y.out, r)
    BY <1>1 DEF IsScan, Finds
<1>3. /\ y.left \in Seq(Records!Names) /\ y.out \in Seq(Report) /\ OutOK(y.out) /\ KnownOK(y.prior)
      /\ \A i \in DOMAIN y.out : y.out[i].present
    BY DEF ScanOK, OutOK
<1>4. y.left[1] \in Records!Names /\ x.left \in Seq(Records!Names)
    BY <1>2, <1>3, HeadTailProperties
<1>5. r \in Report /\ r.present /\ Fair(r.file, r.hash, r.mtime)
    BY <1>1, <1>4 DEF Report
<1>6. /\ x.out \in Seq(Report) /\ Len(x.out) = Len(y.out) + 1 /\ x.out[Len(y.out) + 1] = r
      /\ \A i \in 1 .. Len(y.out) : x.out[i] = y.out[i]
    <2>1. PICK q \in Seq(Report) : q = y.out
        BY <1>3
    <2>2. PICK n \in Report : n = r
        BY <1>5
    <2>3. /\ Append(q, n) \in Seq(Report) /\ Len(Append(q, n)) = Len(q) + 1
          /\ \A i \in 1 .. Len(q) : Append(q, n)[i] = q[i]
          /\ Append(q, n)[Len(q) + 1] = n
        BY AppendProperties
    <2> QED BY <1>2, <2>1, <2>2, <2>3
<1>7. Len(y.out) \in Nat /\ DOMAIN y.out = 1 .. Len(y.out) /\ DOMAIN x.out = 1 .. Len(y.out) + 1
    BY <1>3, <1>6, LenProperties
<1>8. ASSUME NEW i \in DOMAIN x.out PROVE x.out[i].present /\ Fair(x.out[i].file, x.out[i].hash, x.out[i].mtime)
    <2>1. CASE i \in DOMAIN y.out
        BY <1>3, <1>6, <1>7, <2>1 DEF OutOK
    <2>2. CASE i \notin DOMAIN y.out
        BY <1>5, <1>6, <1>7, <2>2
    <2> QED BY <2>1, <2>2
<1> QED BY <1>2, <1>3, <1>4, <1>6, <1>8 DEF ScanOK, OutOK

LEMMA RecordsWalk ==
    ASSUME NoneIsNoRecord, RecordsInv, NEW s \in Scans, Records!Walk(s)
    PROVE  RecordsInv'
<1>1. PICK y, f : y = scan[s] /\ f = y.left[1]
    OBVIOUS
<1>2. PICK old : old = y.prior[f]
    OBVIOUS
<1>3. IsScan(y) /\ ScanOK(y) /\ y.pc = "walk" /\ y.left # <<>> /\ y.left \in Seq(Records!Names) /\ KnownOK(y.prior)
    BY <1>1 DEF RecordsInv, Records!Walk, Records!At, ScanOK
<1>4. f \in Records!Names /\ Tail(y.left) \in Seq(Records!Names)
    BY <1>1, <1>3, HeadTailProperties
<1>5. UNCHANGED <<disk, clock, previous, active, disturbed>>
    BY DEF Records!Walk, Records!Disk, Records!Kept
<1>6. CASE disk[f] = None
    <2>1. PICK x : x = [y EXCEPT !.left = Tail(@)]
        OBVIOUS
    <2>2. IsScan(x) /\ x.pc = "walk" /\ x.left = Tail(y.left) /\ x.prior = y.prior /\ x.out = y.out /\ x.read = y.read
        BY <1>3, <2>1 DEF IsScan
    <2>3. ScanOK(x)
        BY <1>3, <1>4, <2>2 DEF ScanOK
    <2>4. scan' = [scan EXCEPT ![s] = x]
        BY <1>1, <1>6, <2>1 DEF Records!Walk, Records!Becomes
    <2> QED BY <1>1, <1>3, <1>5, <2>2, <2>3, <2>4, RecordsTurn
<1>7. CASE disk[f] # None /\ Records!Same(old, Len(disk[f].blocks), disk[f].mtime)
    <2>1. /\ disk[f] \in FileType /\ old # None /\ old \in Known /\ Fair(f, old.hash, old.mtime)
          /\ old.mtime = disk[f].mtime
        BY <1>2, <1>3, <1>4, <1>7 DEF RecordsInv, KnownOK, Records!Same
    <2>2. old.hash \in Hash /\ old.mtime \in Nat
        BY <2>1 DEF FileType, Known
    <2>3. PICK x : x = Records!Found(s, old.hash, old.mtime)
        OBVIOUS
    <2>4. IsScan(x) /\ ScanOK(x) /\ x.pc = "walk" /\ x.prior = y.prior
        <3>1. Finds(x, y, old.hash, old.mtime)
            BY <1>1, <2>3 DEF Records!Found, Finds
        <3>2. Fair(y.left[1], old.hash, old.mtime)
            BY <1>1, <2>1
        <3> QED BY <1>3, <2>2, <3>1, <3>2, FoundOK
    <2>5. scan' = [scan EXCEPT ![s] = x]
        BY <1>1, <1>2, <1>7, <2>3 DEF Records!Walk, Records!Becomes
    <2> QED BY <1>1, <1>3, <1>5, <2>4, <2>5, RecordsTurn
<1>8. CASE disk[f] # None /\ ~Records!Same(old, Len(disk[f].blocks), disk[f].mtime)
    <2>1. disk[f] \in FileType /\ disk[f].mtime \in Nat /\ disk[f].mtime <= clock
        BY <1>4, <1>8 DEF RecordsInv, FileType
    <2>2. PICK x : x = [y EXCEPT !.pc = "read", !.mtime = disk[f].mtime]
        OBVIOUS
    <2>3. /\ IsScan(x) /\ x.pc = "read" /\ x.left = y.left /\ x.prior = y.prior /\ x.out = y.out
          /\ x.read = y.read /\ x.mtime = disk[f].mtime
        BY <1>3, <2>2 DEF IsScan
    <2>4. y.read = <<>> /\ <<>> \in Hash /\ Len(<<>>) = 0
        BY <1>3 DEF ScanOK, Hash
    <2>5. Partial(f, <<>>, disk[f].mtime)
        <3>1. Len(disk[f].blocks) \in Nat
            BY <2>1, LenProperties DEF FileType, Hash
        <3> QED BY <2>1, <2>4, <3>1 DEF Partial
    <2>6. ScanOK(x)
        BY <1>1, <1>3, <2>1, <2>3, <2>4, <2>5 DEF ScanOK
    <2>7. scan' = [scan EXCEPT ![s] = x]
        BY <1>1, <1>2, <1>8, <2>2 DEF Records!Walk, Records!Becomes
    <2> QED BY <1>1, <1>3, <1>5, <2>3, <2>6, <2>7, RecordsTurn
<1> QED BY <1>6, <1>7, <1>8

LEMMA RecordsRead ==
    ASSUME NoneIsNoRecord, RecordsInv, NEW s \in Scans, Records!ReadBlock(s)
    PROVE  RecordsInv'
<1>1. PICK y, f : y = scan[s] /\ f = y.left[1]
    OBVIOUS
<1>2. /\ IsScan(y) /\ ScanOK(y) /\ y.pc = "read" /\ y.left # <<>> /\ y.left \in Seq(Records!Names)
      /\ y.mtime \in Nat /\ y.read \in Hash /\ Partial(f, y.read, y.mtime)
    BY <1>1 DEF RecordsInv, Records!ReadBlock, Records!At, ScanOK
<1>3. f \in Records!Names /\ Len(y.read) \in Nat
    BY <1>1, <1>2, HeadTailProperties, LenProperties DEF Hash
<1>4. UNCHANGED <<disk, clock, previous, active, disturbed>>
    BY DEF Records!ReadBlock, Records!Disk, Records!Kept
<1>5. CASE disk[f] = None /\ Len(y.read) = 0
    <2>1. PICK x : x = Records!Idle
        OBVIOUS
    <2>2. scan' = [scan EXCEPT ![s] = x]
        BY <1>1, <1>5, <2>1 DEF Records!ReadBlock, Records!Becomes
    <2> QED BY <1>1, <1>2, <1>4, <2>1, <2>2, IdleOK, RecordsTurn
<1>6. CASE disk[f] # None /\ Len(y.read) + 1 <= Len(disk[f].blocks)
    <2>1. PICK block, read : block = disk[f].blocks[Len(y.read) + 1] /\ read = Append(y.read, block)
        OBVIOUS
    <2>2. disk[f].blocks \in Seq(Nat) /\ Len(disk[f].blocks) \in Nat /\ block \in Nat
        BY <1>3, <1>6, <2>1, ElementOfSeq, LenProperties DEF RecordsInv, FileType, Hash
    <2>3. /\ read \in Seq(Nat) /\ Len(read) = Len(y.read) + 1 /\ read[Len(y.read) + 1] = block
          /\ \A k \in 1 .. Len(y.read) : read[k] = y.read[k]
        BY <1>2, <2>1, <2>2, AppendProperties DEF Hash
    <2>4. PICK x : x = [y EXCEPT !.read = Append(@, block)]
        OBVIOUS
    <2>5. /\ IsScan(x) /\ x.pc = "read" /\ x.left = y.left /\ x.prior = y.prior /\ x.out = y.out
          /\ x.read = read /\ x.mtime = y.mtime
        BY <1>2, <2>1, <2>4 DEF IsScan
    <2>6. Partial(f, read, y.mtime)
        <3>1. ASSUME disk[f].mtime = y.mtime, NEW k \in 1 .. Len(read) PROVE read[k] = disk[f].blocks[k]
            <4>1. CASE k \in 1 .. Len(y.read)
                BY <1>2, <1>6, <2>3, <3>1, <4>1 DEF Partial
            <4>2. CASE k \notin 1 .. Len(y.read)
                BY <1>3, <2>1, <2>3, <4>2
            <4> QED BY <4>1, <4>2
        <3> QED BY <1>2, <1>6, <2>3, <3>1 DEF Partial
    <2>7. ScanOK(x)
        BY <1>1, <1>2, <2>3, <2>5, <2>6 DEF ScanOK, Hash
    <2>8. scan' = [scan EXCEPT ![s] = x]
        BY <1>1, <1>6, <2>1, <2>4 DEF Records!ReadBlock, Records!Becomes
    <2> QED BY <1>1, <1>2, <1>4, <2>5, <2>7, <2>8, RecordsTurn
<1>7. CASE /\ ~(disk[f] = None /\ Len(y.read) = 0)
           /\ ~(disk[f] # None /\ Len(y.read) + 1 <= Len(disk[f].blocks))
    <2>1. PICK x : x = Records!Found(s, y.read, y.mtime)
        OBVIOUS
    <2>2. Finds(x, y, y.read, y.mtime)
        BY <1>1, <2>1 DEF Records!Found, Finds
    <2>3. Fair(f, y.read, y.mtime)
        <3>1. ASSUME disk[f] # None, disk[f].mtime = y.mtime, Len(disk[f].blocks) = Len(y.read)
              PROVE  y.read = disk[f].blocks
            <4>1. disk[f].blocks \in Seq(Nat) /\ y.read \in Seq(Nat)
                BY <1>2, <1>3, <3>1 DEF RecordsInv, FileType, Hash
            <4>2. \A k \in 1 .. Len(y.read) : y.read[k] = disk[f].blocks[k]
                BY <1>2, <3>1 DEF Partial
            <4> QED BY <3>1, <4>1, <4>2, SeqEqual
        <3> QED BY <1>2, <3>1 DEF Fair, Partial
    <2>4. IsScan(x) /\ ScanOK(x) /\ x.pc = "walk" /\ x.prior = y.prior
        BY <1>1, <1>2, <2>2, <2>3, FoundOK
    <2>5. scan' = [scan EXCEPT ![s] = x]
        <3>1. CASE disk[f] = None
            <4>1. Len(y.read) + 1 # 1
                BY <1>3, <1>7, <3>1
            <4> QED BY <1>1, <2>1, <3>1, <4>1 DEF Records!ReadBlock, Records!Becomes
        <3>2. CASE disk[f] # None
            BY <1>1, <1>7, <2>1, <3>2 DEF Records!ReadBlock, Records!Becomes, Records!MtimeOf
        <3> QED BY <3>1, <3>2
    <2> QED BY <1>1, <1>2, <1>4, <2>4, <2>5, RecordsTurn
<1> QED BY <1>5, <1>6, <1>7

\* The reports of files that are gone, in any order.
LEMMA DeletionsOK ==
    ASSUME NoneIsNoRecord, RecordsInv, NEW s \in Scans, scan[s].pc = "walk", Files \in Seq(Records!Names),
           NEW d \in Records!Deletions(s)
    PROVE  /\ d \in Seq(Report)
           /\ \A i \in DOMAIN d : ~d[i].present /\ Reports(scan[s].out, d[i].file) = {}
           /\ \A f \in Records!Names : scan[s].prior[f] # None /\ Reports(scan[s].out, f) = {} => Reports(d, f) # {}
<1> DEFINE record(f) == [file |-> f, hash |-> scan[s].prior[f].hash, mtime |-> 0, present |-> FALSE]
<1>1. PICK gone : gone = {f \in Records!Names : scan[s].prior[f] # None /\ f \notin {scan[s].out[i].file : i \in DOMAIN scan[s].out}}
    OBVIOUS
<1>2. /\ d \in [1 .. Cardinality(gone) -> {record(f) : f \in gone}]
      /\ \A f \in gone : \E i \in DOMAIN d : d[i] = record(f)
    BY <1>1, Counting DEF Records!Deletions
<1>3. Cardinality(gone) \in Nat
    <2>1. DOMAIN Files = 1 .. Len(Files) /\ Len(Files) \in Nat
        BY LenProperties
    <2>a. Files \in Surjection(1 .. Len(Files), Records!Names)
        BY <2>1 DEF Records!Names, Surjection
    <2>2. IsFiniteSet(Records!Names)
        BY <2>1, <2>a, FS_Interval, FS_Surjection
    <2>3. IsFiniteSet(gone)
        BY <1>1, <2>2, FS_Subset
    <2> QED BY <2>3, FS_CardinalityType
<1>4. ASSUME NEW f \in gone
      PROVE  /\ record(f) \in Report /\ record(f).file = f /\ ~record(f).present
             /\ Reports(scan[s].out, f) = {}
    <2>1. f \in Records!Names /\ scan[s].prior[f] # None /\ scan[s].prior[f] \in Known
        BY <1>1, <1>4 DEF RecordsInv, ScanOK, KnownOK
    <2>2. scan[s].prior[f].hash \in Hash
        BY <2>1 DEF Known
    <2>3. Reports(scan[s].out, f) = {}
        BY <1>1, <1>4 DEF Reports
    <2> QED BY <2>1, <2>2, <2>3 DEF Report
<1> HIDE DEF record
<1>5. \A i \in DOMAIN d : \E f \in gone : d[i] = record(f)
    BY <1>2
<1>6. d \in Seq(Report)
    BY <1>2, <1>3, <1>4
<1>7. \A i \in DOMAIN d : ~d[i].present /\ Reports(scan[s].out, d[i].file) = {}
    BY <1>4, <1>5
<1>8. ASSUME NEW f \in Records!Names, scan[s].prior[f] # None, Reports(scan[s].out, f) = {} PROVE Reports(d, f) # {}
    <2>1. f \in gone
        BY <1>1, <1>8 DEF Reports
    <2> QED BY <1>2, <1>4, <2>1 DEF Reports
<1> QED BY <1>6, <1>7, <1>8

LEMMA RecordsWalked ==
    ASSUME NoneIsNoRecord, RecordsInv, NEW s \in Scans, Records!Walked(s), Files \in Seq(Records!Names)
    PROVE  RecordsInv'
<1>1. PICK y : y = scan[s]
    OBVIOUS
<1>2. IsScan(y) /\ ScanOK(y) /\ y.pc = "walk" /\ KnownOK(y.prior) /\ OutOK(y.out)
    BY <1>1 DEF RecordsInv, Records!Walked, Records!At, ScanOK
<1>3. PICK d \in Records!Deletions(s) : Records!Becomes(s, [scan[s] EXCEPT !.pc = "put", !.out = scan[s].out \o d, !.left = scan[s].out \o d])
    BY DEF Records!Walked
<1>4. /\ d \in Seq(Report)
      /\ \A i \in DOMAIN d : ~d[i].present /\ Reports(y.out, d[i].file) = {}
      /\ \A f \in Records!Names : y.prior[f] # None /\ Reports(y.out, f) = {} => Reports(d, f) # {}
    BY <1>1, <1>2, DeletionsOK
<1>5. PICK all : all = y.out \o d
    OBVIOUS
<1>6. /\ all \in Seq(Report) /\ Len(all) = Len(y.out) + Len(d)
      /\ \A i \in 1 .. Len(y.out) + Len(d) : all[i] = IF i <= Len(y.out) THEN y.out[i] ELSE d[i - Len(y.out)]
    BY <1>2, <1>4, <1>5, ConcatProperties DEF OutOK
<1>7. /\ DOMAIN y.out = 1 .. Len(y.out) /\ DOMAIN d = 1 .. Len(d) /\ DOMAIN all = 1 .. Len(y.out) + Len(d)
      /\ Len(y.out) \in Nat /\ Len(d) \in Nat
    BY <1>2, <1>4, <1>6, LenProperties DEF OutOK
<1>8. ASSUME NEW i \in DOMAIN all
      PROVE  \/ i \in DOMAIN y.out /\ all[i] = y.out[i]
             \/ i - Len(y.out) \in DOMAIN d /\ all[i] = d[i - Len(y.out)]
    BY <1>6, <1>7
<1>9. /\ \A i \in DOMAIN y.out : i \in DOMAIN all /\ all[i] = y.out[i]
      /\ \A i \in DOMAIN d : i + Len(y.out) \in DOMAIN all /\ all[i + Len(y.out)] = d[i]
    <2>1. ASSUME NEW i \in DOMAIN y.out PROVE i \in DOMAIN all /\ all[i] = y.out[i]
        BY <1>6, <1>7
    <2>2. ASSUME NEW i \in DOMAIN d PROVE i + Len(y.out) \in DOMAIN all /\ all[i + Len(y.out)] = d[i]
        <3>1. PICK m \in Nat, n \in Nat : m = Len(y.out) /\ n = Len(d)
            BY <1>7
        <3>2. PICK j \in Nat : j = i
            BY <1>7, <2>2
        <3>3. j \in 1 .. n
            BY <1>7, <2>2, <3>1, <3>2
        <3>4. PICK k \in Nat : k = j + m
            OBVIOUS
        <3>5. k \in 1 .. m + n /\ ~(k <= m) /\ k - m = j
            BY <3>3, <3>4
        <3>6. \A l \in 1 .. m + n : all[l] = IF l <= m THEN y.out[l] ELSE d[l - m]
            BY <1>6, <3>1
        <3>7. all[k] = d[j]
            BY <3>5, <3>6
        <3> QED BY <1>7, <3>1, <3>2, <3>4, <3>5, <3>7
    <2> QED BY <2>1, <2>2
<1>10. \A i \in DOMAIN y.out : y.out[i].present /\ Fair(y.out[i].file, y.out[i].hash, y.out[i].mtime)
    BY <1>2 DEF ScanOK, OutOK
<1>11. OutOK(all)
    BY <1>4, <1>6, <1>8, <1>10 DEF OutOK
<1>12. PICK x : x = [y EXCEPT !.pc = "put", !.out = all, !.left = all]
    OBVIOUS
<1>13. IsScan(x) /\ x.pc = "put" /\ x.out = all /\ x.left = all /\ x.prior = y.prior
    BY <1>2, <1>12 DEF IsScan
<1>14. \A i, j \in DOMAIN all : all[i].file = all[j].file => all[i].present = all[j].present
    <2> SUFFICES ASSUME NEW i \in DOMAIN all, NEW j \in DOMAIN all, all[i].file = all[j].file
                 PROVE  all[i].present = all[j].present
        OBVIOUS
    <2>0. \A k \in DOMAIN all : all[k].present \in BOOLEAN
        <3>1. \A k \in DOMAIN all : all[k] \in Report
            BY <1>6, <1>7, ElementOfSeq
        <3> QED BY <3>1 DEF Report
    <2>1. ASSUME NEW k \in DOMAIN all, NEW l \in DOMAIN all, all[k].file = all[l].file, k \in DOMAIN y.out, all[k] = y.out[k]
          PROVE  all[l].present /\ all[k].present
        <3>1. CASE l \in DOMAIN y.out /\ all[l] = y.out[l]
            BY <1>10, <2>1, <3>1
        <3>2. CASE l - Len(y.out) \in DOMAIN d /\ all[l] = d[l - Len(y.out)]
            <4>1. Reports(y.out, all[l].file) = {}
                BY <1>4, <3>2
            <4>2. k \in Reports(y.out, all[l].file)
                BY <2>1 DEF Reports
            <4> QED BY <4>1, <4>2
        <3> QED BY <1>8, <3>1, <3>2
    <2>2. CASE i \in DOMAIN y.out /\ all[i] = y.out[i]
        BY <2>0, <2>1, <2>2
    <2>3. CASE j \in DOMAIN y.out /\ all[j] = y.out[j]
        BY <2>0, <2>1, <2>3
    <2>4. CASE /\ i - Len(y.out) \in DOMAIN d /\ all[i] = d[i - Len(y.out)]
               /\ j - Len(y.out) \in DOMAIN d /\ all[j] = d[j - Len(y.out)]
        BY <1>4, <2>0, <2>4
    <2> QED BY <1>8, <2>2, <2>3, <2>4
<1>15. ASSUME NEW f \in Records!Names, Reports(all, f) = {} PROVE y.prior[f] = None
    <2>1. Reports(y.out, f) = {}
        BY <1>9, <1>15 DEF Reports
    <2>2. Reports(d, f) = {}
        BY <1>9, <1>15 DEF Reports
    <2> QED BY <1>4, <2>1, <2>2
<1>16. ScanOK(x)
    BY <1>2, <1>6, <1>11, <1>13, <1>14, <1>15 DEF ScanOK, Complete
<1>17. scan' = [scan EXCEPT ![s] = x]
    BY <1>1, <1>3, <1>5, <1>12 DEF Records!Becomes
<1> QED BY <1>1, <1>2, <1>13, <1>16, <1>17, RecordsTurn DEF Records!Walked, Records!Disk, Records!Kept

LEMMA RecordsPut ==
    ASSUME NoneIsNoRecord, RecordsInv, NEW s \in Scans, Records!Put(s)
    PROVE  RecordsInv'
<1>1. PICK y : y = scan[s]
    OBVIOUS
<1>2. /\ IsScan(y) /\ ScanOK(y) /\ y.pc = "put" /\ KnownOK(y.prior) /\ OutOK(y.out) /\ Complete(y)
      /\ y.left \in Seq(Report) /\ \A i \in DOMAIN y.left : \E j \in DOMAIN y.out : y.left[i] = y.out[j]
    BY <1>1 DEF RecordsInv, Records!Put, Records!At, ScanOK
<1>3. UNCHANGED <<disk, clock, previous, active, disturbed>>
    BY DEF Records!Put, Records!Disk
<1>4. CASE y.left = <<>>
    <2>1. PICK x : x = [y EXCEPT !.pc = "append", !.left = y.out]
        OBVIOUS
    <2>2. IsScan(x) /\ x.pc = "append" /\ x.out = y.out /\ x.left = y.out /\ x.prior = y.prior
        BY <1>2, <2>1 DEF IsScan
    <2>3. ScanOK(x)
        BY <1>2, <2>2 DEF ScanOK, Complete, OutOK
    <2>4. ASSUME ~disturbed PROVE Applied(x)
        <3>1. AloneOK
            BY <2>4 DEF RecordsInv
        <3>2. y.prior = previous /\ Level
            BY <1>1, <1>2, <3>1 DEF AloneOK
        <3> QED BY <1>2, <2>2, <3>2 DEF Applied, Complete, Level
    <2>5. scan' = [scan EXCEPT ![s] = x]
        BY <1>1, <1>4, <2>1 DEF Records!Put, Records!Becomes
    <2> QED BY <1>1, <1>2, <1>3, <2>2, <2>3, <2>4, <2>5, RecordsTurn
<1>5. CASE y.left # <<>>
    <2>1. PICK x : x = [y EXCEPT !.left = Tail(@)]
        OBVIOUS
    <2>2. IsScan(x) /\ x.pc = "put" /\ x.out = y.out /\ x.left = Tail(y.left) /\ x.prior = y.prior
        BY <1>2, <2>1 DEF IsScan
    <2>3. x.left \in Seq(Report) /\ \A i \in DOMAIN x.left : i + 1 \in DOMAIN y.left /\ x.left[i] = y.left[i + 1]
        BY <1>2, <1>5, <2>2, HeadTailProperties, LenProperties
    <2>4. ScanOK(x)
        BY <1>2, <2>2, <2>3 DEF ScanOK, Complete
    <2>5. scan' = [scan EXCEPT ![s] = x]
        BY <1>1, <1>5, <2>1 DEF Records!Put, Records!Becomes
    <2> QED BY <1>1, <1>2, <1>3, <2>2, <2>4, <2>5, RecordsTurn
<1> QED BY <1>4, <1>5

LEMMA RecordsAppend ==
    ASSUME NoneIsNoRecord, RecordsInv, NEW s \in Scans, Records!AppendRecord(s)
    PROVE  RecordsInv'
<1>1. PICK y, r : y = scan[s] /\ r = y.left[1]
    OBVIOUS
<1>2. /\ IsScan(y) /\ ScanOK(y) /\ y.pc = "append" /\ y.left # <<>> /\ OutOK(y.out) /\ Complete(y)
      /\ y.left \in Seq(Report) /\ \A i \in DOMAIN y.left : \E j \in DOMAIN y.out : y.left[i] = y.out[j]
    BY <1>1 DEF RecordsInv, Records!AppendRecord, Records!At, ScanOK
<1>3. UNCHANGED <<disk, clock, previous>>
    BY DEF Records!AppendRecord, Records!Disk
<1>4. /\ Len(y.left) \in Nat /\ DOMAIN y.left = 1 .. Len(y.left) /\ 1 \in DOMAIN y.left
      /\ Tail(y.left) \in Seq(Report) /\ DOMAIN Tail(y.left) = 1 .. Len(y.left) - 1
      /\ \A i \in DOMAIN Tail(y.left) : i + 1 \in DOMAIN y.left /\ Tail(y.left)[i] = y.left[i + 1]
    BY <1>2, HeadTailProperties, LenProperties
<1>5. r \in Report /\ r.file \in Records!Names /\ r.hash \in Hash /\ r.present \in BOOLEAN
    <2>1. r \in Report
        BY <1>1, <1>2, <1>4, ElementOfSeq
    <2> QED BY <2>1 DEF Report
<1>6. KnownOK(previous)' /\ clock' \in Nat /\ disk' \in [Records!Names -> FileType \cup {None}]
      /\ \A f \in Records!Names : disk'[f] # None => disk'[f].mtime <= clock'
    BY <1>3 DEF RecordsInv, KnownOK, Fair
<1>7. ASSUME NEW x, IsScan(x), ScanOK(x), scan' = [scan EXCEPT ![s] = x]
      PROVE  /\ scan' = [t \in Scans |-> scan'[t]]
             /\ scan'[s] = x /\ \A t \in Scans : t # s => scan'[t] = scan[t]
             /\ \A t \in Scans : (IsScan(scan[t]) /\ ScanOK(scan[t]))'
    <2>1. scan'[s] = x /\ (\A t \in Scans : t # s => scan'[t] = scan[t]) /\ scan' = [t \in Scans |-> scan'[t]]
        BY <1>7 DEF RecordsInv
    <2>2. ASSUME NEW t \in Scans PROVE (IsScan(scan[t]) /\ ScanOK(scan[t]))'
        <3>1. PICK z : z = scan'[t]
            OBVIOUS
        <3>2. IsScan(z) /\ ScanOK(z)
            BY <1>7, <2>1, <3>1 DEF RecordsInv
        <3> QED BY <1>3, <3>1, <3>2, ScanStands
    <2> QED BY <2>1, <2>2
<1>8. CASE /\ active' = [active EXCEPT ![r.file] = IF r.present THEN r.hash ELSE None]
           /\ scan' = [scan EXCEPT ![s] = [y EXCEPT !.left = Tail(@)]] /\ disturbed' = disturbed
    <2>1. PICK x : x = [y EXCEPT !.left = Tail(@)]
        OBVIOUS
    <2>2. IsScan(x) /\ x.pc = "append" /\ x.out = y.out /\ x.left = Tail(y.left) /\ x.prior = y.prior
        BY <1>2, <2>1 DEF IsScan
    <2>3. ScanOK(x)
        BY <1>2, <1>4, <2>2 DEF ScanOK, Complete
    <2>4. /\ active' \in [Records!Names -> Hash \cup {None}]
          /\ active'[r.file] = (IF r.present THEN r.hash ELSE None)
          /\ \A f \in Records!Names : f # r.file => active'[f] = active[f]
        BY <1>5, <1>8 DEF RecordsInv
    <2>5. ASSUME ~disturbed PROVE AloneOK'
        <3>1. /\ \A t, u \in Scans : scan[t].pc # "idle" /\ scan[u].pc # "idle" => t = u
              /\ y.prior = previous /\ Applied(y)
            BY <1>1, <1>2, <2>5 DEF RecordsInv, AloneOK
        <3>2. /\ scan'[s] = x /\ (\A t \in Scans : t # s => scan'[t] = scan[t])
            BY <1>7, <1>8, <2>1, <2>2, <2>3
        <3>3. \A t \in Scans : scan'[t].pc # "idle" => t = s
            BY <1>1, <1>2, <3>1, <3>2
        <3>4. ASSUME NEW f \in Records!Names, Reports(x.left, f) = {}
              PROVE  active'[f] = None <=> \A i \in Reports(x.out, f) : ~x.out[i].present
            <4>1. CASE f = r.file
                <5>1. active'[f] = None <=> ~r.present
                    BY <1>5, <2>4, <4>1 DEF NoneIsNoRecord
                <5>2. PICK j \in DOMAIN y.out : r = y.out[j]
                    BY <1>1, <1>2, <1>4
                <5>3. j \in Reports(x.out, f)
                    BY <2>2, <4>1, <5>2 DEF Reports
                <5>4. \A i \in Reports(x.out, f) : x.out[i].present = r.present
                    BY <1>2, <2>2, <4>1, <5>2 DEF Reports, Complete
                <5> QED BY <5>1, <5>3, <5>4
            <4>2. CASE f # r.file
                <5>1. ASSUME NEW i \in Reports(y.left, f) PROVE FALSE
                    <6>1. i \in 1 .. Len(y.left) /\ y.left[i].file = f /\ i # 1
                        BY <1>1, <1>4, <4>2, <5>1 DEF Reports
                    <6>2. PICK k \in Nat : k = i - 1 /\ k \in 1 .. Len(y.left) - 1 /\ k + 1 = i
                        BY <1>4, <6>1
                    <6>3. k \in DOMAIN Tail(y.left) /\ Tail(y.left)[k] = y.left[k + 1]
                        BY <1>4, <6>2
                    <6>4. k \in Reports(x.left, f)
                        BY <2>2, <6>1, <6>2, <6>3 DEF Reports
                    <6> QED BY <3>4, <6>4
                <5>2. Reports(y.left, f) = {}
                    BY <5>1
                <5> QED BY <2>2, <2>4, <3>1, <4>2, <5>2 DEF Applied
            <4> QED BY <4>1, <4>2
        <3>5. Applied(scan[s])'
            BY <3>2, <3>4 DEF Applied, Reports
        <3> QED BY <1>3, <2>2, <3>1, <3>2, <3>3, <3>5 DEF AloneOK
    <2>6. disturbed' \in BOOLEAN
        BY <1>8 DEF RecordsInv
    <2>7. /\ scan' = [t \in Scans |-> scan'[t]]
          /\ \A t \in Scans : (IsScan(scan[t]) /\ ScanOK(scan[t]))'
        BY <1>7, <1>8, <2>1, <2>2, <2>3
    <2> QED BY <1>6, <1>8, <2>4, <2>5, <2>6, <2>7 DEF RecordsInv
<1>9. CASE scan' = [scan EXCEPT ![s] = Records!Idle] /\ disturbed' = TRUE /\ active' = active
    <2>1. PICK x : x = Records!Idle
        OBVIOUS
    <2>2. IsScan(x) /\ ScanOK(x)
        BY <2>1, IdleOK
    <2>3. /\ scan' = [t \in Scans |-> scan'[t]]
          /\ \A t \in Scans : (IsScan(scan[t]) /\ ScanOK(scan[t]))'
        BY <1>7, <1>9, <2>1, <2>2
    <2> QED BY <1>6, <1>9, <2>3 DEF RecordsInv
<1> QED BY <1>1, <1>8, <1>9 DEF Records!AppendRecord, Records!Becomes

LEMMA RecordsFinish ==
    ASSUME NoneIsNoRecord, RecordsInv, NEW s \in Scans, Records!Finish(s)
    PROVE  RecordsInv'
<1> DEFINE record(r) == [hash |-> r.hash, mtime |-> r.mtime]
<1>1. PICK y : y = scan[s]
    OBVIOUS
<1>2. IsScan(y) /\ ScanOK(y) /\ y.pc = "append" /\ y.left = <<>> /\ OutOK(y.out) /\ y.out \in Seq(Report)
    BY <1>1 DEF RecordsInv, Records!Finish, Records!At, ScanOK, OutOK
<1>3. UNCHANGED <<disk, clock, active, disturbed>>
    BY DEF Records!Finish, Records!Disk
<1>4. PICK there : there = [f \in Records!Names |-> {i \in DOMAIN y.out : y.out[i].file = f /\ y.out[i].present}]
    OBVIOUS
<1>5. PICK p : p = [f \in Records!Names |-> IF there[f] = {} THEN None ELSE record(y.out[CHOOSE i \in there[f] : TRUE])]
    OBVIOUS
<1>6. previous' = p /\ scan' = [scan EXCEPT ![s] = Records!Idle]
    BY <1>1, <1>4, <1>5 DEF Records!Finish, Records!Becomes
<1>7. ASSUME NEW f \in Records!Names
      PROVE  \/ there[f] = {} /\ p[f] = None
             \/ there[f] # {} /\ p[f] # None /\ p[f] \in Known /\ Fair(f, p[f].hash, p[f].mtime)
    <2>1. CASE there[f] = {}
        BY <1>5, <2>1
    <2>2. CASE there[f] # {}
        <3>1. PICK i \in there[f] : i = CHOOSE j \in there[f] : TRUE
            BY <2>2
        <3>2. p[f] = record(y.out[i])
            BY <1>5, <2>2, <3>1
        <3>3. i \in DOMAIN y.out /\ y.out[i].file = f /\ y.out[i].present
            BY <1>4, <3>1
        <3>4. y.out[i] \in Report
            BY <1>2, <3>3, ElementOfSeq, LenProperties
        <3>5. y.out[i].hash \in Hash /\ y.out[i].mtime \in Nat
            BY <3>4 DEF Report
        <3>6. Fair(f, y.out[i].hash, y.out[i].mtime)
            BY <1>2, <3>3 DEF OutOK
        <3>7. p[f] \in Known /\ p[f].hash = y.out[i].hash /\ p[f].mtime = y.out[i].mtime
            BY <3>2, <3>5 DEF Known
        <3> QED BY <2>2, <3>6, <3>7 DEF NoneIsNoRecord
    <2> QED BY <2>1, <2>2
<1> HIDE DEF record
<1>8. KnownOK(p)
    <2>1. p \in [Records!Names -> Known \cup {None}]
        BY <1>5, <1>7
    <2> QED BY <1>7, <2>1 DEF KnownOK
<1>9. KnownOK(previous)'
    BY <1>3, <1>6, <1>8 DEF KnownOK, Fair
<1>10. PICK x : x = Records!Idle
    OBVIOUS
<1>11. IsScan(x) /\ ScanOK(x) /\ x.pc = "idle"
    BY <1>10, IdleOK
<1>12. scan'[s] = x /\ (\A t \in Scans : t # s => scan'[t] = scan[t]) /\ scan' = [t \in Scans |-> scan'[t]]
    BY <1>6, <1>10 DEF RecordsInv
<1>13. ASSUME NEW t \in Scans PROVE (IsScan(scan[t]) /\ ScanOK(scan[t]))'
    <2>1. PICK z : z = scan'[t]
        OBVIOUS
    <2>2. IsScan(z) /\ ScanOK(z)
        BY <1>11, <1>12, <2>1 DEF RecordsInv
    <2> QED BY <1>3, <2>1, <2>2, ScanStands
<1>14. ASSUME ~disturbed PROVE AloneOK'
    <2>1. /\ \A t, u \in Scans : scan[t].pc # "idle" /\ scan[u].pc # "idle" => t = u
          /\ Applied(y)
        BY <1>1, <1>2, <1>14 DEF RecordsInv, AloneOK
    <2>2. \A t \in Scans : scan'[t].pc = "idle"
        BY <1>1, <1>2, <1>11, <1>12, <2>1
    <2>3. ASSUME NEW f \in Records!Names PROVE active[f] = None <=> p[f] = None
        <3>1. Reports(y.left, f) = {}
            BY <1>2 DEF Reports
        <3>2. active[f] = None <=> \A i \in Reports(y.out, f) : ~y.out[i].present
            BY <2>1, <3>1 DEF Applied
        <3>3. there[f] = {} <=> \A i \in Reports(y.out, f) : ~y.out[i].present
            BY <1>4 DEF Reports
        <3> QED BY <1>7, <3>2, <3>3
    <2>4. Level'
        BY <1>3, <1>6, <2>3 DEF Level
    <2> QED BY <2>2, <2>4 DEF AloneOK
<1> QED BY <1>3, <1>9, <1>12, <1>13, <1>14 DEF RecordsInv

\* A change of the files that gives a new time to what it changes.
LEMMA RecordsWorld ==
    ASSUME NoneIsNoRecord, RecordsInv, clock' \in Nat, clock <= clock',
           disk' \in [Records!Names -> FileType \cup {None}],
           \A f \in Records!Names : disk'[f] # None => disk'[f].mtime <= clock',
           \A f \in Records!Names : disk'[f] = disk[f] \/ disk'[f] = None \/ ~(disk'[f].mtime <= clock),
           UNCHANGED <<previous, active, scan, disturbed>>
    PROVE  RecordsInv'
<1>1. clock \in Nat
    BY DEF RecordsInv
<1>2. ASSUME NEW f \in Records!Names, NEW hash, NEW mtime \in Nat \cup {None}, Fair(f, hash, mtime)
      PROVE  Fair(f, hash, mtime)'
    <2>1. mtime = None \/ mtime <= clock'
        BY <1>1, <1>2 DEF Fair
    <2>2. ASSUME disk'[f] # None, disk'[f].mtime = mtime, Len(disk'[f].blocks) = Len(hash)
          PROVE  hash = disk'[f].blocks
        <3>1. disk'[f] \in FileType
            BY <2>2
        <3>2. mtime # None
            BY <2>2, <3>1 DEF FileType, NoneIsNoRecord
        <3>3. mtime <= clock
            BY <1>2, <3>2 DEF Fair
        <3>4. disk'[f] = disk[f]
            BY <2>2, <3>3
        <3> QED BY <1>2, <2>2, <3>4 DEF Fair
    <2> QED BY <2>1, <2>2 DEF Fair
<1>3. ASSUME NEW f \in Records!Names, NEW read, NEW mtime \in Nat, Partial(f, read, mtime)
      PROVE  Partial(f, read, mtime)'
    <2>1. mtime <= clock /\ mtime <= clock'
        BY <1>1, <1>3 DEF Partial
    <2>2. ASSUME disk'[f] # None, disk'[f].mtime = mtime
          PROVE  disk'[f] = disk[f]
        BY <2>1, <2>2
    <2> QED BY <1>3, <2>1, <2>2 DEF Partial
<1>4. ASSUME NEW known, KnownOK(known) PROVE KnownOK(known)'
    <2>1. ASSUME NEW f \in Records!Names, known[f] # None PROVE Fair(f, known[f].hash, known[f].mtime)'
        <3>1. PICK k \in Known : k = known[f]
            BY <1>4, <2>1 DEF KnownOK
        <3>2. k.mtime \in Nat \cup {None} /\ Fair(f, k.hash, k.mtime)
            BY <1>4, <2>1, <3>1 DEF KnownOK, Known
        <3>3. Fair(f, k.hash, k.mtime)'
            BY <1>2, <3>2
        <3> QED BY <3>1, <3>3
    <2> QED BY <1>4, <2>1 DEF KnownOK
<1>5. ASSUME NEW out, OutOK(out) PROVE OutOK(out)'
    <2>1. ASSUME NEW i \in DOMAIN out, out[i].present PROVE Fair(out[i].file, out[i].hash, out[i].mtime)'
        <3>1. PICK r \in Report : r = out[i]
            BY <1>5, ElementOfSeq, LenProperties DEF OutOK
        <3>2. r.file \in Records!Names /\ r.mtime \in Nat /\ Fair(r.file, r.hash, r.mtime)
            BY <1>5, <2>1, <3>1 DEF OutOK, Report
        <3>3. Fair(r.file, r.hash, r.mtime)'
            BY <1>2, <3>2
        <3> QED BY <3>1, <3>3
    <2> QED BY <1>5, <2>1 DEF OutOK
<1>6. ASSUME NEW x, IsScan(x), ScanOK(x) PROVE ScanOK(x)'
    <2>1. x.pc # "idle" => KnownOK(x.prior)' /\ OutOK(x.out)'
        BY <1>4, <1>5, <1>6 DEF ScanOK
    <2>2. ASSUME x.pc = "read" PROVE Partial(x.left[1], x.read, x.mtime)'
        <3>1. x.left \in Seq(Records!Names) /\ x.left # <<>> /\ x.mtime \in Nat /\ Partial(x.left[1], x.read, x.mtime)
            BY <1>6, <2>2 DEF ScanOK
        <3>2. x.left[1] \in Records!Names
            BY <3>1, HeadTailProperties
        <3>3. PICK f \in Records!Names : f = x.left[1]
            BY <3>2
        <3>4. Partial(f, x.read, x.mtime)'
            BY <1>3, <3>1, <3>3
        <3> QED BY <3>3, <3>4
    <2> QED BY <1>6, <2>1, <2>2 DEF ScanOK, Complete, Reports
<1>7. ASSUME NEW s \in Scans PROVE (IsScan(scan[s]) /\ ScanOK(scan[s]))'
    <2>1. PICK x : x = scan[s]
        OBVIOUS
    <2>2. IsScan(x) /\ ScanOK(x)'
        BY <1>6, <2>1 DEF RecordsInv
    <2>3. scan'[s] = x
        BY <2>1
    <2> QED BY <2>2, <2>3 DEF IsScan
<1>8. KnownOK(previous)'
    <2>1. PICK known : known = previous
        OBVIOUS
    <2>2. KnownOK(known)'
        BY <1>4, <2>1 DEF RecordsInv
    <2>3. previous' = known
        BY <2>1
    <2> QED BY <2>2, <2>3
<1>9. ~disturbed' => AloneOK'
    BY DEF RecordsInv, AloneOK, Level, Applied, Reports
<1>10. scan' = [s \in Scans |-> scan'[s]] /\ active' \in [Records!Names -> Hash \cup {None}] /\ disturbed' \in BOOLEAN
    BY DEF RecordsInv
<1> QED BY <1>7, <1>8, <1>9, <1>10 DEF RecordsInv

LEMMA RecordsDelete ==
    ASSUME NoneIsNoRecord, RecordsInv, NEW f \in Records!Names, Records!Delete(f)
    PROVE  RecordsInv'
<1>1. disk' = [disk EXCEPT ![f] = None] /\ UNCHANGED <<clock, previous, active, scan, disturbed>>
    BY DEF Records!Delete, Records!Kept
<1>2. clock' \in Nat /\ clock <= clock'
    BY <1>1 DEF RecordsInv
<1>3. \A g \in Records!Names : disk'[g] = disk[g] \/ disk'[g] = None
    BY <1>1 DEF RecordsInv
<1>4. disk' \in [Records!Names -> FileType \cup {None}]
    BY <1>1 DEF RecordsInv
<1>5. \A g \in Records!Names : disk'[g] # None => disk'[g].mtime <= clock'
    BY <1>1, <1>3 DEF RecordsInv
<1> QED BY <1>1, <1>2, <1>3, <1>4, <1>5, RecordsWorld

LEMMA RecordsWrite ==
    ASSUME NoneIsNoRecord, RecordsInv, NEW f \in Records!Names, NEW k \in 1 .. MaxBlocks, Records!Write(f, k)
    PROVE  RecordsInv'
<1>1. PICK blocks : blocks = IF disk[f] = None THEN <<>> ELSE disk[f].blocks
    OBVIOUS
<1>2. PICK now \in Nat : now = clock + 1
    BY DEF RecordsInv
<1>3. PICK new : new = SubSeq(blocks, 1, k - 1) \o <<now>> \o SubSeq(blocks, k + 1, Len(blocks))
    OBVIOUS
<1>4. /\ k \in 1 .. Len(blocks) + 1 /\ clock' = now
      /\ disk' = [disk EXCEPT ![f] = [blocks |-> new, mtime |-> now]]
      /\ UNCHANGED <<previous, active, scan, disturbed>>
    BY <1>1, <1>2, <1>3 DEF Records!Write, Records!Kept
<1>5. blocks \in Seq(Nat) /\ Len(blocks) \in Nat
    <2>1. blocks \in Seq(Nat)
        BY <1>1 DEF RecordsInv, FileType, Hash
    <2> QED BY <2>1, LenProperties
<1>6. new \in Seq(Nat)
    <2>1. PICK front \in Seq(Nat) : front = SubSeq(blocks, 1, k - 1)
        <3>1. \A i \in 1 .. k - 1 : blocks[i] \in Nat
            BY <1>4, <1>5, ElementOfSeq
        <3>2. SubSeq(blocks, 1, k - 1) \in Seq(Nat)
            BY <1>4, <1>5, <3>1, SubSeqProperties
        <3> QED BY <3>2
    <2>2. PICK back \in Seq(Nat) : back = SubSeq(blocks, k + 1, Len(blocks))
        <3>1. \A i \in k + 1 .. Len(blocks) : blocks[i] \in Nat
            BY <1>4, <1>5, ElementOfSeq
        <3>2. SubSeq(blocks, k + 1, Len(blocks)) \in Seq(Nat)
            BY <1>4, <1>5, <3>1, SubSeqProperties
        <3> QED BY <3>2
    <2>3. PICK one \in Seq(Nat) : one = <<now>>
        <3>1. <<now>> \in Seq(Nat)
            OBVIOUS
        <3> QED BY <3>1
    <2>4. PICK upto \in Seq(Nat) : upto = front \o one
        BY ConcatProperties
    <2>5. upto \o back \in Seq(Nat)
        BY ConcatProperties
    <2> QED BY <1>3, <2>1, <2>2, <2>3, <2>4, <2>5
<1>7. PICK file \in FileType : file = [blocks |-> new, mtime |-> now] /\ file.mtime = now
    <2>1. [blocks |-> new, mtime |-> now] \in FileType
        BY <1>6 DEF FileType, Hash
    <2> QED BY <2>1
<1>8. /\ disk' \in [Records!Names -> FileType \cup {None}] /\ disk'[f] = file
      /\ \A g \in Records!Names : g # f => disk'[g] = disk[g]
    BY <1>4, <1>7 DEF RecordsInv
<1>9. clock \in Nat /\ clock <= now /\ now <= now /\ ~(now <= clock)
    BY <1>2 DEF RecordsInv
<1>10. \A g \in Records!Names : disk'[g] # None => disk'[g].mtime <= clock'
    <2>1. ASSUME NEW g \in Records!Names, g # f, disk[g] # None PROVE disk[g].mtime <= now
        <3>1. disk[g] \in FileType /\ disk[g].mtime <= clock
            BY <2>1 DEF RecordsInv
        <3>2. PICK m \in Nat : m = disk[g].mtime
            BY <3>1 DEF FileType
        <3> QED BY <1>9, <3>1, <3>2
    <2> QED BY <1>4, <1>7, <1>8, <1>9, <2>1
<1>11. \A g \in Records!Names : disk'[g] = disk[g] \/ ~(disk'[g].mtime <= clock)
    BY <1>7, <1>8, <1>9
<1> QED BY <1>4, <1>8, <1>9, <1>10, <1>11, RecordsWorld

LEMMA RecordsRestart ==
    ASSUME NoneIsNoRecord, RecordsInv, Records!Restart
    PROVE  RecordsInv'
<1>1. PICK p : p = [f \in Records!Names |-> IF active[f] = None THEN None ELSE [hash |-> active[f], mtime |-> None]]
    OBVIOUS
<1>2. /\ previous' = p /\ scan' = [s \in Scans |-> Records!Idle] /\ disturbed' = FALSE
      /\ UNCHANGED <<disk, clock, active>>
    BY <1>1 DEF Records!Restart, Records!Disk
<1>3. ASSUME NEW f \in Records!Names
      PROVE  \/ active[f] = None /\ p[f] = None
             \/ active[f] # None /\ p[f] # None /\ p[f] \in Known /\ Fair(f, p[f].hash, p[f].mtime)
    <2>1. CASE active[f] = None
        BY <1>1, <2>1
    <2>2. CASE active[f] # None
        <3>1. active[f] \in Hash /\ p[f] = [hash |-> active[f], mtime |-> None]
            BY <1>1, <2>2 DEF RecordsInv
        <3>2. p[f] \in Known /\ p[f].mtime = None
            BY <3>1 DEF Known
        <3>3. disk[f] # None => disk[f].mtime # None
            BY DEF RecordsInv, FileType, NoneIsNoRecord
        <3>4. Fair(f, p[f].hash, p[f].mtime)
            BY <3>2, <3>3 DEF Fair
        <3> QED BY <2>2, <3>2, <3>4 DEF NoneIsNoRecord
    <2> QED BY <2>1, <2>2
<1>4. KnownOK(p)
    <2>1. p \in [Records!Names -> Known \cup {None}]
        BY <1>1, <1>3
    <2> QED BY <1>3, <2>1 DEF KnownOK
<1>5. KnownOK(previous)'
    BY <1>2, <1>4 DEF KnownOK, Fair
<1>6. PICK x : x = Records!Idle
    OBVIOUS
<1>7. \A s \in Scans : scan'[s] = x
    BY <1>2, <1>6
<1>8. ASSUME NEW s \in Scans PROVE scan'[s].pc = "idle" /\ (IsScan(scan[s]) /\ ScanOK(scan[s]))'
    BY <1>6, <1>7 DEF Records!Idle, IsScan, ScanOK
<1>9. Level'
    BY <1>2, <1>3 DEF Level
<1>10. AloneOK'
    BY <1>8, <1>9 DEF AloneOK
<1>11. scan' = [s \in Scans |-> scan'[s]]
    BY <1>2
<1> QED BY <1>2, <1>5, <1>8, <1>10, <1>11 DEF RecordsInv

LEMMA RecordsStep ==
    ASSUME NoneIsNoRecord, Files \in Seq(Records!Names), RecordsInv, [Records!Next]_(Records!vars)
    PROVE  RecordsInv'
<1>1. CASE Records!Next
    BY <1>1, RecordsStart, RecordsWalk, RecordsRead, RecordsWalked, RecordsPut, RecordsAppend,
       RecordsFinish, RecordsCancel, RecordsDelete, RecordsWrite, RecordsRestart DEF Records!Next
<1>2. CASE UNCHANGED Records!vars
    <2>1. UNCHANGED <<disk, clock, previous, active, scan, disturbed>>
        BY <1>2 DEF Records!vars
    <2>2. /\ clock' \in Nat /\ clock <= clock'
          /\ disk' \in [Records!Names -> FileType \cup {None}]
          /\ \A f \in Records!Names : disk'[f] # None => disk'[f].mtime <= clock'
          /\ \A f \in Records!Names : disk'[f] = disk[f]
        BY <2>1 DEF RecordsInv
    <2> QED BY <2>1, <2>2, RecordsWorld
<1> QED BY <1>1, <1>2

LEMMA RecordsCurrent ==
    ASSUME RecordsInv
    PROVE  Records!InventoryCurrent
<1>1. ASSUME NEW f \in Records!Names, disk[f] # None, Records!Same(previous[f], Len(disk[f].blocks), disk[f].mtime)
      PROVE  previous[f].hash = disk[f].blocks
    BY <1>1 DEF RecordsInv, KnownOK, Fair, Records!Same
<1>2. ASSUME ~disturbed, \A s \in Scans : Records!At(s, "idle")
      PROVE  \A f \in Records!Names : (active[f] = None) = (previous[f] = None)
    BY <1>2 DEF RecordsInv, AloneOK, Level, Records!At
<1> QED BY <1>1, <1>2 DEF Records!InventoryCurrent

\* A record that would be reused has the hash of the content, and the backend was
\* told what the records say (inventory.go: scan; gateway.go: Scan, Open).
THEOREM RecordsAreCurrent ==
    ASSUME NoneIsNoRecord, Files \in Seq(Records!Names)
    PROVE  Records!Spec => []Records!InventoryCurrent
<1>1. Records!Init => RecordsInv
    BY RecordsInitial
<1>2. RecordsInv /\ [Records!Next]_(Records!vars) => RecordsInv'
    BY RecordsStep
<1>3. RecordsInv => Records!InventoryCurrent
    BY RecordsCurrent
<1> QED BY <1>1, <1>2, <1>3, PTL DEF Records!Spec

-----------------------------------------------------------------------------
(* The two passes of a scan of tables (Scanner) *)

AllKinds == {CellKind[c] : c \in Cells} \cup {"unknown", "float", "string"}
AllFormats == (UNION {{l[i].format : i \in DOMAIN l} : l \in Listings}) \cup {"unsupported"}
PinType == [blocks : Seq(Cells), kind : AllKinds, format : AllFormats]
FactType == [kind : AllKinds \cup {"skipped", "parquet"}, rows : Seq(Cells)]

\* A listing has members, and the digest of each is looked up by its number.
ListingsHaveMembers ==
    \A l \in Listings :
        /\ Len(l) \in Nat \ {0} /\ DOMAIN l = 1 .. Len(l)
        /\ \A i \in DOMAIN l : l[i].size \in Nat

\* Cells have kinds, and what a missing value is written as has none.
CellsHaveKinds == (\A c \in Cells : CellKind[c] # "none") /\ CellKind[Null] = "unknown"

\* What the first pass leaves of a member.
PinOK(i, pin) ==
    /\ Len(pin.blocks) = listing[i].size
    /\ declared[i] \in {Unknown, pin.blocks}
    /\ pin.format = TableScan!FormatOf(i, pin.blocks)
    /\ pin.format \in TableScan!Text => pin.kind = TableScan!KindOf(i, pin.blocks)

\* The fact of a member that has this content.
FactOf(i, blocks) ==
    IF ~TableScan!Supported(TableScan!FormatOf(i, blocks)) THEN [kind |-> "skipped", rows |-> <<>>]
    ELSE IF TableScan!Format(i) = "parquet" THEN [kind |-> "parquet", rows |-> blocks]
    ELSE [kind |-> TableScan!KindOf(i, blocks), rows |-> blocks]

\* The kind inferred so far is the one of the blocks read so far.
Inferred(i, file) ==
    /\ file.read \in Seq(Cells) /\ file.kind \in AllKinds
    /\ IF TableScan!FormatOf(i, file.read) \in TableScan!Text
       THEN /\ file.error <=> TableScan!KindOf(i, file.read) = "none"
            /\ ~file.error => file.kind = TableScan!KindOf(i, file.read)
       ELSE ~file.error

\* What the second pass has read and decoded is what was pinned.
Repeated(i, file, pin) ==
    /\ file.read \in Seq(Cells) /\ Len(file.read) <= listing[i].size
    /\ \A k \in 1 .. Len(file.read) : file.read[k] = pin.blocks[k]
    /\ DOMAIN file.decoded \subseteq 1 .. listing[i].size
    /\ file.decoded = [k \in DOMAIN file.decoded |-> pin.blocks[k]]

IsFile(file) ==
    file = [read |-> file.read, kind |-> file.kind, error |-> file.error, decoded |-> file.decoded]

IsAt(a) ==
    /\ a = [pass |-> a.pass, member |-> a.member, file |-> a.file]
    /\ a.pass \in {"prepare", "scan"} /\ a.member \in TableScan!Members /\ IsFile(a.file)

Preparing(a) == Len(pins) = a.member - 1 /\ facts = <<>> /\ Inferred(a.member, a.file)
Scanning(a) ==
    /\ Len(pins) = Len(listing) /\ Len(facts) = a.member - 1
    /\ Repeated(a.member, a.file, pins[a.member])

ScanInv ==
    /\ listing \in Listings /\ members \in [TableScan!Members -> Seq(Cells)]
    /\ IsAt(at)
    /\ pins \in Seq(PinType) /\ \A i \in DOMAIN pins : PinOK(i, pins[i])
    /\ facts \in Seq(FactType) /\ \A i \in DOMAIN facts : facts[i] = FactOf(i, pins[i].blocks)
    /\ at.pass = "prepare" => Preparing(at)
    /\ at.pass = "scan" => Scanning(at)

TablesInv == (outcome = "running" => ScanInv) /\ TableScan!FactsOfOneContent

\* KindOf, for a set of kinds.
OneKind(kinds, text) ==
    IF kinds = {} THEN "unknown"
    ELSE IF kinds = {"integer", "float"} THEN "float"
    ELSE IF \E k \in kinds : kinds = {k} THEN CHOOSE k \in kinds : TRUE
    ELSE IF text THEN "string" ELSE "none"

LEMMA OneKindCases ==
    ASSUME NEW S, NEW text \in BOOLEAN
    PROVE  /\ S = {} => OneKind(S, text) = "unknown"
           /\ S = {"integer", "float"} => OneKind(S, text) = "float"
           /\ \A k : S = {k} => OneKind(S, text) = k
           /\ S # {} /\ S # {"integer", "float"} /\ (\A k : S # {k}) =>
                 OneKind(S, text) = IF text THEN "string" ELSE "none"
<1>1. ASSUME NEW k, S = {k} PROVE OneKind(S, text) = k
    <2>1. S # {} /\ S # {"integer", "float"} /\ \E j \in S : S = {j}
        BY <1>1
    <2>2. \A j \in S : j = k
        BY <1>1
    <2>3. PICK j : j = CHOOSE i \in S : TRUE
        OBVIOUS
    <2>4. j \in S
        BY <1>1, <2>3
    <2> QED BY <2>1, <2>2, <2>3, <2>4 DEF OneKind
<1> QED BY <1>1 DEF OneKind

\* One more kind: promote does not depend on the order of the cells.
LEMMA PromoteOne ==
    ASSUME NEW S, "none" \notin S, "unknown" \notin S, NEW z, z # "none", NEW text \in BOOLEAN
    PROVE  /\ OneKind(S, text) # "none" =>
                 OneKind(S \cup ({z} \ {"unknown"}), text) = TableScan!promote(OneKind(S, text), z, ~text)
           /\ OneKind(S, text) = "none" => OneKind(S \cup ({z} \ {"unknown"}), text) = "none"
<1>1. PICK T : T = S \cup ({z} \ {"unknown"})
    OBVIOUS
<1>2. CASE z = "unknown" \/ z \in S
    <2>1. T = S
        BY <1>1, <1>2
    <2>2. ASSUME OneKind(S, text) # "none" PROVE OneKind(S, text) = TableScan!promote(OneKind(S, text), z, ~text)
        <3>1. CASE S = {}
            BY <1>2, <3>1, OneKindCases DEF TableScan!promote
        <3>2. CASE \E k : S = {k}
            BY <1>2, <3>2, OneKindCases DEF TableScan!promote
        <3>3. CASE S = {"integer", "float"}
            BY <1>2, <3>3, OneKindCases DEF TableScan!promote
        <3>4. CASE S # {} /\ S # {"integer", "float"} /\ \A k : S # {k}
            <4>1. text /\ OneKind(S, text) = "string"
                BY <2>2, <3>4, OneKindCases
            <4> QED BY <4>1 DEF TableScan!promote
        <3> QED BY <3>1, <3>2, <3>3, <3>4
    <2> QED BY <1>1, <2>1, <2>2
<1>3. CASE z # "unknown" /\ z \notin S
    <2>1. T = S \cup {z}
        BY <1>1, <1>3
    <2>2. CASE S = {}
        <3>1. T = {z} /\ OneKind(S, text) = "unknown"
            BY <2>1, <2>2, OneKindCases
        <3>2. OneKind(T, text) = z
            BY <3>1, OneKindCases
        <3> QED BY <1>1, <3>1, <3>2 DEF TableScan!promote
    <2>3. ASSUME NEW k, S = {k}
          PROVE  OneKind(T, text) = TableScan!promote(OneKind(S, text), z, ~text) /\ OneKind(S, text) # "none"
        <3>1. OneKind(S, text) = k /\ k # z /\ k # "unknown" /\ k # "none" /\ T = {k, z}
            BY <1>3, <2>1, <2>3, OneKindCases
        <3>2. CASE {k, z} = {"integer", "float"}
            BY <1>3, <3>1, <3>2, OneKindCases DEF TableScan!promote
        <3>3. CASE {k, z} # {"integer", "float"}
            <4>1. T # {} /\ T # {"integer", "float"} /\ \A j : T # {j}
                BY <3>1, <3>3
            <4>2. OneKind(T, text) = IF text THEN "string" ELSE "none"
                BY <4>1, OneKindCases
            <4>3. TableScan!promote(k, z, ~text) = IF ~text THEN "none" ELSE "string"
                BY <1>3, <3>1, <3>3 DEF TableScan!promote
            <4> QED BY <3>1, <4>2, <4>3
        <3> QED BY <3>2, <3>3
    <2>4. CASE S # {} /\ \A k : S # {k}
        <3>1. T # {} /\ T # {"integer", "float"} /\ \A j : T # {j}
            BY <1>3, <2>1, <2>4
        <3>2. OneKind(T, text) = IF text THEN "string" ELSE "none"
            BY <3>1, OneKindCases
        <3>3. CASE S = {"integer", "float"}
            <4>1. OneKind(S, text) = "float" /\ z # "float" /\ z # "integer"
                BY <1>3, <3>3, OneKindCases
            <4>2. TableScan!promote("float", z, ~text) = IF ~text THEN "none" ELSE "string"
                BY <1>3, <4>1 DEF TableScan!promote
            <4> QED BY <1>1, <3>2, <4>1, <4>2
        <3>4. CASE S # {"integer", "float"}
            <4>1. OneKind(S, text) = IF text THEN "string" ELSE "none"
                BY <2>4, <3>4, OneKindCases
            <4>2. TableScan!promote("string", z, FALSE) = "string"
                BY <1>3 DEF TableScan!promote
            <4> QED BY <1>1, <3>2, <4>1, <4>2
        <3> QED BY <3>3, <3>4
    <2> QED BY <1>1, <2>2, <2>3, <2>4
<1> QED BY <1>2, <1>3

LEMMA KindsAreKinds ==
    ASSUME CellsHaveKinds, NEW i, NEW blocks \in Seq(Cells)
    PROVE  /\ TableScan!Kinds(i, blocks) \subseteq AllKinds
           /\ "none" \notin TableScan!Kinds(i, blocks) /\ "unknown" \notin TableScan!Kinds(i, blocks)
           /\ TableScan!KindOf(i, blocks) = OneKind(TableScan!Kinds(i, blocks), TableScan!Format(i) = "csv")
           /\ TableScan!KindOf(i, blocks) \in AllKinds \/ (TableScan!KindOf(i, blocks) = "none" /\ TableScan!Format(i) # "csv")
<1>1. \A k \in DOMAIN blocks : blocks[k] \in Cells
    BY ElementOfSeq, LenProperties
<1>2. /\ TableScan!Kinds(i, blocks) \subseteq AllKinds
      /\ "none" \notin TableScan!Kinds(i, blocks) /\ "unknown" \notin TableScan!Kinds(i, blocks)
    BY <1>1 DEF TableScan!Kinds, AllKinds, CellsHaveKinds
<1>3. TableScan!KindOf(i, blocks) = OneKind(TableScan!Kinds(i, blocks), TableScan!Format(i) = "csv")
    BY DEF TableScan!KindOf, OneKind
<1>0. PICK S : S = TableScan!Kinds(i, blocks)
    OBVIOUS
<1>4. PICK text \in BOOLEAN : text <=> TableScan!Format(i) = "csv"
    <2>1. (TableScan!Format(i) = "csv") \in BOOLEAN
        OBVIOUS
    <2> QED BY <2>1
<1>5. PICK w : w = OneKind(S, text)
    OBVIOUS
<1>6. w \in AllKinds \/ (w = "none" /\ ~text)
    <2>1. CASE \E k : S = {k}
        <3>1. PICK k : S = {k}
            BY <2>1
        <3>2. OneKind(S, text) = k /\ k \in S
            BY <3>1, OneKindCases
        <3> QED BY <1>0, <1>2, <1>5, <3>2
    <2>2. CASE S = {}
        BY <1>5, <2>2, OneKindCases DEF AllKinds
    <2>3. CASE S = {"integer", "float"}
        BY <1>5, <2>3, OneKindCases DEF AllKinds
    <2>4. CASE S # {} /\ S # {"integer", "float"} /\ \A k : S # {k}
        <3>1. CASE text
            <4>1. OneKind(S, text) = "string"
                BY <2>4, <3>1 DEF OneKind
            <4> QED BY <1>5, <4>1 DEF AllKinds
        <3>2. CASE ~text
            <4>1. OneKind(S, text) = "none"
                BY <2>4, <3>2 DEF OneKind
            <4> QED BY <1>5, <3>2, <4>1
        <3> QED BY <3>1, <3>2
    <2> QED BY <2>1, <2>2, <2>3, <2>4
<1>7. TableScan!KindOf(i, blocks) = w
    BY <1>0, <1>4, <1>5 DEF TableScan!KindOf, OneKind
<1> QED BY <1>2, <1>3, <1>4, <1>6, <1>7

LEMMA KindsOfOneMore ==
    ASSUME CellsHaveKinds, FirstBlocks \in Nat, NEW i, NEW read \in Seq(Cells), NEW c \in Cells
    PROVE  TableScan!Kinds(i, Append(read, c)) =
              IF TableScan!Format(i) = "csv" /\ Len(read) + 1 > FirstBlocks THEN TableScan!Kinds(i, read)
              ELSE TableScan!Kinds(i, read) \cup ({CellKind[c]} \ {"unknown"})
<1>1. PICK n \in Nat : n = Len(read)
    BY LenProperties
<1>2. PICK more : more = Append(read, c)
    OBVIOUS
<1>3. /\ DOMAIN read = 1 .. n /\ DOMAIN more = 1 .. n + 1
      /\ (\A k \in 1 .. n : more[k] = read[k]) /\ more[n + 1] = c
    BY <1>1, <1>2, AppendProperties, LenProperties
<1>4. PICK old : old = {k \in DOMAIN read : TableScan!Format(i) = "csv" => k <= FirstBlocks}
    OBVIOUS
<1>5. PICK new : new = {k \in DOMAIN more : TableScan!Format(i) = "csv" => k <= FirstBlocks}
    OBVIOUS
<1>6. /\ TableScan!Kinds(i, read) = {CellKind[read[k]] : k \in old} \ {"unknown"}
      /\ TableScan!Kinds(i, more) = {CellKind[more[k]] : k \in new} \ {"unknown"}
    BY <1>4, <1>5 DEF TableScan!Kinds
<1>7. \A k \in old : k \in 1 .. n /\ more[k] = read[k]
    BY <1>3, <1>4
<1>8. CASE TableScan!Format(i) = "csv" /\ n + 1 > FirstBlocks
    <2>1. new = old
        BY <1>1, <1>3, <1>4, <1>5, <1>8
    <2> QED BY <1>1, <1>2, <1>6, <1>7, <1>8, <2>1
<1>9. CASE ~(TableScan!Format(i) = "csv" /\ n + 1 > FirstBlocks)
    <2>1. new = old \cup {n + 1}
        BY <1>1, <1>3, <1>4, <1>5, <1>9
    <2>2. {CellKind[more[k]] : k \in new} = {CellKind[read[k]] : k \in old} \cup {CellKind[c]}
        BY <1>3, <1>7, <2>1
    <2> QED BY <1>1, <1>2, <1>6, <1>9, <2>2
<1> QED BY <1>8, <1>9

\* The kind and the error of a file are those of these blocks.
Infers(i, file, read) ==
    /\ IsFile(file) /\ file.kind \in AllKinds
    /\ file.error <=> TableScan!KindOf(i, read) = "none"
    /\ ~file.error => file.kind = TableScan!KindOf(i, read)

OneMore(more, read, c) == more = Append(read, c)

\* inferText keeps the kind of what was read.
LEMMA InferOneMore ==
    ASSUME CellsHaveKinds, FirstBlocks \in Nat, NEW i, TableScan!Format(i) \in TableScan!Text,
           NEW file, NEW read \in Seq(Cells), NEW c \in Cells, Infers(i, file, read),
           OneMore(file.read, read, c), NEW next, next = TableScan!inferText(file, TableScan!Format(i), c)
    PROVE  Infers(i, next, file.read) /\ next.read = file.read
<1>0. /\ IsFile(file) /\ file.kind \in AllKinds /\ file.read = Append(read, c)
      /\ file.error <=> TableScan!KindOf(i, read) = "none"
      /\ ~file.error => file.kind = TableScan!KindOf(i, read)
    BY DEF Infers, OneMore
<1>1. PICK text \in BOOLEAN : text <=> TableScan!Format(i) = "csv"
    <2>1. (TableScan!Format(i) = "csv") \in BOOLEAN
        OBVIOUS
    <2> QED BY <2>1
<1>2. text = (TableScan!Format(i) = "csv") /\ ~text = (TableScan!Format(i) = "jsonl")
    BY <1>1 DEF TableScan!Text
<1>3. PICK S : S = TableScan!Kinds(i, read) /\ "none" \notin S /\ "unknown" \notin S
    BY KindsAreKinds
<1>4. PICK z : z = CellKind[c] /\ z # "none"
    BY DEF CellsHaveKinds
<1>5. Append(read, c) \in Seq(Cells) /\ Len(Append(read, c)) = Len(read) + 1
    BY AppendProperties
<1>6. PICK T : T = TableScan!Kinds(i, Append(read, c))
    OBVIOUS
<1>7. T = IF text /\ Len(read) + 1 > FirstBlocks THEN S ELSE S \cup ({z} \ {"unknown"})
    BY <1>1, <1>3, <1>4, <1>6, KindsOfOneMore
<1>8. TableScan!KindOf(i, read) = OneKind(S, text) /\ TableScan!KindOf(i, file.read) = OneKind(T, text)
    <2>1. TableScan!KindOf(i, read) = OneKind(S, TableScan!Format(i) = "csv") /\ TableScan!KindOf(i, file.read) = OneKind(T, TableScan!Format(i) = "csv")
        BY <1>0, <1>3, <1>5, <1>6, KindsAreKinds, ZenonT(40)
    <2> QED BY <1>2, <2>1
<1>9. TableScan!KindOf(i, file.read) \in AllKinds \cup {"none"}
    BY <1>0, <1>5, KindsAreKinds
<1>10. PICK kind : kind = IF text /\ Len(read) + 1 > FirstBlocks THEN file.kind ELSE TableScan!promote(file.kind, z, ~text)
    OBVIOUS
<1>11. next = IF file.error \/ kind = "none" THEN [file EXCEPT !.error = TRUE] ELSE [file EXCEPT !.kind = kind]
    <2>1. Len(file.read) = Len(read) + 1
        BY <1>0, <1>5
    <2>2. CASE text
        <3>1. TableScan!Format(i) = "csv"
            BY <1>1, <2>2
        <3>2. kind = IF "csv" = "csv" /\ Len(file.read) > FirstBlocks THEN file.kind
                     ELSE TableScan!promote(file.kind, CellKind[c], "csv" = "jsonl")
            BY <1>4, <1>10, <2>1, <2>2 DEF TableScan!promote
        <3> QED BY <3>1, <3>2 DEF TableScan!inferText
    <2>3. CASE ~text
        <3>1. TableScan!Format(i) = "jsonl"
            BY <1>1, <2>3 DEF TableScan!Text
        <3>2. kind = IF "jsonl" = "csv" /\ Len(file.read) > FirstBlocks THEN file.kind
                     ELSE TableScan!promote(file.kind, CellKind[c], "jsonl" = "jsonl")
            BY <1>4, <1>10, <2>3 DEF TableScan!promote
        <3> QED BY <3>1, <3>2 DEF TableScan!inferText
    <2> QED BY <2>2, <2>3
<1>c. PICK more : more = S \cup ({z} \ {"unknown"})
    OBVIOUS
<1>a. /\ OneKind(S, text) # "none" => OneKind(more, text) = TableScan!promote(OneKind(S, text), z, ~text)
      /\ OneKind(S, text) = "none" => OneKind(more, text) = "none"
    <2>1. "none" \notin S /\ "unknown" \notin S /\ z # "none"
        BY <1>3, <1>4
    <2>2. /\ OneKind(S, text) # "none" =>
                OneKind(S \cup ({z} \ {"unknown"}), text) = TableScan!promote(OneKind(S, text), z, ~text)
          /\ OneKind(S, text) = "none" => OneKind(S \cup ({z} \ {"unknown"}), text) = "none"
        BY <2>1, PromoteOne, ZenonT(40)
    <2> QED BY <1>c, <2>2
<1>b. T = S \/ T = more
    BY <1>7, <1>c
<1>12. CASE file.error
    <2>1. OneKind(T, text) = "none"
        <3>1. OneKind(S, text) = "none"
            BY <1>0, <1>8, <1>12
        <3> QED BY <1>a, <1>b, <3>1
    <2>2. next = [file EXCEPT !.error = TRUE]
        BY <1>11, <1>12
    <2> QED BY <1>0, <1>8, <2>1, <2>2 DEF IsFile, Infers
<1>13. CASE ~file.error
    <2>1. OneKind(T, text) = kind
        <3>1. OneKind(S, text) # "none" /\ file.kind = OneKind(S, text)
            BY <1>0, <1>8, <1>13
        <3>2. CASE text /\ Len(read) + 1 > FirstBlocks
            <4>1. T = S /\ kind = file.kind
                BY <1>7, <1>10, <3>2
            <4> QED BY <3>1, <4>1
        <3>3. CASE ~(text /\ Len(read) + 1 > FirstBlocks)
            <4>1. T = more
                BY <1>7, <1>c, <3>3
            <4>2. kind = TableScan!promote(file.kind, z, ~text)
                BY <1>10, <3>3
            <4> QED BY <1>a, <3>1, <4>1, <4>2
        <3> QED BY <3>2, <3>3
    <2>2. CASE kind = "none"
        <3>1. next = [file EXCEPT !.error = TRUE]
            BY <1>11, <2>2
        <3> QED BY <1>0, <1>8, <2>1, <2>2, <3>1 DEF IsFile, Infers
    <2>3. CASE kind # "none"
        <3>1. next = [file EXCEPT !.kind = kind]
            BY <1>11, <1>13, <2>3
        <3>2. IsFile(next) /\ next.read = file.read /\ next.kind = kind /\ next.error = file.error
            BY <1>0, <3>1 DEF IsFile
        <3> QED BY <1>8, <1>9, <1>13, <2>1, <2>3, <3>2 DEF Infers
    <2> QED BY <2>2, <2>3
<1> QED BY <1>12, <1>13

LEMMA TablesConstant ==
    ASSUME UNCHANGED <<listing, declared>>, NEW i, NEW blocks
    PROVE  /\ TableScan!Format(i)' = TableScan!Format(i) /\ TableScan!FormatOf(i, blocks)' = TableScan!FormatOf(i, blocks)
           /\ TableScan!Kinds(i, blocks)' = TableScan!Kinds(i, blocks) /\ TableScan!KindOf(i, blocks)' = TableScan!KindOf(i, blocks)
           /\ FactOf(i, blocks)' = FactOf(i, blocks)
           /\ TableScan!Scannable(i, blocks)' <=> TableScan!Scannable(i, blocks)
<1>1. TableScan!Format(i)' = TableScan!Format(i)
    BY DEF TableScan!Format
<1>2. TableScan!FormatOf(i, blocks)' = TableScan!FormatOf(i, blocks)
    BY <1>1 DEF TableScan!FormatOf
<1>3. TableScan!Kinds(i, blocks)' = TableScan!Kinds(i, blocks)
    BY <1>1 DEF TableScan!Kinds
<1>4. TableScan!KindOf(i, blocks)' = TableScan!KindOf(i, blocks)
    BY <1>1, <1>3 DEF TableScan!KindOf
<1>5. FactOf(i, blocks)' = FactOf(i, blocks)
    BY <1>1, <1>2, <1>4 DEF FactOf
<1>6. TableScan!Scannable(i, blocks)' <=> TableScan!Scannable(i, blocks)
    BY <1>1, <1>4 DEF TableScan!Scannable
<1> QED BY <1>1, <1>2, <1>3, <1>4, <1>5, <1>6

LEMMA TablesTo ==
    ASSUME ScanInv, UNCHANGED <<listing, declared>>, members' \in [TableScan!Members -> Seq(Cells)],
           NEW a, NEW p, NEW f, at' = a, pins' = p, facts' = f, outcome' = "running",
           IsAt(a), p \in Seq(PinType), \A i \in DOMAIN p : PinOK(i, p[i]),
           f \in Seq(FactType), \A i \in DOMAIN f : f[i] = FactOf(i, p[i].blocks),
           a.pass = "prepare" => Len(p) = a.member - 1 /\ f = <<>> /\ Inferred(a.member, a.file),
           a.pass = "scan" => /\ Len(p) = Len(listing) /\ Len(f) = a.member - 1
                              /\ Repeated(a.member, a.file, p[a.member])
    PROVE  TablesInv'
<1>1. AllFormats' = AllFormats /\ PinType' = PinType /\ FactType' = FactType /\ TableScan!Members' = TableScan!Members
    BY DEF AllFormats, PinType, FactType, AllKinds, TableScan!Members
<1>2. ASSUME NEW i \in DOMAIN p PROVE PinOK(i, p[i])'
    <2>1. PICK q : q = p[i]
        OBVIOUS
    <2>2. PinOK(i, q)
        BY <2>1
    <2>3. PinOK(i, q)'
        BY <2>2, TablesConstant DEF PinOK
    <2> QED BY <2>1, <2>3
<1>3. ASSUME NEW i \in DOMAIN f PROVE f[i] = FactOf(i, p[i].blocks)'
    <2>1. PICK b : b = p[i].blocks
        OBVIOUS
    <2> QED BY <2>1, TablesConstant
<1>4. ASSUME NEW i, NEW file, Inferred(i, file) PROVE Inferred(i, file)'
    <2>1. PICK b : b = file.read
        OBVIOUS
    <2> QED BY <1>4, <2>1, TablesConstant DEF Inferred, AllKinds
<1>5. ASSUME NEW i, NEW file, NEW pin, Repeated(i, file, pin) PROVE Repeated(i, file, pin)'
    BY <1>5 DEF Repeated
<1>6. IsAt(a)'
    BY <1>1 DEF IsAt, IsFile
<1>7. ScanInv'
    <2>1. /\ pins' \in Seq(PinType)' /\ facts' \in Seq(FactType)'
          /\ listing' \in Listings /\ members' \in [TableScan!Members -> Seq(Cells)]'
        BY <1>1 DEF ScanInv
    <2>2. \A i \in DOMAIN pins' : PinOK(i, pins[i])'
        BY <1>2
    <2>3. \A i \in DOMAIN facts' : facts'[i] = FactOf(i, pins[i].blocks)'
        BY <1>3
    <2>4. IsAt(at)'
        BY <1>6
    <2>5. a.pass = "prepare" => Preparing(at)'
        BY <1>4 DEF Preparing
    <2>6. a.pass = "scan" => Scanning(at)'
        <3>1. PICK q : q = p[a.member]
            OBVIOUS
        <3>2. ASSUME a.pass = "scan" PROVE Repeated(a.member, a.file, q)'
            BY <1>5, <3>1, <3>2
        <3> QED BY <3>1, <3>2 DEF Scanning
    <2> QED BY <2>1, <2>2, <2>3, <2>4, <2>5, <2>6 DEF ScanInv
<1> QED BY <1>7 DEF TablesInv, TableScan!FactsOfOneContent

\* A refusal: only the one of an unsupported type must be accounted for.
LEMMA TablesRefused ==
    ASSUME UNCHANGED <<listing, declared>>, outcome' \notin {"running", "published"},
           outcome' = "unsupported_type" => \E i \in TableScan!Members :
              TableScan!Format(i) = "parquet" \/ declared[i] = Unknown \/ ~TableScan!Scannable(i, declared[i])
    PROVE  TablesInv'
<1>1. ASSUME outcome' = "unsupported_type"
      PROVE  (\E i \in TableScan!Members : TableScan!Format(i) = "parquet" \/ declared[i] = Unknown \/ ~TableScan!Scannable(i, declared[i]))'
    <2>1. PICK i \in TableScan!Members : TableScan!Format(i) = "parquet" \/ declared[i] = Unknown \/ ~TableScan!Scannable(i, declared[i])
        BY <1>1
    <2>2. PICK b : b = declared[i]
        OBVIOUS
    <2>3. TableScan!Format(i)' = "parquet" \/ declared'[i] = Unknown \/ ~TableScan!Scannable(i, b)'
        BY <2>1, <2>2, TablesConstant
    <2>4. i \in TableScan!Members' /\ declared'[i] = b
        BY <2>2 DEF TableScan!Members
    <2> QED BY <2>3, <2>4
<1> QED BY <1>1 DEF TablesInv, TableScan!FactsOfOneContent

LEMMA TablesInitial ==
    ASSUME ListingsHaveMembers, CellsHaveKinds, TableScan!Init
    PROVE  TablesInv
<1>1. /\ listing \in Listings /\ Len(listing) \in Nat \ {0} /\ TableScan!Members = 1 .. Len(listing) /\ 1 \in TableScan!Members
      /\ \A i \in TableScan!Members : listing[i].size \in Nat
    BY DEF ListingsHaveMembers, TableScan!Init, TableScan!Members
<1>2. members \in [TableScan!Members -> Seq(Cells)]
    <2>1. ASSUME NEW i \in TableScan!Members PROVE members[i] \in Seq(Cells)
        <3>1. members[i] \in [1 .. listing[i].size -> Cells]
            BY <2>1 DEF TableScan!Init, TableScan!Contents
        <3> QED BY <1>1, <3>1
    <2>2. members = [i \in TableScan!Members |-> members[i]]
        BY DEF TableScan!Init
    <2> QED BY <2>1, <2>2
<1>3. TableScan!KindOf(1, <<>>) = "unknown"
    BY DEF TableScan!KindOf, TableScan!Kinds
<1>4. TableScan!FormatOf(1, <<>>) = TableScan!Format(1)
    BY DEF TableScan!FormatOf
<1>5. at = [pass |-> "prepare", member |-> 1, file |-> TableScan!NoFile] /\ pins = <<>> /\ facts = <<>> /\ outcome = "running"
    BY DEF TableScan!Init, TableScan!Opened
<1>6. Inferred(1, TableScan!NoFile) /\ IsFile(TableScan!NoFile)
    BY <1>3, <1>4 DEF Inferred, TableScan!NoFile, IsFile, AllKinds
<1>7. IsAt(at)
    BY <1>1, <1>5, <1>6 DEF IsAt
<1>8. ScanInv
    BY <1>1, <1>2, <1>5, <1>6, <1>7 DEF ScanInv, Preparing
<1> QED BY <1>5, <1>8 DEF TablesInv, TableScan!FactsOfOneContent

LEMMA TablesWrite ==
    ASSUME ListingsHaveMembers, TablesInv, TableScan!Write
    PROVE  TablesInv'
<1>1. /\ ScanInv /\ outcome' = "running"
      /\ UNCHANGED <<listing, declared, at, pins, facts>>
    BY DEF TableScan!Write, TablesInv
<1>2. members \in [TableScan!Members -> Seq(Cells)]
    BY <1>1 DEF ScanInv
<1>3. PICK i \in TableScan!Members :
          \/ \E k \in DOMAIN members[i], c \in Cells : members' = [members EXCEPT ![i][k] = c]
          \/ \E c \in Cells : members' = [members EXCEPT ![i] = Append(@, c)]
          \/ members[i] # <<>> /\ members' = [members EXCEPT ![i] = TableScan!Front(@)]
    BY DEF TableScan!Write
<1>4. PICK b \in Seq(Cells) : b = members[i]
    BY <1>2
<1>5. \E new \in Seq(Cells) : members' = [members EXCEPT ![i] = new]
    <2>1. ASSUME NEW k \in DOMAIN members[i], NEW c \in Cells, members' = [members EXCEPT ![i][k] = c]
          PROVE  \E new \in Seq(Cells) : members' = [members EXCEPT ![i] = new]
        <3>1. [b EXCEPT ![k] = c] \in Seq(Cells)
            BY <1>4, <2>1, ExceptSeq
        <3> QED BY <1>4, <2>1, <3>1
    <2>2. ASSUME NEW c \in Cells, members' = [members EXCEPT ![i] = Append(@, c)]
          PROVE  \E new \in Seq(Cells) : members' = [members EXCEPT ![i] = new]
        <3>1. Append(b, c) \in Seq(Cells)
            BY AppendProperties
        <3> QED BY <1>4, <2>2, <3>1
    <2>3. ASSUME members[i] # <<>>, members' = [members EXCEPT ![i] = TableScan!Front(@)]
          PROVE  \E new \in Seq(Cells) : members' = [members EXCEPT ![i] = new]
        <3>1. Len(b) \in Nat /\ \A k \in 1 .. Len(b) - 1 : b[k] \in Cells
            BY LenProperties, ElementOfSeq
        <3>2. SubSeq(b, 1, Len(b) - 1) \in Seq(Cells)
            BY <3>1
        <3> QED BY <1>4, <2>3, <3>2 DEF TableScan!Front
    <2> QED BY <1>3, <2>1, <2>2, <2>3
<1>6. members' \in [TableScan!Members -> Seq(Cells)]
    BY <1>2, <1>5
<1>7. PICK a, p, f : a = at /\ p = pins /\ f = facts
    OBVIOUS
<1>8. /\ IsAt(a) /\ p \in Seq(PinType) /\ f \in Seq(FactType)
      /\ (\A i0 \in DOMAIN p : PinOK(i0, p[i0])) /\ \A i0 \in DOMAIN f : f[i0] = FactOf(i0, p[i0].blocks)
      /\ a.pass = "prepare" => Len(p) = a.member - 1 /\ f = <<>> /\ Inferred(a.member, a.file)
      /\ a.pass = "scan" => /\ Len(p) = Len(listing) /\ Len(f) = a.member - 1
                            /\ Repeated(a.member, a.file, p[a.member])
    BY <1>1, <1>7 DEF ScanInv, Preparing, Scanning
<1>9. at' = a /\ pins' = p /\ facts' = f
    BY <1>1, <1>7
<1> QED BY <1>1, <1>6, <1>8, <1>9, TablesTo

LEMMA FormatsAreFormats ==
    ASSUME ListingsHaveMembers, ScanInv
    PROVE  /\ Len(listing) \in Nat \ {0} /\ TableScan!Members = 1 .. Len(listing)
           /\ \A i \in TableScan!Members : listing[i].size \in Nat /\ \A b : TableScan!FormatOf(i, b) \in AllFormats
<1>1. listing \in Listings
    BY DEF ScanInv
<1>2. /\ Len(listing) \in Nat \ {0} /\ TableScan!Members = 1 .. Len(listing)
      /\ \A i \in TableScan!Members : listing[i].size \in Nat
    BY <1>1 DEF ListingsHaveMembers, TableScan!Members
<1>3. ASSUME NEW i \in TableScan!Members, NEW b PROVE TableScan!FormatOf(i, b) \in AllFormats
    <2>1. listing[i].format \in {listing[j].format : j \in DOMAIN listing}
        BY DEF TableScan!Members
    <2>2. listing[i].format \in AllFormats
        BY <1>1, <2>1 DEF AllFormats
    <2>3. "unsupported" \in AllFormats
        BY DEF AllFormats
    <2> QED BY <2>2, <2>3 DEF TableScan!FormatOf, TableScan!Format
<1> QED BY <1>2, <1>3

\* What the state is while a scan runs, named once.
LEMMA ScanFacts ==
    ASSUME ListingsHaveMembers, TablesInv, outcome = "running"
    PROVE  /\ ScanInv /\ IsAt(at) /\ pins \in Seq(PinType) /\ facts \in Seq(FactType)
           /\ members \in [TableScan!Members -> Seq(Cells)]
           /\ \A i \in DOMAIN pins : PinOK(i, pins[i])
           /\ \A i \in DOMAIN facts : facts[i] = FactOf(i, pins[i].blocks)
           /\ at.pass = "prepare" => Len(pins) = at.member - 1 /\ facts = <<>> /\ Inferred(at.member, at.file)
           /\ at.pass = "scan" => /\ Len(pins) = Len(listing) /\ Len(facts) = at.member - 1
                                  /\ Repeated(at.member, at.file, pins[at.member])
           /\ at.member \in TableScan!Members /\ at.member \in Nat /\ Len(listing) \in Nat \ {0}
           /\ TableScan!Members = 1 .. Len(listing)
           /\ members[at.member] \in Seq(Cells) /\ listing[at.member].size \in Nat
           /\ at.file.read \in Seq(Cells) /\ Len(at.file.read) \in Nat
<1>1. ScanInv
    BY DEF TablesInv
<1>2. /\ IsAt(at) /\ at.member \in TableScan!Members /\ at.pass \in {"prepare", "scan"}
      /\ at.pass = "prepare" => Len(pins) = at.member - 1 /\ facts = <<>> /\ Inferred(at.member, at.file)
      /\ at.pass = "scan" => /\ Len(pins) = Len(listing) /\ Len(facts) = at.member - 1
                             /\ Repeated(at.member, at.file, pins[at.member])
    BY <1>1 DEF ScanInv, Preparing, Scanning, IsAt
<1>3. Len(listing) \in Nat \ {0} /\ TableScan!Members = 1 .. Len(listing) /\ at.member \in Nat
    BY <1>1, <1>2, FormatsAreFormats
<1>4. at.file.read \in Seq(Cells)
    BY <1>2 DEF Inferred, Repeated
<1>5. Len(at.file.read) \in Nat
    BY <1>4, LenProperties
<1>6. members[at.member] \in Seq(Cells) /\ listing[at.member].size \in Nat
    BY <1>1, <1>2, FormatsAreFormats DEF ScanInv
<1> QED BY <1>1, <1>2, <1>3, <1>4, <1>5, <1>6 DEF ScanInv

LEMMA TablesPrepare ==
    ASSUME ListingsHaveMembers, CellsHaveKinds, FirstBlocks \in Nat, TablesInv, TableScan!Prepare
    PROVE  TablesInv'
<1>1. PICK a, p, m, old, read : a = at /\ p = pins /\ m = at.member /\ old = at.file /\ read = at.file.read
    OBVIOUS
<1>2. PICK k \in Nat : k = Len(read) + 1
    BY <1>1, ScanFacts, SMTT(30) DEF TableScan!Prepare, TableScan!Running
<1>3. PICK c : c = members[m][k]
    OBVIOUS
<1>4. PICK file : file = [old EXCEPT !.read = Append(@, c)]
    OBVIOUS
<1>5. outcome = "running" /\ a.pass = "prepare" /\ k <= Len(members[m]) /\ UNCHANGED <<listing, members, declared>>
    BY <1>1, <1>2 DEF TableScan!Prepare, TableScan!Running, TableScan!content, TableScan!member, TableScan!Next1
<1>6. \/ outcome' = "artifact_changed"
      \/ /\ at' = [at EXCEPT !.file = IF TableScan!FormatOf(m, file.read) \in TableScan!Text THEN TableScan!inferText(file, TableScan!Format(m), c) ELSE file]
         /\ UNCHANGED <<pins, facts, outcome>>
    BY <1>1, <1>2, <1>3, <1>4 DEF TableScan!Prepare, TableScan!Refuse, TableScan!content, TableScan!member, TableScan!Next1
<1>7. CASE outcome' = "artifact_changed"
    BY <1>5, <1>7, TablesRefused
<1>8. CASE /\ at' = [at EXCEPT !.file = IF TableScan!FormatOf(m, file.read) \in TableScan!Text THEN TableScan!inferText(file, TableScan!Format(m), c) ELSE file]
           /\ UNCHANGED <<pins, facts, outcome>>
    <2>1. /\ ScanInv /\ IsAt(a) /\ p \in Seq(PinType) /\ facts = <<>> /\ members \in [TableScan!Members -> Seq(Cells)]
          /\ (\A i \in DOMAIN p : PinOK(i, p[i])) /\ Len(p) = m - 1 /\ Inferred(m, old)
          /\ members[m] \in Seq(Cells) /\ read \in Seq(Cells) /\ m \in TableScan!Members
        BY <1>1, <1>5, ScanFacts
    <2>2. c \in Cells
        <3>1. k \in 1 .. Len(members[m])
            <4>1. Len(members[m]) \in Nat
                BY <2>1, LenProperties
            <4>2. Len(read) \in Nat
                BY <2>1, LenProperties
            <4> QED BY <1>2, <1>5, <4>1, <4>2
        <3> QED BY <1>3, <2>1, <3>1, ElementOfSeq
    <2>3. file.read = Append(read, c) /\ IsFile(old) /\ IsFile(file) /\ file.kind = old.kind /\ file.error = old.error
        BY <1>1, <1>4, <2>1 DEF IsAt, IsFile
    <2>4. Append(read, c) \in Seq(Cells)
        BY <2>1, <2>2, AppendProperties
    <2>5. TableScan!FormatOf(m, file.read) \in TableScan!Text => TableScan!FormatOf(m, read) \in TableScan!Text /\ TableScan!Format(m) \in TableScan!Text
        <3>1. CASE read = <<>>
            BY <2>3, <3>1 DEF TableScan!FormatOf, TableScan!Text
        <3>2. CASE read # <<>>
            <4>1. Append(read, c) # <<>> /\ Head(Append(read, c)) = Head(read)
                BY <2>1, <2>2, <3>2, AppendProperties, LenProperties
            <4> QED BY <2>3, <3>2, <4>1 DEF TableScan!FormatOf, TableScan!Text
        <3> QED BY <3>1, <3>2
    <2>6. TableScan!FormatOf(m, file.read) \notin TableScan!Text => ~old.error
        <3>1. CASE TableScan!FormatOf(m, read) \notin TableScan!Text
            BY <1>1, <2>1, <3>1 DEF Inferred
        <3>2. CASE TableScan!FormatOf(m, read) \in TableScan!Text /\ TableScan!FormatOf(m, file.read) \notin TableScan!Text
            <4>1. read = <<>>
                <5>1. ASSUME read # <<>> PROVE FALSE
                    <6>1. Append(read, c) # <<>> /\ Head(Append(read, c)) = Head(read)
                        BY <2>1, <2>2, <5>1, AppendProperties, LenProperties
                    <6> QED BY <2>3, <3>2, <5>1, <6>1 DEF TableScan!FormatOf, TableScan!Text
                <5> QED BY <5>1
            <4>2. TableScan!KindOf(m, <<>>) = "unknown"
                BY DEF TableScan!KindOf, TableScan!Kinds
            <4> QED BY <1>1, <2>1, <3>2, <4>1, <4>2 DEF Inferred
        <3> QED BY <3>1, <3>2
    <2>7. PICK next : next = IF TableScan!FormatOf(m, file.read) \in TableScan!Text THEN TableScan!inferText(file, TableScan!Format(m), c) ELSE file
        OBVIOUS
    <2>8. IsFile(next) /\ Inferred(m, next)
        <3>1. CASE TableScan!FormatOf(m, file.read) \in TableScan!Text
            <4>1. /\ old.error <=> TableScan!KindOf(m, read) = "none"
                  /\ ~old.error => old.kind = TableScan!KindOf(m, read)
                  /\ old.kind \in AllKinds
                BY <1>1, <2>1, <2>5, <3>1 DEF Inferred
            <4>2. next = TableScan!inferText(file, TableScan!Format(m), c)
                BY <2>7, <3>1
            <4>3. Infers(m, file, read) /\ OneMore(file.read, read, c)
                BY <2>3, <4>1 DEF Infers, OneMore
            <4>4. Infers(m, next, file.read) /\ next.read = file.read
                BY <2>1, <2>2, <2>5, <3>1, <4>2, <4>3, InferOneMore
            <4> QED BY <2>3, <2>4, <3>1, <4>4 DEF Inferred, Infers
        <3>2. CASE TableScan!FormatOf(m, file.read) \notin TableScan!Text
            BY <1>1, <2>1, <2>3, <2>4, <2>6, <2>7, <3>2 DEF Inferred
        <3> QED BY <3>1, <3>2
    <2>9. PICK b : b = [a EXCEPT !.file = next]
        OBVIOUS
    <2>10. IsAt(b) /\ b.pass = "prepare" /\ b.member = m /\ b.file = next
        BY <1>1, <1>5, <2>1, <2>8, <2>9 DEF IsAt
    <2>11. PICK f : f = facts
        OBVIOUS
    <2>12. f = <<>> /\ f \in Seq(FactType) /\ \A i \in DOMAIN f : f[i] = FactOf(i, p[i].blocks)
        BY <2>1, <2>11
    <2>13. at' = b /\ pins' = p /\ facts' = f /\ outcome' = "running"
        BY <1>1, <1>5, <1>8, <2>7, <2>9, <2>11
    <2>14. members' \in [TableScan!Members -> Seq(Cells)]
        BY <1>5, <2>1
    <2> QED BY <1>5, <2>1, <2>8, <2>10, <2>12, <2>13, <2>14, TablesTo
<1> QED BY <1>6, <1>7, <1>8

\* The file that is opened next, in either pass.
LEMMA OpenedOK ==
    ASSUME ListingsHaveMembers, ScanInv, NEW i \in TableScan!Members, NEW pass \in {"prepare", "scan"}
    PROVE  /\ IsAt(TableScan!Opened(pass, i)) /\ TableScan!Opened(pass, i).pass = pass /\ TableScan!Opened(pass, i).member = i
           /\ TableScan!Opened(pass, i).file = TableScan!NoFile /\ Inferred(i, TableScan!NoFile)
           /\ \A pin : Repeated(i, TableScan!NoFile, pin)
<1>1. IsFile(TableScan!NoFile)
    BY DEF IsFile, TableScan!NoFile
<1>2. IsAt(TableScan!Opened(pass, i)) /\ TableScan!Opened(pass, i).pass = pass /\ TableScan!Opened(pass, i).member = i /\ TableScan!Opened(pass, i).file = TableScan!NoFile
    BY <1>1 DEF IsAt, TableScan!Opened
<1>3. Inferred(i, TableScan!NoFile)
    <2>1. TableScan!KindOf(i, <<>>) = "unknown"
        BY DEF TableScan!KindOf, TableScan!Kinds
    <2> QED BY <2>1 DEF Inferred, TableScan!NoFile, AllKinds
<1>4. ASSUME NEW pin PROVE Repeated(i, TableScan!NoFile, pin)
    <2>1. listing[i].size \in Nat
        BY FormatsAreFormats
    <2>2. TableScan!NoFile.read = <<>> /\ TableScan!NoFile.decoded = <<>> /\ DOMAIN <<>> = {} /\ <<>> \in Seq(Cells) /\ Len(<<>>) = 0
        BY DEF TableScan!NoFile
    <2>3. <<>> = [k \in DOMAIN <<>> |-> pin.blocks[k]]
        BY <2>2
    <2> QED BY <2>1, <2>2, <2>3 DEF Repeated
<1> QED BY <1>2, <1>3, <1>4

LEMMA NoneNotScannable ==
    ASSUME CellsHaveKinds, NEW i, NEW blocks \in Seq(Cells), TableScan!KindOf(i, blocks) = "none"
    PROVE  ~TableScan!Scannable(i, blocks)
<1>1. TableScan!Kinds(i, blocks) # {}
    BY DEF TableScan!KindOf
<1>2. PICK k \in DOMAIN blocks : CellKind[blocks[k]] # "unknown"
    BY <1>1 DEF TableScan!Kinds
<1>3. blocks[k] # Null
    BY <1>2 DEF CellsHaveKinds
<1>4. ~TableScan!scalar(TableScan!Format(i), TableScan!KindOf(i, blocks), blocks[k])
    BY <1>3 DEF TableScan!scalar
<1> QED BY <1>2, <1>4 DEF TableScan!Scannable

LEMMA TablesPrepared ==
    ASSUME ListingsHaveMembers, CellsHaveKinds, TablesInv, TableScan!Prepared
    PROVE  TablesInv'
<1>1. PICK p, m, file, read : p = pins /\ m = at.member /\ file = at.file /\ read = file.read
    OBVIOUS
<1>2. PICK pin : pin = [blocks |-> read, kind |-> file.kind, format |-> TableScan!FormatOf(m, read)]
    OBVIOUS
<1>3. outcome = "running" /\ at.pass = "prepare" /\ UNCHANGED <<listing, members, declared>>
    BY DEF TableScan!Prepared, TableScan!Running
<1>4. \/ outcome' = "artifact_changed"
      \/ /\ Len(read) = listing[m].size /\ declared[m] \in {Unknown, read}
         /\ \/ file.error /\ outcome' = "unsupported_type"
            \/ /\ ~file.error /\ pins' = Append(p, pin) /\ UNCHANGED <<facts, outcome>>
               /\ at' = IF m < Len(listing) THEN TableScan!Opened("prepare", m + 1) ELSE TableScan!Opened("scan", 1)
    BY <1>1, <1>2 DEF TableScan!Prepared, TableScan!Refuse, TableScan!member
<1>5. /\ ScanInv /\ p \in Seq(PinType) /\ facts = <<>> /\ members \in [TableScan!Members -> Seq(Cells)]
      /\ (\A i \in DOMAIN p : PinOK(i, p[i])) /\ Len(p) = m - 1 /\ Inferred(m, file)
      /\ read \in Seq(Cells) /\ m \in TableScan!Members /\ m \in Nat
      /\ Len(listing) \in Nat \ {0} /\ TableScan!Members = 1 .. Len(listing)
    BY <1>1, <1>3, ScanFacts
<1>6. CASE outcome' = "artifact_changed"
    BY <1>3, <1>6, TablesRefused
<1>7. CASE declared[m] \in {Unknown, read} /\ file.error /\ outcome' = "unsupported_type"
    <2>1. TableScan!KindOf(m, read) = "none"
        BY <1>1, <1>5, <1>7 DEF Inferred
    <2>2. declared[m] = Unknown \/ ~TableScan!Scannable(m, declared[m])
        <3>1. ~TableScan!Scannable(m, read)
            BY <1>5, <2>1, NoneNotScannable
        <3> QED BY <1>7, <3>1
    <2> QED BY <1>3, <1>5, <1>7, <2>2, TablesRefused
<1>8. CASE /\ Len(read) = listing[m].size /\ declared[m] \in {Unknown, read}
           /\ ~file.error /\ pins' = Append(p, pin) /\ UNCHANGED <<facts, outcome>>
           /\ at' = IF m < Len(listing) THEN TableScan!Opened("prepare", m + 1) ELSE TableScan!Opened("scan", 1)
    <2>1. pin \in PinType /\ pin.blocks = read /\ pin.kind = file.kind /\ pin.format = TableScan!FormatOf(m, read)
        <3>1. file.kind \in AllKinds
            BY <1>5 DEF Inferred
        <3>2. TableScan!FormatOf(m, read) \in AllFormats
            BY <1>5, FormatsAreFormats
        <3> QED BY <1>2, <1>5, <3>1, <3>2 DEF PinType
    <2>2. PinOK(m, pin)
        BY <1>1, <1>5, <1>8, <2>1 DEF PinOK, Inferred
    <2>3. PICK new \in Seq(PinType) : new = Append(p, pin)
        <3>1. Append(p, pin) \in Seq(PinType)
            BY <1>5, <2>1, AppendProperties
        <3> QED BY <3>1
    <2>4. Len(new) = m /\ new[m] = pin /\ DOMAIN new = 1 .. m /\ \A i \in 1 .. m - 1 : new[i] = p[i]
        <3>1. PICK q \in Seq(PinType), z \in PinType : q = p /\ z = pin
            BY <1>5, <2>1
        <3>2. /\ Len(Append(q, z)) = Len(q) + 1 /\ Append(q, z)[Len(q) + 1] = z
              /\ \A i \in 1 .. Len(q) : Append(q, z)[i] = q[i]
            BY AppendProperties
        <3>3. DOMAIN new = 1 .. Len(new) /\ Len(q) = m - 1 /\ m - 1 + 1 = m
            BY <1>5, <2>3, <3>1, LenProperties
        <3> QED BY <2>3, <3>1, <3>2, <3>3
    <2>5. \A i \in DOMAIN new : PinOK(i, new[i])
        <3>1. ASSUME NEW i \in DOMAIN new PROVE PinOK(i, new[i])
            <4>1. CASE i = m
                BY <2>2, <2>4, <4>1
            <4>2. CASE i # m
                <5>1. i \in 1 .. m - 1
                    BY <1>5, <2>4, <4>2
                <5>2. i \in DOMAIN p
                    BY <1>5, <5>1, LenProperties
                <5> QED BY <1>5, <2>4, <5>1, <5>2
            <4> QED BY <4>1, <4>2
        <3> QED BY <3>1
    <2>6. PICK f : f = facts
        OBVIOUS
    <2>7. f = <<>> /\ f \in Seq(FactType) /\ Len(f) = 0 /\ \A i \in DOMAIN f : f[i] = FactOf(i, new[i].blocks)
        BY <1>5, <2>6
    <2>8. pins' = new /\ facts' = f /\ outcome' = "running" /\ members' \in [TableScan!Members -> Seq(Cells)]
        BY <1>3, <1>5, <1>8, <2>3, <2>6
    <2>9. CASE m < Len(listing)
        <3>1. m + 1 \in TableScan!Members /\ m + 1 - 1 = m
            BY <1>5, <2>9
        <3>2. PICK j \in TableScan!Members : j = m + 1
            BY <3>1
        <3>3. PICK a : a = TableScan!Opened("prepare", j)
            OBVIOUS
        <3>4. IsAt(a) /\ a.pass = "prepare" /\ a.member = j /\ a.file = TableScan!NoFile /\ Inferred(j, TableScan!NoFile)
            BY <1>5, <3>3, OpenedOK
        <3>5. at' = a
            BY <1>8, <2>9, <3>2, <3>3
        <3>6. Len(new) = a.member - 1 /\ Inferred(a.member, a.file)
            BY <2>4, <3>1, <3>2, <3>4
        <3>7. /\ a.pass = "prepare" => Len(new) = a.member - 1 /\ f = <<>> /\ Inferred(a.member, a.file)
              /\ a.pass = "scan" => /\ Len(new) = Len(listing) /\ Len(f) = a.member - 1
                                    /\ Repeated(a.member, a.file, new[a.member])
            BY <2>7, <3>4, <3>6
        <3> QED BY <1>3, <1>5, <2>5, <2>7, <2>8, <3>4, <3>5, <3>7, TablesTo
    <2>10. CASE ~(m < Len(listing))
        <3>1. m = Len(listing) /\ 1 \in TableScan!Members /\ 1 - 1 = 0
            BY <1>5, <2>10
        <3>2. PICK a : a = TableScan!Opened("scan", 1)
            OBVIOUS
        <3>3. IsAt(a) /\ a.pass = "scan" /\ a.member = 1 /\ a.file = TableScan!NoFile /\ \A q : Repeated(1, TableScan!NoFile, q)
            BY <1>5, <3>1, <3>2, OpenedOK
        <3>4. at' = a
            BY <1>8, <2>10, <3>2
        <3>5. Len(f) = a.member - 1 /\ Repeated(a.member, a.file, new[a.member])
            BY <2>7, <3>1, <3>3
        <3>6. /\ a.pass = "prepare" => Len(new) = a.member - 1 /\ f = <<>> /\ Inferred(a.member, a.file)
              /\ a.pass = "scan" => /\ Len(new) = Len(listing) /\ Len(f) = a.member - 1
                                    /\ Repeated(a.member, a.file, new[a.member])
            BY <2>4, <3>1, <3>3, <3>5
        <3> QED BY <1>3, <1>5, <2>5, <2>7, <2>8, <3>3, <3>4, <3>6, TablesTo
    <2> QED BY <2>9, <2>10
<1> QED BY <1>4, <1>6, <1>7, <1>8

\* What the second pass knows of the member it reads.
LEMMA ScanningFacts ==
    ASSUME ListingsHaveMembers, TablesInv, outcome = "running", at.pass = "scan"
    PROVE  /\ ScanInv /\ pins \in Seq(PinType) /\ \A i \in DOMAIN pins : PinOK(i, pins[i])
           /\ facts \in Seq(FactType) /\ \A i \in DOMAIN facts : facts[i] = FactOf(i, pins[i].blocks)
           /\ Len(pins) = Len(listing) /\ Len(facts) = at.member - 1 /\ DOMAIN pins = TableScan!Members
           /\ at.member \in TableScan!Members /\ at.member \in Nat /\ Len(listing) \in Nat /\ TableScan!Members = 1 .. Len(listing)
           /\ PinOK(at.member, pins[at.member]) /\ pins[at.member] \in PinType
           /\ Repeated(at.member, at.file, pins[at.member])
           /\ IsAt(at) /\ members \in [TableScan!Members -> Seq(Cells)] /\ listing[at.member].size \in Nat
<1>1. /\ ScanInv /\ pins \in Seq(PinType) /\ \A i \in DOMAIN pins : PinOK(i, pins[i])
      /\ facts \in Seq(FactType) /\ \A i \in DOMAIN facts : facts[i] = FactOf(i, pins[i].blocks)
      /\ Len(pins) = Len(listing) /\ Len(facts) = at.member - 1
      /\ at.member \in TableScan!Members /\ at.member \in Nat /\ Len(listing) \in Nat /\ TableScan!Members = 1 .. Len(listing)
      /\ Repeated(at.member, at.file, pins[at.member])
      /\ IsAt(at) /\ members \in [TableScan!Members -> Seq(Cells)] /\ listing[at.member].size \in Nat
    BY ScanFacts
<1>2. DOMAIN pins = TableScan!Members
    BY <1>1, LenProperties
<1>3. PICK m \in TableScan!Members : m = at.member
    BY <1>1
<1>4. pins[m] \in PinType
    <2>1. m \in 1 .. Len(pins)
        BY <1>1
    <2> QED BY <1>1, <2>1, ElementOfSeq
<1> QED BY <1>1, <1>2, <1>3, <1>4

\* A step of the second pass within a member.
LEMMA TablesFurther ==
    ASSUME ListingsHaveMembers, TablesInv, outcome = "running", at.pass = "scan",
           UNCHANGED <<listing, members, declared, pins, facts, outcome>>,
           NEW file, IsFile(file), Repeated(at.member, file, pins[at.member]),
           at' = [at EXCEPT !.file = file]
    PROVE  TablesInv'
<1>1. PICK a, p, f : a = [at EXCEPT !.file = file] /\ p = pins /\ f = facts
    OBVIOUS
<1>2. IsAt(a) /\ a.pass = "scan" /\ a.member = at.member /\ a.file = file
    BY <1>1, ScanFacts DEF IsAt
<1>3. /\ ScanInv /\ members \in [TableScan!Members -> Seq(Cells)]
      /\ p \in Seq(PinType) /\ \A i \in DOMAIN p : PinOK(i, p[i])
      /\ f \in Seq(FactType) /\ \A i \in DOMAIN f : f[i] = FactOf(i, p[i].blocks)
      /\ Len(p) = Len(listing) /\ Len(f) = a.member - 1 /\ Repeated(a.member, a.file, p[a.member])
    BY <1>1, <1>2, ScanFacts
<1>4. at' = a /\ pins' = p /\ facts' = f /\ outcome' = "running" /\ members' \in [TableScan!Members -> Seq(Cells)]
    BY <1>1, <1>3
<1>5. /\ a.pass = "prepare" => Len(p) = a.member - 1 /\ f = <<>> /\ Inferred(a.member, a.file)
      /\ a.pass = "scan" => /\ Len(p) = Len(listing) /\ Len(f) = a.member - 1
                            /\ Repeated(a.member, a.file, p[a.member])
    BY <1>2, <1>3
<1>6. /\ ScanInv /\ UNCHANGED <<listing, declared>> /\ IsAt(a)
      /\ p \in Seq(PinType) /\ \A i \in DOMAIN p : PinOK(i, p[i])
      /\ f \in Seq(FactType) /\ \A i \in DOMAIN f : f[i] = FactOf(i, p[i].blocks)
    BY <1>2, <1>3
<1> QED BY <1>4, <1>5, <1>6, TablesTo

LEMMA TablesDecode ==
    ASSUME ListingsHaveMembers, TablesInv, TableScan!Decode
    PROVE  TablesInv'
<1>1. PICK m, pin, old : m = at.member /\ pin = pins[m] /\ old = at.file
    OBVIOUS
<1>2. outcome = "running" /\ at.pass = "scan" /\ pin.format = "parquet" /\ UNCHANGED <<listing, members, declared>>
    BY <1>1 DEF TableScan!Decode, TableScan!Running, TableScan!member
<1>3. /\ PinOK(m, pin) /\ m \in TableScan!Members /\ IsFile(old) /\ Repeated(m, old, pin)
    BY <1>1, <1>2, ScanningFacts DEF IsAt
<1>4. PICK k \in 1 .. listing[m].size :
          IF k \in DOMAIN members[m] /\ members[m][k] = pin.blocks[k]
          THEN /\ at' = [at EXCEPT !.file.decoded =
                            [j \in DOMAIN @ \cup {k} |-> IF j = k THEN members[m][k] ELSE @[j]]]
               /\ UNCHANGED <<pins, facts, outcome>>
          ELSE \E reason \in {"artifact_changed", "unsupported_type"} : outcome' = reason
    BY <1>1 DEF TableScan!Decode, TableScan!Refuse, TableScan!content, TableScan!member, TableScan!Verified
<1>5. CASE outcome' \in {"artifact_changed", "unsupported_type"}
    <2>1. TableScan!Format(m) = "parquet"
        BY <1>2, <1>3 DEF PinOK, TableScan!FormatOf
    <2> QED BY <1>2, <1>3, <1>5, <2>1, TablesRefused
<1>6. CASE /\ members[m][k] = pin.blocks[k]
           /\ at' = [at EXCEPT !.file.decoded =
                        [j \in DOMAIN @ \cup {k} |-> IF j = k THEN members[m][k] ELSE @[j]]]
           /\ UNCHANGED <<pins, facts, outcome>>
    <2>1. PICK d : d = old.decoded
        OBVIOUS
    <2>2. PICK new : new = [j \in DOMAIN d \cup {k} |-> IF j = k THEN members[m][k] ELSE d[j]]
        OBVIOUS
    <2>3. d = [j \in DOMAIN d |-> pin.blocks[j]] /\ DOMAIN d \subseteq 1 .. listing[m].size
        BY <1>3, <2>1 DEF Repeated
    <2>4. DOMAIN new \subseteq 1 .. listing[m].size /\ new = [j \in DOMAIN new |-> pin.blocks[j]]
        BY <1>6, <2>2, <2>3
    <2>5. PICK file : file = [old EXCEPT !.decoded = new]
        OBVIOUS
    <2>6. IsFile(file) /\ file.read = old.read /\ file.decoded = new
        BY <1>3, <2>5 DEF IsFile
    <2>7. Repeated(m, file, pin)
        BY <1>3, <2>4, <2>6 DEF Repeated
    <2>8. at' = [at EXCEPT !.file = file]
        <3>1. at.file = old /\ IsAt(at)
            BY <1>1, <1>2, ScanningFacts
        <3>2. [at EXCEPT !.file.decoded = [j \in DOMAIN @ \cup {k} |-> IF j = k THEN members[m][k] ELSE @[j]]]
                = [at EXCEPT !.file = [old EXCEPT !.decoded = new]]
            BY <1>3, <2>1, <2>2, <3>1 DEF IsAt, IsFile
        <3> QED BY <1>6, <2>5, <3>2
    <2> QED BY <1>1, <1>2, <1>6, <2>6, <2>7, <2>8, TablesFurther
<1> QED BY <1>4, <1>5, <1>6

LEMMA TablesRead ==
    ASSUME ListingsHaveMembers, TablesInv, TableScan!Read
    PROVE  TablesInv'
<1>1. PICK m, pin, old, read : m = at.member /\ pin = pins[m] /\ old = at.file /\ read = old.read
    OBVIOUS
<1>2. outcome = "running" /\ at.pass = "scan" /\ UNCHANGED <<listing, members, declared>>
    BY DEF TableScan!Read, TableScan!Running
<1>3. /\ PinOK(m, pin) /\ pin \in PinType /\ m \in TableScan!Members /\ IsFile(old) /\ Repeated(m, old, pin)
      /\ members \in [TableScan!Members -> Seq(Cells)] /\ listing[m].size \in Nat
    BY <1>1, <1>2, ScanningFacts DEF IsAt
<1>4. read \in Seq(Cells) /\ Len(read) \in Nat /\ members[m] \in Seq(Cells) /\ Len(members[m]) \in Nat
    BY <1>1, <1>3, LenProperties DEF Repeated
<1>5. PICK k \in Nat : k = Len(read) + 1
    BY <1>4
<1>6. PICK c : c = members[m][k]
    OBVIOUS
<1>7. /\ k <= Len(members[m])
      /\ \/ outcome' = "artifact_changed"
         \/ /\ k <= listing[m].size /\ c = pin.blocks[k]
            /\ \/ pin.format \in TableScan!Text /\ ~TableScan!scalar(pin.format, pin.kind, c) /\ outcome' = "unsupported_type"
               \/ at' = [at EXCEPT !.file.read = Append(@, c)] /\ UNCHANGED <<pins, facts, outcome>>
    <2>1. ~(k > listing[m].size) => k <= listing[m].size
        BY <1>3
    <2> QED BY <1>1, <1>5, <1>6, <2>1 DEF TableScan!Read, TableScan!Refuse, TableScan!content, TableScan!member, TableScan!Next1, TableScan!Verified
<1>8. CASE outcome' = "artifact_changed"
    BY <1>2, <1>8, TablesRefused
<1>9. CASE /\ k <= listing[m].size /\ c = pin.blocks[k]
           /\ pin.format \in TableScan!Text /\ ~TableScan!scalar(pin.format, pin.kind, c) /\ outcome' = "unsupported_type"
    <2>1. pin.format = TableScan!Format(m) /\ pin.kind = TableScan!KindOf(m, pin.blocks) /\ declared[m] \in {Unknown, pin.blocks}
        BY <1>3, <1>9 DEF PinOK, TableScan!FormatOf, TableScan!Text
    <2>2. k \in DOMAIN pin.blocks
        <3>1. pin.blocks \in Seq(Cells) /\ Len(pin.blocks) = listing[m].size
            BY <1>3 DEF PinOK, PinType
        <3>2. k \in 1 .. listing[m].size
            BY <1>3, <1>4, <1>5, <1>9
        <3> QED BY <3>1, <3>2, LenProperties
    <2>3. ~TableScan!Scannable(m, pin.blocks)
        BY <1>9, <2>1, <2>2 DEF TableScan!Scannable
    <2>4. declared[m] = Unknown \/ ~TableScan!Scannable(m, declared[m])
        BY <2>1, <2>3
    <2> QED BY <1>2, <1>3, <1>9, <2>4, TablesRefused
<1>10. CASE /\ k <= listing[m].size /\ c = pin.blocks[k]
            /\ at' = [at EXCEPT !.file.read = Append(@, c)] /\ UNCHANGED <<pins, facts, outcome>>
    <2>1. c \in Cells
        <3>1. k \in 1 .. Len(members[m])
            BY <1>4, <1>5, <1>7
        <3> QED BY <1>4, <1>6, <3>1, ElementOfSeq
    <2>2. PICK more \in Seq(Cells) : more = Append(read, c)
        <3>1. Append(read, c) \in Seq(Cells)
            BY <1>4, <2>1, AppendProperties
        <3> QED BY <3>1
    <2>3. Len(more) = k /\ more[k] = c /\ \A j \in 1 .. Len(read) : more[j] = read[j]
        <3>1. PICK q \in Seq(Cells), z \in Cells : q = read /\ z = c
            BY <1>4, <2>1
        <3>2. /\ Len(Append(q, z)) = Len(q) + 1 /\ Append(q, z)[Len(q) + 1] = z
              /\ \A j \in 1 .. Len(q) : Append(q, z)[j] = q[j]
            BY AppendProperties
        <3> QED BY <1>5, <2>2, <3>1, <3>2
    <2>4. ASSUME NEW j \in 1 .. Len(more) PROVE more[j] = pin.blocks[j]
        <3>1. CASE j = k
            BY <1>10, <2>3, <3>1
        <3>2. CASE j # k
            <4>1. j \in 1 .. Len(read)
                BY <1>4, <1>5, <2>3, <3>2
            <4> QED BY <1>1, <1>3, <2>3, <4>1 DEF Repeated
        <3> QED BY <3>1, <3>2
    <2>5. PICK file : file = [old EXCEPT !.read = more]
        OBVIOUS
    <2>6. IsFile(file) /\ file.read = more /\ file.decoded = old.decoded
        BY <1>3, <2>5 DEF IsFile
    <2>7. Repeated(m, file, pin)
        BY <1>3, <1>10, <2>3, <2>4, <2>6 DEF Repeated
    <2>8. at' = [at EXCEPT !.file = file]
        <3>1. at.file = old /\ IsAt(at)
            BY <1>1, <1>2, ScanningFacts
        <3>2. [at EXCEPT !.file.read = Append(@, c)] = [at EXCEPT !.file = [old EXCEPT !.read = more]]
            BY <1>1, <1>3, <2>2, <3>1 DEF IsAt, IsFile
        <3> QED BY <1>10, <2>5, <3>2
    <2> QED BY <1>1, <1>2, <1>10, <2>6, <2>7, <2>8, TablesFurther
<1> QED BY <1>7, <1>8, <1>9, <1>10

LEMMA TablesPublished ==
    ASSUME UNCHANGED <<listing, declared>>, outcome' = "published",
           NEW p, NEW f, pins' = p, facts' = f,
           \A i \in TableScan!Members : declared[i] \in {Unknown, p[i].blocks} /\ f[i] = FactOf(i, p[i].blocks)
    PROVE  TablesInv'
<1>1. TableScan!Members' = TableScan!Members
    BY DEF TableScan!Members
<1>2. ASSUME NEW i \in TableScan!Members
      PROVE  (declared[i] \in {Unknown, pins[i].blocks} /\ facts[i] = FactOf(i, pins[i].blocks))'
    <2>1. PICK b : b = p[i].blocks
        OBVIOUS
    <2>2. FactOf(i, b)' = FactOf(i, b)
        BY TablesConstant
    <2>3. declared[i] \in {Unknown, b} /\ f[i] = FactOf(i, b)
        BY <1>2, <2>1
    <2>4. pins'[i].blocks = b /\ facts'[i] = f[i] /\ declared'[i] = declared[i]
        BY <2>1
    <2> QED BY <2>2, <2>3, <2>4
<1> QED BY <1>1, <1>2 DEF TablesInv, TableScan!FactsOfOneContent, FactOf

LEMMA TablesScanned ==
    ASSUME ListingsHaveMembers, CellsHaveKinds, TablesInv, TableScan!Scanned
    PROVE  TablesInv'
<1>1. PICK m, pin, file, f, p : m = at.member /\ pin = pins[m] /\ file = at.file /\ f = facts /\ p = pins
    OBVIOUS
<1>2. PICK fact : fact = IF ~TableScan!Supported(pin.format) THEN [kind |-> "skipped", rows |-> <<>>]
                         ELSE IF pin.format = "parquet" THEN [kind |-> "parquet", rows |-> file.decoded]
                         ELSE [kind |-> pin.kind, rows |-> file.read]
    OBVIOUS
<1>3. outcome = "running" /\ at.pass = "scan" /\ UNCHANGED <<listing, members, declared>>
    BY DEF TableScan!Scanned, TableScan!Running
<1>4. /\ pin.format # "parquet" \/ DOMAIN file.decoded = 1 .. listing[m].size
      /\ \/ outcome' = "artifact_changed"
         \/ /\ Len(file.read) = listing[m].size /\ facts' = Append(f, fact) /\ pins' = p
            /\ IF m < Len(listing) THEN at' = TableScan!Opened("scan", m + 1) /\ outcome' = outcome
               ELSE outcome' = "published"
    BY <1>1, <1>2 DEF TableScan!Scanned, TableScan!Refuse, TableScan!member, TableScan!AllDecoded
<1>5. /\ ScanInv /\ p \in Seq(PinType) /\ \A i \in DOMAIN p : PinOK(i, p[i])
      /\ f \in Seq(FactType) /\ \A i \in DOMAIN f : f[i] = FactOf(i, p[i].blocks)
      /\ Len(p) = Len(listing) /\ Len(f) = m - 1 /\ DOMAIN p = TableScan!Members
      /\ m \in TableScan!Members /\ m \in Nat /\ Len(listing) \in Nat /\ TableScan!Members = 1 .. Len(listing)
      /\ PinOK(m, pin) /\ pin \in PinType /\ Repeated(m, file, pin)
      /\ members \in [TableScan!Members -> Seq(Cells)] /\ listing[m].size \in Nat /\ pin = p[m]
    BY <1>1, <1>3, ScanningFacts
<1>6. CASE outcome' = "artifact_changed"
    BY <1>3, <1>6, TablesRefused
<1>7. CASE /\ Len(file.read) = listing[m].size /\ facts' = Append(f, fact) /\ pins' = p
           /\ IF m < Len(listing) THEN at' = TableScan!Opened("scan", m + 1) /\ outcome' = outcome
              ELSE outcome' = "published"
    <2>1. /\ pin.blocks \in Seq(Cells) /\ Len(pin.blocks) = listing[m].size /\ pin.kind \in AllKinds
          /\ pin.format = TableScan!FormatOf(m, pin.blocks) /\ file.read \in Seq(Cells)
        BY <1>5 DEF PinOK, PinType, Repeated
    <2>2. file.read = pin.blocks
        <3>1. \A k \in 1 .. Len(file.read) : file.read[k] = pin.blocks[k]
            BY <1>5 DEF Repeated
        <3> QED BY <1>7, <2>1, <3>1, SeqEqual
    <2>3. pin.format = "parquet" => file.decoded = pin.blocks
        <3>1. ASSUME pin.format = "parquet" PROVE file.decoded = pin.blocks
            <4>1. file.decoded = [k \in 1 .. Len(pin.blocks) |-> pin.blocks[k]]
                BY <1>4, <1>5, <2>1, <3>1 DEF Repeated
            <4>2. pin.blocks = [k \in 1 .. Len(pin.blocks) |-> pin.blocks[k]]
                BY <2>1
            <4> QED BY <4>1, <4>2
        <3> QED BY <3>1
    <2>4. fact = FactOf(m, pin.blocks) /\ fact \in FactType
        <3>1. CASE ~TableScan!Supported(pin.format)
            BY <1>2, <2>1, <3>1 DEF FactOf, FactType
        <3>2. CASE pin.format = "parquet"
            <4>1. TableScan!Supported(pin.format) /\ TableScan!Format(m) = "parquet"
                BY <2>1, <3>2 DEF TableScan!Supported, TableScan!FormatOf
            <4> QED BY <1>2, <2>1, <2>3, <3>2, <4>1 DEF FactOf, FactType
        <3>3. CASE TableScan!Supported(pin.format) /\ pin.format # "parquet"
            <4>1. pin.format \in TableScan!Text /\ TableScan!Format(m) = pin.format
                BY <2>1, <3>3 DEF TableScan!Supported, TableScan!Text, TableScan!FormatOf
            <4>2. pin.kind = TableScan!KindOf(m, pin.blocks)
                BY <1>5, <4>1 DEF PinOK
            <4> QED BY <1>2, <2>1, <2>2, <3>3, <4>1, <4>2 DEF FactOf, FactType
        <3> QED BY <3>1, <3>2, <3>3
    <2>5. PICK new \in Seq(FactType) : new = Append(f, fact)
        <3>1. Append(f, fact) \in Seq(FactType)
            BY <1>5, <2>4, AppendProperties
        <3> QED BY <3>1
    <2>6. Len(new) = m /\ new[m] = fact /\ DOMAIN new = 1 .. m /\ \A i \in 1 .. m - 1 : new[i] = f[i]
        <3>1. PICK q \in Seq(FactType), z \in FactType : q = f /\ z = fact
            BY <1>5, <2>4
        <3>2. /\ Len(Append(q, z)) = Len(q) + 1 /\ Append(q, z)[Len(q) + 1] = z
              /\ \A i \in 1 .. Len(q) : Append(q, z)[i] = q[i]
            BY AppendProperties
        <3>3. DOMAIN new = 1 .. Len(new) /\ Len(q) = m - 1 /\ m - 1 + 1 = m
            BY <1>5, <2>5, <3>1, LenProperties
        <3> QED BY <2>5, <3>1, <3>2, <3>3
    <2>7. \A i \in DOMAIN new : new[i] = FactOf(i, p[i].blocks)
        <3>1. ASSUME NEW i \in DOMAIN new PROVE new[i] = FactOf(i, p[i].blocks)
            <4>1. CASE i = m
                BY <1>5, <2>4, <2>6, <4>1
            <4>2. CASE i # m
                <5>1. i \in 1 .. m - 1
                    BY <1>5, <2>6, <4>2
                <5>2. i \in DOMAIN f
                    BY <1>5, <5>1, LenProperties
                <5> QED BY <1>5, <2>6, <5>1, <5>2
            <4> QED BY <4>1, <4>2
        <3> QED BY <3>1
    <2>8. CASE m < Len(listing)
        <3>1. PICK j \in TableScan!Members : j = m + 1 /\ j - 1 = m
            BY <1>5, <2>8
        <3>2. PICK a : a = TableScan!Opened("scan", j)
            OBVIOUS
        <3>3. IsAt(a) /\ a.pass = "scan" /\ a.member = j /\ a.file = TableScan!NoFile /\ \A q : Repeated(j, TableScan!NoFile, q)
            BY <1>5, <3>2, OpenedOK
        <3>4. at' = a /\ pins' = p /\ facts' = new /\ outcome' = "running" /\ members' \in [TableScan!Members -> Seq(Cells)]
            BY <1>3, <1>5, <1>7, <2>5, <2>8, <3>1, <3>2
        <3>5. /\ a.pass = "prepare" => Len(p) = a.member - 1 /\ new = <<>> /\ Inferred(a.member, a.file)
              /\ a.pass = "scan" => /\ Len(p) = Len(listing) /\ Len(new) = a.member - 1
                                    /\ Repeated(a.member, a.file, p[a.member])
            BY <1>5, <2>6, <3>1, <3>3
        <3> QED BY <1>3, <1>5, <2>7, <3>3, <3>4, <3>5, TablesTo
    <2>9. CASE ~(m < Len(listing))
        <3>1. outcome' = "published" /\ DOMAIN new = TableScan!Members
            <4>1. m = Len(listing)
                <5>1. PICK n \in Nat, l \in Nat : n = m /\ l = Len(listing)
                    BY <1>5
                <5>2. n \in 1 .. l
                    BY <1>5, <5>1
                <5>3. n = l
                    BY <2>9, <5>1, <5>2
                <5> QED BY <5>1, <5>3
            <4> QED BY <1>5, <1>7, <2>6, <4>1
        <3>2. ASSUME NEW i \in TableScan!Members
              PROVE  /\ declared[i] \in {Unknown, p[i].blocks}
                     /\ new[i] = FactOf(i, p[i].blocks)
            BY <1>5, <2>7, <3>1, <3>2 DEF PinOK
        <3>3. pins' = p /\ facts' = new
            BY <1>7, <2>5
        <3> QED BY <1>3, <3>1, <3>2, <3>3, TablesPublished
    <2> QED BY <2>8, <2>9
<1> QED BY <1>4, <1>6, <1>7

LEMMA TablesFail ==
    ASSUME TablesInv, TableScan!Fail
    PROVE  TablesInv'
BY TablesRefused DEF TableScan!Fail, TableScan!Refuse

LEMMA TablesStep ==
    ASSUME ListingsHaveMembers, CellsHaveKinds, FirstBlocks \in Nat, TablesInv, [TableScan!Next]_(TableScan!vars)
    PROVE  TablesInv'
<1>1. CASE TableScan!Next
    BY <1>1, TablesPrepare, TablesPrepared, TablesDecode, TablesRead, TablesScanned, TablesFail,
       TablesWrite DEF TableScan!Next
<1>2. CASE UNCHANGED TableScan!vars
    <2>1. UNCHANGED <<listing, members, declared, at, pins, facts, outcome>>
        BY <1>2 DEF TableScan!vars
    <2>2. CASE outcome = "running"
        <3>1. PICK a, p, f : a = at /\ p = pins /\ f = facts
            OBVIOUS
        <3>2. /\ ScanInv /\ members \in [TableScan!Members -> Seq(Cells)]
              /\ IsAt(a) /\ p \in Seq(PinType) /\ f \in Seq(FactType)
              /\ (\A i \in DOMAIN p : PinOK(i, p[i])) /\ \A i \in DOMAIN f : f[i] = FactOf(i, p[i].blocks)
              /\ a.pass = "prepare" => Len(p) = a.member - 1 /\ f = <<>> /\ Inferred(a.member, a.file)
              /\ a.pass = "scan" => /\ Len(p) = Len(listing) /\ Len(f) = a.member - 1
                                    /\ Repeated(a.member, a.file, p[a.member])
            BY <2>2, <3>1, ScanFacts
        <3>3. /\ at' = a /\ pins' = p /\ facts' = f /\ outcome' = "running"
              /\ members' \in [TableScan!Members -> Seq(Cells)] /\ UNCHANGED <<listing, declared>>
            BY <2>1, <2>2, <3>1, <3>2
        <3> QED BY <3>2, <3>3, TablesTo
    <2>3. CASE outcome = "published"
        <3>1. PICK p, f : p = pins /\ f = facts
            OBVIOUS
        <3>2. \A i \in TableScan!Members : declared[i] \in {Unknown, p[i].blocks} /\ f[i] = FactOf(i, p[i].blocks)
            BY <2>3, <3>1 DEF TablesInv, TableScan!FactsOfOneContent, FactOf
        <3>3. pins' = p /\ facts' = f /\ outcome' = "published"
            BY <2>1, <2>3, <3>1
        <3> QED BY <2>1, <3>2, <3>3, TablesPublished
    <2>4. CASE outcome \notin {"running", "published"}
        <3>1. outcome = "unsupported_type" => \E i \in TableScan!Members :
                  TableScan!Format(i) = "parquet" \/ declared[i] = Unknown \/ ~TableScan!Scannable(i, declared[i])
            BY DEF TablesInv, TableScan!FactsOfOneContent
        <3> QED BY <2>1, <2>4, <3>1, TablesRefused
    <2> QED BY <2>2, <2>3, <2>4
<1> QED BY <1>1, <1>2

\* Published facts describe one content of every member, and text is refused as
\* unsupported only for what was declared (scanner.go: prepare, scanTables).
THEOREM TablesAreOfOneContent ==
    ASSUME ListingsHaveMembers, CellsHaveKinds, FirstBlocks \in Nat
    PROVE  TableScan!Spec => []TableScan!FactsOfOneContent
<1>1. TableScan!Init => TablesInv
    BY TablesInitial
<1>2. TablesInv /\ [TableScan!Next]_(TableScan!vars) => TablesInv'
    BY TablesStep
<1>3. TablesInv => TableScan!FactsOfOneContent
    BY DEF TablesInv
<1> QED BY <1>1, <1>2, <1>3, PTL DEF TableScan!Spec

-----------------------------------------------------------------------------
(* The description of a file (Profile) *)

\* Values are no markers, types have names, and the numbers are numbers.
ProfileAssumptions ==
    /\ None \notin Described!Values /\ Absent \notin Described!Values
    /\ \A v \in Described!Values : Infer[v] # "none"
    /\ \A c \in Cols : SchemaKind[c] # "none"
    /\ IsFiniteSet(Cols) /\ Sample \in Nat /\ MaxRows \in Nat /\ Limits \subseteq Nat

\* A rate in steps of five is within half a step.
Near(rate, total, without) ==
    LET off == rate * total - 100 * without
    IN  2 * off <= 5 * total /\ 2 * off > -5 * total

\* The rows among the first n that give column c a value, and the others.
With(c, n) == {i \in 1 .. n : lines[i][c] \in Described!Values}
Without(c, n) == {i \in 1 .. n : lines[i][c] \notin Described!Values}

\* Those its type is taken from.
First(c, n) == {i \in With(c, n) : Cardinality({k \in With(c, n) : k < i}) < Sample}

\* The type of values that have these types.
TypeOf(kinds) ==
    IF kinds = {} THEN "none"
    ELSE IF kinds = {"integer", "float"} THEN "float"
    ELSE IF \E k \in kinds : kinds = {k} THEN CHOOSE k \in kinds : TRUE
    ELSE "string"

FirstTypes(c, n) == {Infer[lines[i][c]] : i \in First(c, n)}

\* The accumulator of a column when n rows have been read.
AccOK(c, a, n) ==
    /\ a = [kind |-> a.kind, nulls |-> a.nulls, seen |-> a.seen, distinct |-> a.distinct]
    /\ a.nulls = Cardinality(Without(c, n))
    /\ a.distinct = {lines[i][c] : i \in With(c, n)}
    /\ IF format = "parquet" THEN a.kind = SchemaKind[c]
       ELSE /\ a.kind = TypeOf(FirstTypes(c, n))
            /\ a.seen = IF Cardinality(With(c, n)) < Sample THEN Cardinality(With(c, n)) ELSE Sample

\* The columns that the first n rows have.
Columns(n) ==
    IF format = "json" THEN {c \in Cols \ drop : \E i \in 1 .. n : lines[i][c] # Absent}
    ELSE Cols \ drop

Counts(x, n) == x = [c \in Columns(n) |-> x[c]] /\ \A c \in Columns(n) : AccOK(c, x[c], n)

ProfileInv ==
    /\ lines \in Seq(Rows) /\ format \in Described!Formats /\ group \in {1, 2} /\ limit \in Nat
    /\ pos \in 0 .. Len(lines)
    /\ ended = "reading" => Counts(acc, pos)
    /\ Described!DescribesEveryRow

LEMMA TypeOfCases ==
    ASSUME NEW S
    PROVE  /\ S = {} => TypeOf(S) = "none"
           /\ S = {"integer", "float"} => TypeOf(S) = "float"
           /\ \A k : S = {k} => TypeOf(S) = k
           /\ S # {} /\ S # {"integer", "float"} /\ (\A k : S # {k}) => TypeOf(S) = "string"
<1>1. ASSUME NEW k, S = {k} PROVE TypeOf(S) = k
    <2>1. S # {} /\ S # {"integer", "float"} /\ \E j \in S : S = {j}
        BY <1>1
    <2>2. PICK j : j = CHOOSE i \in S : TRUE
        OBVIOUS
    <2>3. j \in S
        BY <1>1, <2>2
    <2> QED BY <1>1, <2>1, <2>2, <2>3 DEF TypeOf
<1> QED BY <1>1 DEF TypeOf

\* The type does not depend on the order of the values.
LEMMA TypeOfMore ==
    ASSUME NEW S, "none" \notin S, NEW t, t # "none"
    PROVE  TypeOf(S \cup {t}) = Described!Join(TypeOf(S), t)
<1>1. PICK T : T = S \cup {t}
    OBVIOUS
<1>2. CASE S = {}
    <2>1. T = {t} /\ TypeOf(S) = "none"
        BY <1>1, <1>2, TypeOfCases
    <2>2. TypeOf(T) = t
        BY <2>1, TypeOfCases
    <2> QED BY <1>1, <2>1, <2>2 DEF Described!Join
<1>3. ASSUME NEW k, S = {k}
      PROVE  TypeOf(T) = Described!Join(TypeOf(S), t)
    <2>1. TypeOf(S) = k /\ k # "none" /\ T = {k, t}
        BY <1>1, <1>3, TypeOfCases
    <2>2. CASE k = t
        <3>1. T = {t}
            BY <2>1, <2>2
        <3>2. TypeOf(T) = t
            BY <3>1, TypeOfCases
        <3> QED BY <2>1, <2>2, <3>2 DEF Described!Join
    <2>3. CASE k # t /\ {k, t} = {"integer", "float"}
        BY <2>1, <2>3, TypeOfCases DEF Described!Join
    <2>4. CASE k # t /\ {k, t} # {"integer", "float"}
        <3>1. T # {} /\ T # {"integer", "float"} /\ \A j : T # {j}
            <4>1. k \in T /\ t \in T
                BY <2>1
            <4>2. \A j : T # {j}
                BY <2>4, <4>1
            <4> QED BY <2>1, <2>4, <4>1, <4>2
        <3>2. TypeOf(T) = "string"
            BY <3>1, TypeOfCases
        <3>3. Described!Join(k, t) = "string"
            BY <2>1, <2>4 DEF Described!Join
        <3> QED BY <2>1, <3>2, <3>3
    <2> QED BY <2>2, <2>3, <2>4
<1>4. CASE S = {"integer", "float"}
    <2>1. TypeOf(S) = "float"
        BY <1>4, TypeOfCases
    <2>2. CASE t \in {"integer", "float"}
        <3>1. T = S
            BY <1>1, <1>4, <2>2
        <3>2. Described!Join("float", "integer") = "float" /\ Described!Join("float", "float") = "float"
            BY DEF Described!Join
        <3> QED BY <1>1, <2>1, <2>2, <3>1, <3>2
    <2>3. CASE t \notin {"integer", "float"}
        <3>1. T # {} /\ T # {"integer", "float"} /\ \A j : T # {j}
            BY <1>1, <1>4, <2>3
        <3>2. TypeOf(T) = "string"
            BY <3>1, TypeOfCases
        <3>3. Described!Join("float", t) = "string"
            BY <2>3 DEF Described!Join
        <3> QED BY <1>1, <2>1, <3>2, <3>3
    <2> QED BY <2>2, <2>3
<1>5. CASE S # {} /\ S # {"integer", "float"} /\ \A k : S # {k}
    <2>1. TypeOf(S) = "string"
        BY <1>5, TypeOfCases
    <2>2. T # {} /\ \A j : T # {j}
        BY <1>1, <1>5
    <2>3. T # {"integer", "float"}
        BY <1>1, <1>5
    <2>4. TypeOf(T) = "string"
        BY <2>2, <2>3, TypeOfCases
    <2>5. Described!Join("string", t) = "string"
        BY DEF Described!Join
    <2> QED BY <1>1, <2>1, <2>4, <2>5
<1> QED BY <1>1, <1>2, <1>3, <1>4, <1>5

LEMMA RowsFinite ==
    ASSUME NEW c, NEW n \in Nat
    PROVE  /\ IsFiniteSet(With(c, n)) /\ Cardinality(With(c, n)) \in Nat
           /\ IsFiniteSet(Without(c, n)) /\ Cardinality(Without(c, n)) \in Nat
<1>1. IsFiniteSet(1 .. n)
    BY FS_Interval
<1>2. With(c, n) \subseteq 1 .. n /\ Without(c, n) \subseteq 1 .. n
    BY DEF With, Without
<1>3. IsFiniteSet(With(c, n)) /\ IsFiniteSet(Without(c, n))
    BY <1>1, <1>2, FS_Subset
<1> QED BY <1>3, FS_CardinalityType

LEMMA RowsMore ==
    ASSUME NEW c, NEW n \in Nat, NEW m, m = n + 1
    PROVE  /\ lines[m][c] \in Described!Values =>
                 /\ With(c, m) = With(c, n) \cup {m} /\ Without(c, m) = Without(c, n)
                 /\ Cardinality(With(c, m)) = Cardinality(With(c, n)) + 1
           /\ lines[m][c] \notin Described!Values =>
                 /\ With(c, m) = With(c, n) /\ Without(c, m) = Without(c, n) \cup {m}
                 /\ Cardinality(Without(c, m)) = Cardinality(Without(c, n)) + 1
<1>1. 1 .. m = (1 .. n) \cup {m} /\ m \notin 1 .. n
    OBVIOUS
<1>2. m \notin With(c, n) /\ m \notin Without(c, n)
    BY <1>1 DEF With, Without
<1>3. IsFiniteSet(With(c, n)) /\ IsFiniteSet(Without(c, n))
    BY RowsFinite
<1>4. /\ lines[m][c] \in Described!Values => With(c, m) = With(c, n) \cup {m} /\ Without(c, m) = Without(c, n)
      /\ lines[m][c] \notin Described!Values => With(c, m) = With(c, n) /\ Without(c, m) = Without(c, n) \cup {m}
    BY <1>1 DEF With, Without
<1>5. /\ Cardinality(With(c, n) \cup {m}) = Cardinality(With(c, n)) + 1
      /\ Cardinality(Without(c, n) \cup {m}) = Cardinality(Without(c, n)) + 1
    BY <1>2, <1>3, FS_AddElement
<1> QED BY <1>4, <1>5

LEMMA FirstMore ==
    ASSUME NEW c, NEW n \in Nat, NEW m, m = n + 1
    PROVE  First(c, m) = IF lines[m][c] \in Described!Values /\ Cardinality(With(c, n)) < Sample
                         THEN First(c, n) \cup {m} ELSE First(c, n)
<1>1. \A i \in With(c, n) : i \in 1 .. n /\ i < m
    BY DEF With
<1>2. \A i \in With(c, n) : {k \in With(c, m) : k < i} = {k \in With(c, n) : k < i}
    <2>1. With(c, m) = With(c, n) \/ With(c, m) = With(c, n) \cup {m}
        BY RowsMore
    <2>2. \A i \in With(c, n) : ~(m < i)
        BY <1>1
    <2> QED BY <2>1, <2>2
<1>3. {i \in With(c, n) : Cardinality({k \in With(c, m) : k < i}) < Sample} = First(c, n)
    BY <1>2 DEF First
<1>4. CASE lines[m][c] \notin Described!Values
    BY <1>3, <1>4, RowsMore DEF First
<1>5. CASE lines[m][c] \in Described!Values
    <2>1. With(c, m) = With(c, n) \cup {m}
        BY <1>5, RowsMore
    <2>2. {k \in With(c, m) : k < m} = With(c, n)
        BY <1>1, <2>1
    <2>3. First(c, m) = {i \in With(c, m) : Cardinality({k \in With(c, m) : k < i}) < Sample}
        BY DEF First
    <2>4. PICK early : early = [i \in With(c, m) |-> Cardinality({k \in With(c, m) : k < i}) < Sample]
        OBVIOUS
    <2>5. First(c, m) = {i \in With(c, m) : early[i]} /\ First(c, n) = {i \in With(c, n) : early[i]}
        <3>1. First(c, m) = {i \in With(c, m) : early[i]}
            BY <2>3, <2>4
        <3>2. First(c, n) = {i \in With(c, n) : early[i]}
            BY <1>3, <2>1, <2>4
        <3> QED BY <3>1, <3>2
    <2>6. early[m] <=> Cardinality(With(c, n)) < Sample
        BY <2>1, <2>2, <2>4
    <2> QED BY <1>5, <2>1, <2>5, <2>6
<1> QED BY <1>4, <1>5

LEMMA AddOK ==
    ASSUME ProfileAssumptions, NEW c, NEW n \in Nat, NEW m, m = n + 1, format # "parquet",
           NEW a, AccOK(c, a, n), NEW b, b = Described!Add(a, lines[m][c])
    PROVE  AccOK(c, b, m)
<1>1. /\ a = [kind |-> a.kind, nulls |-> a.nulls, seen |-> a.seen, distinct |-> a.distinct]
      /\ a.nulls = Cardinality(Without(c, n)) /\ a.distinct = {lines[i][c] : i \in With(c, n)}
      /\ a.kind = TypeOf(FirstTypes(c, n))
      /\ a.seen = IF Cardinality(With(c, n)) < Sample THEN Cardinality(With(c, n)) ELSE Sample
    BY DEF AccOK
<1>0. PICK cell : cell = lines[m][c]
    OBVIOUS
<1>2. PICK w \in Nat : w = Cardinality(With(c, n)) /\ cell = lines[m][c]
    BY <1>0, RowsFinite
<1>3. Sample \in Nat
    BY DEF ProfileAssumptions
<1>4. CASE cell \notin Described!Values
    <2>1. /\ With(c, m) = With(c, n) /\ Cardinality(Without(c, m)) = Cardinality(Without(c, n)) + 1
          /\ First(c, m) = First(c, n)
        BY <1>2, <1>4, RowsMore, FirstMore
    <2>2. b = [a EXCEPT !.nulls = @ + 1]
        BY <1>2, <1>4 DEF Described!Add
    <2>3. b = [kind |-> a.kind, nulls |-> a.nulls + 1, seen |-> a.seen, distinct |-> a.distinct]
        BY <1>1, <2>2
    <2>4. FirstTypes(c, m) = FirstTypes(c, n)
        BY <2>1 DEF FirstTypes
    <2> QED BY <1>1, <2>1, <2>3, <2>4 DEF AccOK
<1>5. CASE cell \in Described!Values
    <2>1. /\ With(c, m) = With(c, n) \cup {m} /\ Without(c, m) = Without(c, n)
          /\ Cardinality(With(c, m)) = w + 1
          /\ First(c, m) = IF w < Sample THEN First(c, n) \cup {m} ELSE First(c, n)
        <3>1. lines[m][c] \in Described!Values
            BY <1>0, <1>5
        <3>2. First(c, m) = IF lines[m][c] \in Described!Values /\ Cardinality(With(c, n)) < Sample
                            THEN First(c, n) \cup {m} ELSE First(c, n)
            BY FirstMore
        <3>3. First(c, m) = IF w < Sample THEN First(c, n) \cup {m} ELSE First(c, n)
            BY <1>2, <3>1, <3>2
        <3> QED BY <1>2, <3>1, <3>3, RowsMore
    <2>2. PICK t : t = Infer[cell] /\ t # "none"
        <3>1. Infer[cell] # "none"
            BY <1>5 DEF ProfileAssumptions
        <3> QED BY <3>1
    <2>3. b = [a EXCEPT !.distinct = @ \cup {cell},
                        !.seen = IF @ < Sample THEN @ + 1 ELSE @,
                        !.kind = IF a.seen < Sample THEN Described!Join(@, t) ELSE @]
        BY <1>2, <1>5, <2>2 DEF Described!Add
    <2>4. b = [kind |-> IF a.seen < Sample THEN Described!Join(a.kind, t) ELSE a.kind, nulls |-> a.nulls,
               seen |-> IF a.seen < Sample THEN a.seen + 1 ELSE a.seen, distinct |-> a.distinct \cup {cell}]
        BY <1>1, <2>3
    <2>5. b.distinct = {lines[i][c] : i \in With(c, m)}
        BY <1>1, <1>2, <2>1, <2>4
    <2>6. a.seen < Sample <=> w < Sample
        BY <1>1, <1>2, <1>3
    <2>7. b.seen = IF w + 1 < Sample THEN w + 1 ELSE Sample
        <3>1. CASE w < Sample
            <4>1. a.seen = w /\ b.seen = a.seen + 1
                BY <1>1, <1>2, <2>4, <2>6, <3>1
            <4> QED BY <1>3, <3>1, <4>1
        <3>2. CASE ~(w < Sample)
            <4>1. a.seen = Sample /\ b.seen = a.seen
                BY <1>1, <1>2, <2>4, <2>6, <3>2
            <4> QED BY <1>3, <3>2, <4>1
        <3> QED BY <3>1, <3>2
    <2>8. b.kind = TypeOf(FirstTypes(c, m))
        <3>1. CASE w < Sample
            <4>1. FirstTypes(c, m) = FirstTypes(c, n) \cup {t}
                BY <1>2, <2>1, <2>2, <3>1 DEF FirstTypes
            <4>2. "none" \notin FirstTypes(c, n)
                BY DEF FirstTypes, First, With, ProfileAssumptions
            <4>3. b.kind = Described!Join(a.kind, t)
                BY <2>4, <2>6, <3>1
            <4>4. PICK S : S = FirstTypes(c, n)
                OBVIOUS
            <4>5. TypeOf(S \cup {t}) = Described!Join(TypeOf(S), t)
                BY <2>2, <4>2, <4>4, TypeOfMore
            <4> QED BY <1>1, <4>1, <4>3, <4>4, <4>5
        <3>2. CASE ~(w < Sample)
            <4>1. First(c, m) = First(c, n) /\ b.kind = a.kind
                BY <2>1, <2>4, <2>6, <3>2
            <4> QED BY <1>1, <4>1 DEF FirstTypes
        <3> QED BY <3>1, <3>2
    <2>9. b.nulls = Cardinality(Without(c, m))
        BY <1>1, <2>1, <2>4
    <2>10. b = [kind |-> b.kind, nulls |-> b.nulls, seen |-> b.seen, distinct |-> b.distinct]
        BY <2>4
    <2> QED BY <2>1, <2>5, <2>7, <2>8, <2>9, <2>10 DEF AccOK
<1> QED BY <1>4, <1>5

\* A column that had no value so far.
LEMMA FreshOK ==
    ASSUME ProfileAssumptions, NEW c, NEW n \in Nat, NEW kind, NEW a, a = Described!Accumulator(kind, n),
           kind = IF format = "parquet" THEN SchemaKind[c] ELSE "none",
           \A i \in 1 .. n : lines[i][c] \notin Described!Values
    PROVE  AccOK(c, a, n)
<1>1. With(c, n) = {} /\ Without(c, n) = 1 .. n /\ First(c, n) = {}
    BY DEF With, Without, First
<1>2. Cardinality(1 .. n) = n /\ Cardinality({}) = 0
    <2>1. n \in Int /\ 1 \in Int
        OBVIOUS
    <2>2. Cardinality(1 .. n) = IF 1 > n THEN 0 ELSE n - 1 + 1
        BY <2>1, FS_Interval
    <2>3. (IF 1 > n THEN 0 ELSE n - 1 + 1) = n
        OBVIOUS
    <2> QED BY <2>2, <2>3, FS_EmptySet
<1>3. a = [kind |-> kind, nulls |-> n, seen |-> 0, distinct |-> {}]
    BY DEF Described!Accumulator
<1>4. TypeOf(FirstTypes(c, n)) = "none"
    BY <1>1 DEF TypeOf, FirstTypes
<1>5. Sample \in Nat
    BY DEF ProfileAssumptions
<1>6. a = [kind |-> a.kind, nulls |-> a.nulls, seen |-> a.seen, distinct |-> a.distinct]
    BY <1>3
<1>7. a.nulls = Cardinality(Without(c, n)) /\ a.distinct = {lines[i][c] : i \in With(c, n)}
    BY <1>1, <1>2, <1>3
<1>8. a.seen = IF Cardinality(With(c, n)) < Sample THEN Cardinality(With(c, n)) ELSE Sample
    BY <1>1, <1>2, <1>3, <1>5
<1> QED BY <1>3, <1>4, <1>6, <1>7, <1>8 DEF AccOK

LEMMA CountsSame ==
    ASSUME UNCHANGED <<format, lines, drop>>, NEW x, NEW n
    PROVE  Counts(x, n)' <=> Counts(x, n)
<1>1. Columns(n)' = Columns(n)
    BY DEF Columns
<1>2. ASSUME NEW c, NEW a PROVE AccOK(c, a, n)' <=> AccOK(c, a, n)
    <2>1. With(c, n)' = With(c, n) /\ Without(c, n)' = Without(c, n)
        BY DEF With, Without
    <2>2. First(c, n)' = First(c, n)
        BY <2>1 DEF First
    <2>3. FirstTypes(c, n)' = FirstTypes(c, n)
        BY <2>2 DEF FirstTypes
    <2> QED BY <2>1, <2>3 DEF AccOK
<1> QED BY <1>1, <1>2 DEF Counts

\* A step of a reader.
LEMMA ProfileTo ==
    ASSUME ProfileInv, UNCHANGED <<format, lines, group, drop, limit>>, ended' = "reading",
           NEW x, acc' = x, NEW n, pos' = n, n \in 0 .. Len(lines), Counts(x, n)
    PROVE  ProfileInv'
<1>1. Counts(x, n)'
    BY CountsSame
<1> QED BY <1>1 DEF ProfileInv, Described!DescribesEveryRow

LEMMA ProfileInitial ==
    ASSUME ProfileAssumptions, Described!Init
    PROVE  ProfileInv
<1>1. lines \in Seq(Rows) /\ Len(lines) \in Nat
    <2>1. PICK n \in 0 .. MaxRows : lines \in [1 .. n -> Rows]
        BY DEF Described!Init
    <2>0. MaxRows \in Nat
        BY DEF ProfileAssumptions
    <2>2. n \in Nat
        BY <2>0, <2>1
    <2>3. lines \in Seq(Rows)
        BY <2>1, <2>2
    <2> QED BY <2>3, LenProperties
<1>2. format \in Described!Formats /\ group \in {1, 2} /\ pos = 0 /\ ended = "reading"
    BY DEF Described!Init
<1>3. limit \in Nat
    <2>1. limit \in (IF format = "json" THEN Limits ELSE {0})
        BY DEF Described!Init
    <2>2. Limits \subseteq Nat
        BY DEF ProfileAssumptions
    <2> QED BY <2>1, <2>2
<1>4. Columns(0) = IF format = "json" THEN {} ELSE Cols \ drop
    BY DEF Columns
<1>5. acc = [c \in Columns(0) |-> Described!Accumulator(IF format = "parquet" THEN SchemaKind[c] ELSE "none", 0)]
    BY <1>4 DEF Described!Init
<1>6. ASSUME NEW c \in Columns(0) PROVE AccOK(c, acc[c], 0)
    <2>1. PICK kind : kind = IF format = "parquet" THEN SchemaKind[c] ELSE "none"
        OBVIOUS
    <2>2. acc[c] = Described!Accumulator(kind, 0)
        BY <1>5, <2>1
    <2>3. \A i \in 1 .. 0 : lines[i][c] \notin Described!Values
        OBVIOUS
    <2> QED BY <2>1, <2>2, <2>3, FreshOK
<1>7. Counts(acc, 0)
    BY <1>5, <1>6 DEF Counts
<1>8. pos \in 0 .. Len(lines)
    BY <1>1, <1>2
<1>9. Described!DescribesEveryRow
    BY <1>2 DEF Described!DescribesEveryRow
<1> QED BY <1>1, <1>2, <1>3, <1>7, <1>8, <1>9 DEF ProfileInv

\* Every row is read by a step that takes the row into each column.
LEMMA ProfileDelimited ==
    ASSUME ProfileAssumptions, ProfileInv, Described!DelimitedRow
    PROVE  ProfileInv'
<1>1. /\ ended = "reading" /\ format = "delimited" /\ pos < Len(lines) /\ pos' = pos + 1
      /\ acc' = [c \in DOMAIN acc |-> Described!Add(acc[c], Described!Row[c])]
      /\ UNCHANGED <<format, lines, group, drop, limit, ended>>
    BY DEF Described!DelimitedRow, Described!Reading, Described!fileVars
<1>2. Counts(acc, pos)
    BY <1>1 DEF ProfileInv
<1>3. PICK n \in Nat : n = pos /\ n \in 0 .. Len(lines) /\ n < Len(lines)
    <2>1. lines \in Seq(Rows) /\ pos \in 0 .. Len(lines)
        BY DEF ProfileInv
    <2> QED BY <1>1, <2>1, LenProperties
<1>4. PICK m : m = n + 1
    OBVIOUS
<1>5. DOMAIN acc = Columns(n) /\ Columns(m) = Columns(n)
    <2>1. acc = [c \in Columns(pos) |-> acc[c]]
        BY <1>2 DEF Counts
    <2>2. Columns(m) = Columns(n)
        BY <1>1 DEF Columns
    <2> QED BY <1>3, <2>1, <2>2
<1>6. PICK x : x = [c \in Columns(m) |-> Described!Add(acc[c], lines[m][c])]
    OBVIOUS
<1>7. acc' = x
    BY <1>1, <1>3, <1>4, <1>5, <1>6 DEF Described!Row
<1>8. ASSUME NEW c \in Columns(m) PROVE AccOK(c, x[c], m)
    <2>1. AccOK(c, acc[c], n)
        BY <1>2, <1>3, <1>5 DEF Counts
    <2>2. PICK a : a = acc[c]
        OBVIOUS
    <2>3. AccOK(c, a, n) /\ x[c] = Described!Add(a, lines[m][c]) /\ format # "parquet"
        BY <1>1, <1>6, <2>1, <2>2
    <2> QED BY <1>4, <2>3, AddOK
<1>9. Counts(x, m)
    BY <1>6, <1>8 DEF Counts
<1>10. m \in 0 .. Len(lines) /\ pos' = m /\ ended' = "reading"
    <2>1. Len(lines) \in Nat
        BY LenProperties DEF ProfileInv
    <2> QED BY <1>1, <1>3, <1>4, <2>1
<1> QED BY <1>1, <1>7, <1>9, <1>10, ProfileTo

LEMMA KnownColumns ==
    ASSUME format = "json", NEW n \in Nat, NEW m, m = n + 1, DOMAIN acc = Columns(n)
    PROVE  Described!Known(lines[m]) = Columns(m)
<1>1. 1 .. m = (1 .. n) \cup {m}
    OBVIOUS
<1> QED BY <1>1 DEF Described!Known, Columns

LEMMA ProfileJson ==
    ASSUME ProfileAssumptions, ProfileInv, Described!JsonRow
    PROVE  ProfileInv'
<1>1. /\ ended = "reading" /\ format = "json" /\ pos < Len(lines) /\ pos' = pos + 1
      /\ acc' = [c \in Described!Known(Described!Row) |->
                    Described!Add(IF c \in DOMAIN acc THEN acc[c] ELSE Described!Accumulator("none", pos), Described!Row[c])]
      /\ UNCHANGED <<format, lines, group, drop, limit, ended>>
    <2>1. pos \in 0 .. Len(lines)
        BY DEF ProfileInv
    <2>2. Described!Backfill(pos + 1) = pos
        BY <2>1 DEF Described!Backfill
    <2> QED BY <2>2 DEF Described!JsonRow, Described!Reading, Described!fileVars
<1>2. Counts(acc, pos)
    BY <1>1 DEF ProfileInv
<1>3. PICK n \in Nat : n = pos /\ n \in 0 .. Len(lines) /\ n < Len(lines)
    <2>1. lines \in Seq(Rows) /\ pos \in 0 .. Len(lines)
        BY DEF ProfileInv
    <2> QED BY <1>1, <2>1, LenProperties
<1>4. PICK m : m = n + 1
    OBVIOUS
<1>5. DOMAIN acc = Columns(n)
    <2>1. acc = [c \in Columns(pos) |-> acc[c]]
        BY <1>2 DEF Counts
    <2> QED BY <1>3, <2>1
<1>6. Described!Row = lines[m] /\ Described!Known(Described!Row) = Columns(m)
    <2>1. Described!Row = lines[m]
        BY <1>3, <1>4 DEF Described!Row
    <2>2. Described!Known(lines[m]) = Columns(m)
        BY <1>1, <1>4, <1>5, KnownColumns
    <2> QED BY <2>1, <2>2
<1>7. PICK x : x = [c \in Columns(m) |->
                       Described!Add(IF c \in Columns(n) THEN acc[c] ELSE Described!Accumulator("none", n), lines[m][c])]
    OBVIOUS
<1>8. acc' = x
    BY <1>1, <1>3, <1>5, <1>6, <1>7
<1>9. ASSUME NEW c \in Columns(m) PROVE AccOK(c, x[c], m)
    <2>1. PICK a : a = IF c \in Columns(n) THEN acc[c] ELSE Described!Accumulator("none", n)
        OBVIOUS
    <2>2. x[c] = Described!Add(a, lines[m][c]) /\ format # "parquet"
        BY <1>1, <1>7, <2>1
    <2>3. AccOK(c, a, n)
        <3>1. CASE c \in Columns(n)
            <4>1. AccOK(c, acc[c], n)
                BY <1>2, <1>3, <3>1 DEF Counts
            <4> QED BY <2>1, <3>1, <4>1
        <3>2. CASE c \notin Columns(n)
            <4>1. c \in Cols \ drop
                BY <1>1 DEF Columns
            <4>2. \A i \in 1 .. n : lines[i][c] = Absent
                BY <1>1, <3>2, <4>1 DEF Columns
            <4>3. \A i \in 1 .. n : lines[i][c] \notin Described!Values
                BY <4>2 DEF ProfileAssumptions
            <4>4. PICK kind : kind = "none"
                OBVIOUS
            <4>5. a = Described!Accumulator(kind, n) /\ kind = IF format = "parquet" THEN SchemaKind[c] ELSE "none"
                BY <2>1, <2>2, <3>2, <4>4
            <4> QED BY <4>3, <4>5, FreshOK
        <3> QED BY <3>1, <3>2
    <2> QED BY <1>4, <2>2, <2>3, AddOK
<1>10. Counts(x, m)
    BY <1>7, <1>9 DEF Counts
<1>11. m \in 0 .. Len(lines) /\ pos' = m /\ ended' = "reading"
    <2>1. Len(lines) \in Nat
        BY LenProperties DEF ProfileInv
    <2> QED BY <1>1, <1>3, <1>4, <2>1
<1> QED BY <1>1, <1>8, <1>10, <1>11, ProfileTo

\* An ending without a description of columns.
LEMMA ProfileEnds ==
    ASSUME ProfileInv, UNCHANGED <<format, lines, group, drop, limit, pos>>, ended' \in {"opaque", "failed"},
           ended' = "opaque" => \/ \E i \in DOMAIN lines : lines[i] = Bad
                                \/ Cardinality(Described!Expected) > limit
    PROVE  ProfileInv'
<1>1. Described!Expected' = Described!Expected
    BY DEF Described!Expected
<1> QED BY <1>1, Counting DEF ProfileInv, Described!DescribesEveryRow

LEMMA ProfileFallback ==
    ASSUME ProfileAssumptions, ProfileInv, Described!Fallback
    PROVE  ProfileInv'
<1>1. /\ ended = "reading" /\ pos < Len(lines) /\ ended' \in {"opaque", "failed"}
      /\ Described!Row = Bad \/ (format = "json" /\ Cardinality(Described!Known(Described!Row)) > limit)
      /\ UNCHANGED <<format, lines, group, drop, limit, pos>>
    BY Counting DEF Described!Fallback, Described!fileVars
<1>2. PICK n \in Nat : n = pos /\ n < Len(lines)
    <2>1. lines \in Seq(Rows) /\ pos \in 0 .. Len(lines)
        BY DEF ProfileInv
    <2> QED BY <1>1, <2>1, LenProperties
<1>3. PICK m \in Nat : m = n + 1
    OBVIOUS
<1>4. Described!Row = lines[m] /\ m \in DOMAIN lines /\ 1 .. m \subseteq DOMAIN lines
    <2>1. lines \in Seq(Rows)
        BY DEF ProfileInv
    <2>2. DOMAIN lines = 1 .. Len(lines) /\ Len(lines) \in Nat
        BY <2>1, LenProperties
    <2> QED BY <1>2, <1>3, <2>2 DEF Described!Row
<1>5. CASE Described!Row = Bad
    BY <1>1, <1>4, <1>5, ProfileEnds
<1>6. CASE format = "json" /\ Cardinality(Described!Known(Described!Row)) > limit
    <2>1. Counts(acc, n)
        BY <1>1, <1>2 DEF ProfileInv
    <2>2. DOMAIN acc = Columns(n)
        BY <2>1 DEF Counts
    <2>3. Described!Known(lines[m]) = Columns(m)
        BY <1>3, <1>6, <2>2, KnownColumns
    <2>4. Columns(m) \subseteq Described!Expected /\ Described!Expected \subseteq Cols
        BY <1>4, <1>6 DEF Columns, Described!Expected
    <2>5. IsFiniteSet(Described!Expected)
        BY <2>4, FS_Subset DEF ProfileAssumptions
    <2>6. IsFiniteSet(Columns(m)) /\ Cardinality(Columns(m)) <= Cardinality(Described!Expected)
        BY <2>4, <2>5, FS_Subset
    <2>7. Cardinality(Columns(m)) \in Nat /\ Cardinality(Described!Expected) \in Nat /\ limit \in Nat
        BY <2>5, <2>6, FS_CardinalityType DEF ProfileInv
    <2>8. Cardinality(Columns(m)) > limit
        BY <1>4, <1>6, <2>3
    <2>9. Cardinality(Described!Expected) > limit
        BY <2>6, <2>7, <2>8
    <2> QED BY <1>1, <2>9, ProfileEnds
<1> QED BY <1>1, <1>5, <1>6

LEMMA ProfileTimeout ==
    ASSUME ProfileInv, Described!Timeout
    PROVE  ProfileInv'
<1>1. ended' = "failed" /\ UNCHANGED <<format, lines, group, drop, limit, pos>>
    BY DEF Described!Timeout, Described!fileVars
<1> QED BY <1>1, ProfileEnds

LEMMA ReadingSame ==
    ASSUME UNCHANGED <<format, lines>>
    PROVE  \A c : /\ Described!WithValue(c)' = Described!WithValue(c) /\ Described!KindOf(c)' = Described!KindOf(c)
                  /\ \A i : Described!CellAt(i, c)' = Described!CellAt(i, c)
BY DEF Described!WithValue, Described!KindOf, Described!CellAt, Described!Sampled

LEMMA ProfileStutter ==
    ASSUME ProfileInv, UNCHANGED Described!vars
    PROVE  ProfileInv'
<1>1. UNCHANGED <<format, lines, group, counted, drop, limit, pos, acc, ended>>
    BY DEF Described!vars
<1>2. ended = "reading" => Counts(acc, pos)'
    <2>1. PICK x : x = acc
        OBVIOUS
    <2>2. PICK n : n = pos
        OBVIOUS
    <2>3. Counts(x, n)' <=> Counts(x, n)
        BY <1>1, CountsSame
    <2> QED BY <1>1, <2>1, <2>2, <2>3 DEF ProfileInv
<1>3. Described!DescribesEveryRow' <=> Described!DescribesEveryRow
    <2>1. /\ Described!Expected' = Described!Expected
          /\ \A c : Described!WithValue(c)' = Described!WithValue(c) /\ Described!KindOf(c)' = Described!KindOf(c)
          /\ \A i, c : Described!CellAt(i, c)' = Described!CellAt(i, c)
        BY <1>1, ReadingSame DEF Described!Expected
    <2> QED BY <1>1, <2>1 DEF Described!DescribesEveryRow
<1> QED BY <1>1, <1>2, <1>3 DEF ProfileInv

\* What a row group adds to a column: its nulls and its values.
GroupNulls(c, n, last) == Cardinality({i \in n + 1 .. last : lines[i][c] \notin Described!Values})
GroupCells(c, n, last) == {lines[i][c] : i \in n + 1 .. last} \cap Described!Values

LEMMA RowsOfGroup ==
    ASSUME NEW c, NEW n \in Nat, NEW last \in Nat, n <= last
    PROVE  /\ Cardinality(Without(c, last)) = Cardinality(Without(c, n)) + GroupNulls(c, n, last)
           /\ {lines[i][c] : i \in With(c, last)} =
                  {lines[i][c] : i \in With(c, n)} \cup GroupCells(c, n, last)
<1>1. PICK Nulls : Nulls = {i \in n + 1 .. last : lines[i][c] \notin Described!Values}
    OBVIOUS
<1>2. 1 .. last = (1 .. n) \cup (n + 1 .. last) /\ (1 .. n) \cap (n + 1 .. last) = {}
    OBVIOUS
<1>3. Without(c, last) = Without(c, n) \cup Nulls /\ Without(c, n) \cap Nulls = {}
    BY <1>1, <1>2 DEF Without
<1>4. IsFiniteSet(Without(c, last)) /\ IsFiniteSet(Without(c, n))
    BY RowsFinite
<1>5. IsFiniteSet(Nulls)
    BY <1>3, <1>4, FS_Subset
<1>6. PICK A : A = Without(c, n)
    OBVIOUS
<1>7. Cardinality(A \cup Nulls) = Cardinality(A) + Cardinality(Nulls) - Cardinality(A \cap Nulls)
    BY <1>4, <1>5, <1>6, FS_Union
<1>8. Cardinality(A \cap Nulls) = 0 /\ Cardinality(A) \in Nat /\ Cardinality(Nulls) \in Nat
    BY <1>3, <1>4, <1>5, <1>6, FS_EmptySet, FS_CardinalityType
<1>9. Cardinality(Without(c, last)) = Cardinality(A) + Cardinality(Nulls)
    BY <1>3, <1>6, <1>7, <1>8
<1>10. {lines[i][c] : i \in With(c, last)} =
           {lines[i][c] : i \in With(c, n)} \cup GroupCells(c, n, last)
    BY <1>2 DEF With, GroupCells
<1>11. GroupNulls(c, n, last) = Cardinality(Nulls)
    BY <1>1 DEF GroupNulls
<1> QED BY <1>6, <1>9, <1>10, <1>11

LEMMA ProfileGroup ==
    ASSUME ProfileAssumptions, ProfileInv, Described!ParquetGroup
    PROVE  ProfileInv'
<1>1. /\ ended = "reading" /\ format = "parquet" /\ pos < Len(lines)
      /\ UNCHANGED <<format, lines, group, drop, limit, ended>>
    BY DEF Described!ParquetGroup, Described!Reading, Described!fileVars
<1>2. Counts(acc, pos)
    BY <1>1 DEF ProfileInv
<1>3. PICK n \in Nat : n = pos /\ n < Len(lines)
    <2>1. lines \in Seq(Rows) /\ pos \in 0 .. Len(lines)
        BY DEF ProfileInv
    <2> QED BY <1>1, <2>1, LenProperties
<1>4. Len(lines) \in Nat /\ group \in {1, 2}
    BY LenProperties DEF ProfileInv
<1>5. PICK last \in Nat : /\ last = IF n + group > Len(lines) THEN Len(lines) ELSE n + group
                          /\ n <= last /\ last <= Len(lines)
    BY <1>3, <1>4
<1>7. PICK x : x = [c \in DOMAIN acc |->
                       [acc[c] EXCEPT !.nulls = @ + GroupNulls(c, n, last),
                                      !.distinct = @ \cup GroupCells(c, n, last)]]
    OBVIOUS
<1>8. pos' = last /\ acc' = x
    <2>1. last = IF pos + group > Len(lines) THEN Len(lines) ELSE pos + group
        BY <1>3, <1>5
    <2>2. \A c : /\ {i \in n + 1 .. last : [j \in n + 1 .. last |-> lines[j][c]][i] \notin Described!Values}
                     = {i \in n + 1 .. last : lines[i][c] \notin Described!Values}
                 /\ {[j \in n + 1 .. last |-> lines[j][c]][i] : i \in n + 1 .. last}
                     = {lines[i][c] : i \in n + 1 .. last}
        OBVIOUS
    <2>3. /\ pos' = last
          /\ acc' = [c \in DOMAIN acc |->
                [acc[c] EXCEPT
                    !.nulls = @ + Cardinality({i \in n + 1 .. last :
                                      [j \in n + 1 .. last |-> lines[j][c]][i] \notin Described!Values}),
                    !.distinct = @ \cup ({[j \in n + 1 .. last |-> lines[j][c]][i] : i \in n + 1 .. last}
                                             \cap Described!Values)]]
        <3>1. PICK m : m = IF pos + group > Len(lines) THEN Len(lines) ELSE pos + group
            OBVIOUS
        <3>2. /\ pos' = m
              /\ acc' = [c \in DOMAIN acc |->
                    [acc[c] EXCEPT
                        !.nulls = @ + Cardinality({i \in pos + 1 .. m :
                                          [j \in pos + 1 .. m |-> lines[j][c]][i] \notin Described!Values}),
                        !.distinct = @ \cup ({[j \in pos + 1 .. m |-> lines[j][c]][i] : i \in pos + 1 .. m}
                                                 \cap Described!Values)]]
            BY <3>1, Counting DEF Described!ParquetGroup
        <3>3. m = last /\ pos = n
            BY <1>3, <2>1, <3>1
        <3> QED BY <3>2, <3>3
    <2> QED BY <1>7, <2>2, <2>3 DEF GroupNulls, GroupCells
<1>9. DOMAIN acc = Columns(n) /\ Columns(last) = Columns(n)
    <2>1. acc = [c \in Columns(pos) |-> acc[c]]
        BY <1>2 DEF Counts
    <2>2. Columns(last) = Columns(n)
        BY <1>1 DEF Columns
    <2> QED BY <1>3, <2>1, <2>2
<1>10. ASSUME NEW c \in Columns(last) PROVE AccOK(c, x[c], last)
    <2>1. AccOK(c, acc[c], n)
        BY <1>2, <1>3, <1>9 DEF Counts
    <2>2. PICK a : a = acc[c]
        OBVIOUS
    <2>3. /\ a = [kind |-> a.kind, nulls |-> a.nulls, seen |-> a.seen, distinct |-> a.distinct]
          /\ a.nulls = Cardinality(Without(c, n)) /\ a.distinct = {lines[i][c] : i \in With(c, n)}
          /\ a.kind = SchemaKind[c]
        BY <1>1, <2>1, <2>2 DEF AccOK
    <2>4. PICK cells : cells = GroupCells(c, n, last)
        OBVIOUS
    <2>5. PICK k : k = GroupNulls(c, n, last)
        OBVIOUS
    <2>6. x[c] = [a EXCEPT !.nulls = @ + k, !.distinct = @ \cup cells]
        BY <1>7, <1>9, <2>2, <2>4, <2>5
    <2>7. x[c] = [kind |-> a.kind, nulls |-> a.nulls + k, seen |-> a.seen, distinct |-> a.distinct \cup cells]
        BY <2>3, <2>6
    <2>9. /\ Cardinality(Without(c, last)) = Cardinality(Without(c, n)) + k
          /\ {lines[i][c] : i \in With(c, last)} = {lines[i][c] : i \in With(c, n)} \cup cells
        BY <1>5, <2>4, <2>5, RowsOfGroup
    <2>10. PICK b : b = x[c]
        OBVIOUS
    <2>11. /\ b = [kind |-> b.kind, nulls |-> b.nulls, seen |-> b.seen, distinct |-> b.distinct]
           /\ b.nulls = a.nulls + k /\ b.distinct = a.distinct \cup cells /\ b.kind = a.kind
        BY <2>7, <2>10
    <2>12. AccOK(c, b, last)
        BY <1>1, <2>3, <2>9, <2>11 DEF AccOK
    <2> QED BY <2>10, <2>12
<1>11. Counts(x, last)
    <2>1. x = [c \in Columns(last) |-> x[c]]
        BY <1>7, <1>9
    <2> QED BY <1>10, <2>1 DEF Counts
<1>12. last \in 0 .. Len(lines)
    BY <1>4, <1>5
<1> QED BY <1>1, <1>8, <1>11, <1>12, ProfileTo

\* The rate is within half a step of five per cent.
LEMMA RateIsNear ==
    ASSUME NEW k \in Nat, NEW n \in Nat, n # 0
    PROVE  /\ 2 * (Described!NullRate(k, n) * n - 100 * k) <= 5 * n
           /\ 2 * (Described!NullRate(k, n) * n - 100 * k) > -5 * n
<1>1. PICK x \in Nat : x = 40 * k + n
    OBVIOUS
<1>2. PICK d \in Nat : d = 2 * n /\ d > 0
    OBVIOUS
<1>3. PICK q \in Int : q = x \div d /\ d * q <= x /\ x < d * q + d
    <2>1. x \div d \in Int /\ d * (x \div d) <= x
        BY <1>2
    <2>2. x < d * (x \div d) + d
        BY <1>2
    <2> QED BY <2>1, <2>2
<1>4. PICK p \in Int : p = q * n /\ d * q = 2 * p
    BY <1>2
<1>5. 2 * p <= 40 * k + n /\ 40 * k + n < 2 * p + 2 * n
    BY <1>1, <1>2, <1>3, <1>4
<1>6. Described!NullRate(k, n) = 5 * q
    BY <1>1, <1>2, <1>3 DEF Described!NullRate
<1>7. Described!NullRate(k, n) * n = 5 * p
    BY <1>4, <1>6
<1> QED BY <1>5, <1>7

\* The property's own reading of the file, in terms of the rows.
LEMMA WholeFile ==
    ASSUME ProfileAssumptions, lines \in Seq(Rows), NEW L \in Nat, L = Len(lines)
    PROVE  /\ DOMAIN lines = 1 .. L
           /\ \A c : /\ Described!WithValue(c) = With(c, L) /\ Described!Sampled(c) = First(c, L)
                     /\ \A i \in With(c, L) : Described!CellAt(i, c) = lines[i][c]
                     /\ L - Cardinality(Described!WithValue(c)) = Cardinality(Without(c, L))
<1>1. DOMAIN lines = 1 .. L
    BY LenProperties
<1>2. ASSUME NEW c
      PROVE  /\ Described!WithValue(c) = With(c, L) /\ Described!Sampled(c) = First(c, L)
             /\ \A i \in With(c, L) : Described!CellAt(i, c) = lines[i][c]
             /\ L - Cardinality(Described!WithValue(c)) = Cardinality(Without(c, L))
    <2>1. Described!WithValue(c) = With(c, L)
        BY <1>1 DEF Described!WithValue, With, Described!CellAt, ProfileAssumptions
    <2>2. Described!Sampled(c) = First(c, L)
        BY <2>1, Counting DEF Described!Sampled, First
    <2>3. \A i \in With(c, L) : Described!CellAt(i, c) = lines[i][c]
        BY DEF With, Described!CellAt
    <2>4. PICK A : A = With(c, L)
        OBVIOUS
    <2>5. PICK B : B = Without(c, L)
        OBVIOUS
    <2>6. A \cup B = 1 .. L /\ A \cap B = {}
        BY <2>4, <2>5 DEF With, Without
    <2>7. IsFiniteSet(A) /\ IsFiniteSet(B) /\ Cardinality(A) \in Nat /\ Cardinality(B) \in Nat
        BY <2>4, <2>5, RowsFinite
    <2>8. Cardinality(A \cup B) = Cardinality(A) + Cardinality(B) - Cardinality(A \cap B)
        BY <2>7, FS_Union
    <2>9. Cardinality(A \cap B) = 0
        BY <2>6, FS_EmptySet
    <2>10. Cardinality(1 .. L) = L
        <3>1. L \in Int /\ 1 \in Int
            OBVIOUS
        <3>2. Cardinality(1 .. L) = IF 1 > L THEN 0 ELSE L - 1 + 1
            BY <3>1, FS_Interval
        <3>3. (IF 1 > L THEN 0 ELSE L - 1 + 1) = L
            OBVIOUS
        <3> QED BY <3>2, <3>3
    <2>11. L = Cardinality(A) + Cardinality(B)
        <3>1. L = Cardinality(A) + Cardinality(B) - 0
            BY <2>6, <2>8, <2>9, <2>10
        <3> QED BY <2>7, <3>1
    <2> QED BY <2>1, <2>2, <2>3, <2>4, <2>5, <2>7, <2>11
<1> QED BY <1>1, <1>2

\* A column without a value is a string.
LEMMA KindOfTypes ==
    ASSUME ProfileAssumptions, lines \in Seq(Rows), NEW L \in Nat, L = Len(lines), NEW c, format # "parquet"
    PROVE  Described!KindOf(c) = IF TypeOf(FirstTypes(c, L)) = "none" THEN "string" ELSE TypeOf(FirstTypes(c, L))
<1>1. PICK kinds : kinds = FirstTypes(c, L)
    OBVIOUS
<1>2. {Infer[Described!CellAt(i, c)] : i \in Described!Sampled(c)} = kinds
    <2>1. Described!Sampled(c) = First(c, L) /\ \A i \in First(c, L) : Described!CellAt(i, c) = lines[i][c]
        BY WholeFile DEF First
    <2> QED BY <1>1, <2>1 DEF FirstTypes
<1>3. Described!KindOf(c) = IF \E k \in kinds : kinds = {k} THEN CHOOSE k \in kinds : TRUE
                  ELSE IF kinds = {"integer", "float"} THEN "float" ELSE "string"
    BY <1>2 DEF Described!KindOf
<1>4. "none" \notin kinds
    BY <1>1 DEF FirstTypes, First, With, ProfileAssumptions
<1>5. CASE kinds = {}
    BY <1>1, <1>3, <1>5, TypeOfCases
<1>6. ASSUME NEW k, kinds = {k}
      PROVE  Described!KindOf(c) = IF TypeOf(FirstTypes(c, L)) = "none" THEN "string" ELSE TypeOf(FirstTypes(c, L))
    <2>1. TypeOf(kinds) = k /\ k # "none"
        BY <1>4, <1>6, TypeOfCases
    <2>2. PICK j : j = CHOOSE i \in kinds : TRUE
        OBVIOUS
    <2>3. j = k
        BY <1>6, <2>2
    <2>4. Described!KindOf(c) = k
        BY <1>3, <1>6, <2>2, <2>3
    <2> QED BY <1>1, <2>1, <2>4
<1>7. CASE kinds = {"integer", "float"}
    <2>1. ~ \E k \in kinds : kinds = {k}
        <3>1. "integer" \in kinds /\ "float" \in kinds /\ "integer" # "float"
            BY <1>7
        <3> QED BY <3>1
    <2>2. TypeOf(kinds) = "float"
        BY <1>7, TypeOfCases
    <2> QED BY <1>1, <1>3, <1>7, <2>1, <2>2
<1>8. CASE kinds # {} /\ kinds # {"integer", "float"} /\ \A k : kinds # {k}
    <2>1. TypeOf(kinds) = "string"
        BY <1>8, TypeOfCases
    <2> QED BY <1>1, <1>3, <1>8, <2>1
<1> QED BY <1>5, <1>6, <1>7, <1>8

LEMMA ProfileDescribed ==
    ASSUME ProfileAssumptions, ProfileInv, Described!Describe
    PROVE  ProfileInv'
<1>1. /\ ended = "reading" /\ pos = Len(lines) /\ ended' = "described"
      /\ acc' = [c \in DOMAIN acc |->
                    [acc[c] EXCEPT !.kind = IF @ = "none" THEN "string" ELSE @,
                                   !.nulls = IF format = "parquet" THEN Described!FooterNulls(c) ELSE @]]
      /\ UNCHANGED <<format, lines, group, drop, limit, pos>>
    BY DEF Described!Describe, Described!fileVars
<1>2. lines \in Seq(Rows) /\ Counts(acc, pos)
    BY <1>1 DEF ProfileInv
<1>3. PICK L \in Nat : L = Len(lines)
    BY <1>2, LenProperties
<1>4. /\ DOMAIN lines = 1 .. L
      /\ \A c : /\ Described!WithValue(c) = With(c, L) /\ Described!Sampled(c) = First(c, L)
                /\ \A i \in With(c, L) : Described!CellAt(i, c) = lines[i][c]
                /\ L - Cardinality(Described!WithValue(c)) = Cardinality(Without(c, L))
    BY <1>2, <1>3, WholeFile
<1>5. DOMAIN acc = Described!Expected
    <2>1. DOMAIN acc = Columns(L)
        BY <1>1, <1>2, <1>3 DEF Counts
    <2>2. Columns(L) = Described!Expected
        BY <1>4 DEF Columns, Described!Expected
    <2> QED BY <2>1, <2>2
<1>6. PICK x : x = acc'
    OBVIOUS
<1>7. DOMAIN x = Described!Expected
    BY <1>1, <1>5, <1>6
<1>8. ASSUME NEW c \in DOMAIN x
      PROVE  /\ x[c].kind = Described!KindOf(c)
             /\ x[c].distinct = {Described!CellAt(i, c) : i \in Described!WithValue(c)}
             /\ x[c].nulls = Cardinality(Without(c, L))
    <2>1. PICK a : a = acc[c]
        OBVIOUS
    <2>2. AccOK(c, a, L)
        BY <1>1, <1>2, <1>3, <1>5, <1>7, <2>1 DEF Counts
    <2>3. /\ a = [kind |-> a.kind, nulls |-> a.nulls, seen |-> a.seen, distinct |-> a.distinct]
          /\ a.nulls = Cardinality(Without(c, L)) /\ a.distinct = {lines[i][c] : i \in With(c, L)}
          /\ IF format = "parquet" THEN a.kind = SchemaKind[c] ELSE a.kind = TypeOf(FirstTypes(c, L))
        BY <2>2 DEF AccOK
    <2>4. PICK nulls : nulls = IF format = "parquet" THEN Described!FooterNulls(c) ELSE a.nulls
        OBVIOUS
    <2>5. x[c] = [a EXCEPT !.kind = IF @ = "none" THEN "string" ELSE @, !.nulls = nulls]
        BY <1>1, <1>5, <1>6, <1>7, <2>1, <2>4
    <2>6. x[c] = [kind |-> IF a.kind = "none" THEN "string" ELSE a.kind, nulls |-> nulls,
                  seen |-> a.seen, distinct |-> a.distinct]
        BY <2>3, <2>5
    <2>7. nulls = Cardinality(Without(c, L))
        <3>1. {i \in DOMAIN lines : lines[i][c] \notin Described!Values} = Without(c, L)
            BY <1>4 DEF Without
        <3> QED BY <2>1, <2>3, <2>4, <3>1, Counting DEF Described!FooterNulls
    <2>8. {Described!CellAt(i, c) : i \in Described!WithValue(c)} = {lines[i][c] : i \in With(c, L)}
        BY <1>4
    <2>9. Described!KindOf(c) = IF a.kind = "none" THEN "string" ELSE a.kind
        <3>1. CASE format = "parquet"
            <4>1. c \in Cols
                BY <1>7, <3>1 DEF Described!Expected
            <4>2. SchemaKind[c] # "none"
                BY <4>1 DEF ProfileAssumptions
            <4> QED BY <2>3, <3>1, <4>2 DEF Described!KindOf
        <3>2. CASE format # "parquet"
            BY <1>2, <1>3, <2>3, <3>2, KindOfTypes
        <3> QED BY <3>1, <3>2
    <2> QED BY <2>3, <2>6, <2>7, <2>8, <2>9
<1>9. ASSUME lines # <<>>, NEW c \in DOMAIN x
      PROVE  Near(Described!NullRate(x[c].nulls, L), L, L - Cardinality(Described!WithValue(c)))
    <2>1. L # 0
        BY <1>2, <1>3, <1>9, EmptySeq
    <2>2. PICK k \in Nat : k = Cardinality(Without(c, L))
        BY RowsFinite
    <2>3. x[c].nulls = k /\ L - Cardinality(Described!WithValue(c)) = k
        BY <1>4, <1>8, <2>2
    <2>4. Near(Described!NullRate(k, L), L, k)
        BY <2>1, RateIsNear DEF Near
    <2> QED BY <2>3, <2>4
<1>10. \A c : /\ Described!WithValue(c)' = Described!WithValue(c) /\ Described!KindOf(c)' = Described!KindOf(c)
              /\ \A i : Described!CellAt(i, c)' = Described!CellAt(i, c)
    BY <1>1, ReadingSame
<1>11. Described!Expected' = Described!Expected
    BY <1>1 DEF Described!Expected
<1>12. Described!DescribesEveryRow'
    <2>1. DOMAIN acc' = Described!Expected'
        BY <1>6, <1>7, <1>11
    <2>2. ASSUME NEW c \in DOMAIN acc'
          PROVE  /\ acc'[c].kind = Described!KindOf(c)'
                 /\ acc'[c].distinct = {Described!CellAt(i, c)' : i \in Described!WithValue(c)'}
                 /\ lines' # <<>> =>
                      Near(Described!NullRate(acc'[c].nulls, Len(lines')), Len(lines'), Len(lines') - Cardinality(Described!WithValue(c)'))
        <3>1. c \in DOMAIN x /\ lines' = lines /\ Len(lines') = L
            BY <1>1, <1>3, <1>6
        <3>2. {Described!CellAt(i, c)' : i \in Described!WithValue(c)'} = {Described!CellAt(i, c) : i \in Described!WithValue(c)}
            BY <1>10
        <3>3. Described!WithValue(c)' = Described!WithValue(c) /\ Described!KindOf(c)' = Described!KindOf(c) /\ acc'[c] = x[c]
            BY <1>6, <1>10
        <3>4. acc'[c].kind = Described!KindOf(c)'
            BY <1>8, <3>1, <3>3
        <3>5. acc'[c].distinct = {Described!CellAt(i, c)' : i \in Described!WithValue(c)'}
            BY <1>8, <3>1, <3>2, <3>3
        <3>6. lines' # <<>> =>
                 Near(Described!NullRate(x[c].nulls, L), L, L - Cardinality(Described!WithValue(c)))
            BY <1>9, <3>1
        <3>7. lines' # <<>> =>
                 Near(Described!NullRate(acc'[c].nulls, Len(lines')), Len(lines'), Len(lines') - Cardinality(Described!WithValue(c)'))
            BY <3>1, <3>3, <3>6
        <3> QED BY <3>4, <3>5, <3>7
    <2>3. ASSUME NEW c \in DOMAIN acc'
          PROVE  LET without == Len(lines') - Described!Cardinality(Described!WithValue(c)')
                 IN  /\ acc'[c].kind = Described!KindOf(c)'
                     /\ acc'[c].distinct = {Described!CellAt(i, c)' : i \in Described!WithValue(c)'}
                     /\ lines' # <<>> =>
                          LET off == Described!NullRate(acc'[c].nulls, Len(lines')) * Len(lines') - 100 * without
                          IN  2 * off <= 5 * Len(lines') /\ 2 * off > -5 * Len(lines')
        <3>1. Cardinality(Described!WithValue(c)') = Described!Cardinality(Described!WithValue(c)')
            BY Counting
        <3>2. lines' # <<>> =>
                 Near(Described!NullRate(acc'[c].nulls, Len(lines')), Len(lines'), Len(lines') - Described!Cardinality(Described!WithValue(c)'))
            BY <2>2, <3>1
        <3>3. lines' # <<>> =>
                 LET off == Described!NullRate(acc'[c].nulls, Len(lines')) * Len(lines')
                            - 100 * (Len(lines') - Described!Cardinality(Described!WithValue(c)'))
                 IN  2 * off <= 5 * Len(lines') /\ 2 * off > -5 * Len(lines')
            BY <3>2 DEF Near
        <3> QED BY <2>2, <3>3, Zenon
    <2>4. ended' = "described" /\ ended' # "opaque"
        BY <1>1
    <2> QED BY <2>1, <2>3, <2>4, Zenon DEF Described!DescribesEveryRow
<1> QED BY <1>1, <1>12 DEF ProfileInv

\* The columns of a description are those of the file, their types and values
\* are those of every row read, and the null rates are near, whatever the order
\* of the rows and wherever a column first appears (profile.go).
THEOREM DescriptionsAreOfEveryRow ==
    ASSUME ProfileAssumptions
    PROVE  Described!Spec => []Described!DescribesEveryRow
<1>1. Described!Init => ProfileInv
    BY ProfileInitial
<1>2. ProfileInv /\ [Described!Next]_(Described!vars) => ProfileInv'
    <2> SUFFICES ASSUME ProfileInv, [Described!Next]_(Described!vars) PROVE ProfileInv'
        OBVIOUS
    <2>1. CASE Described!DelimitedRow
        BY <2>1, ProfileDelimited
    <2>2. CASE Described!JsonRow
        BY <2>2, ProfileJson
    <2>3. CASE Described!Fallback
        BY <2>3, ProfileFallback
    <2>4. CASE Described!ParquetGroup
        BY <2>4, ProfileGroup
    <2>5. CASE Described!Describe
        BY <2>5, ProfileDescribed
    <2>6. CASE Described!Timeout
        BY <2>6, ProfileTimeout
    <2>7. CASE UNCHANGED Described!vars
        BY <2>7, ProfileStutter
    <2> QED BY <2>1, <2>2, <2>3, <2>4, <2>5, <2>6, <2>7 DEF Described!Next
<1>3. ProfileInv => Described!DescribesEveryRow
    BY DEF ProfileInv
<1> QED BY <1>1, <1>2, <1>3, PTL DEF Described!Spec

-----------------------------------------------------------------------------
(* A behaviour of Parts is one of a single part *)

LEMMA PartStays == [PartsNext]_partsVars => part' = part
BY DEF PartsNext, partsVars

LEMMA VolumeRuns ==
    /\ PartsInit /\ part = "volume" => Init
    /\ part = "volume" /\ [PartsNext]_partsVars => [Next]_vars
BY DEF PartsInit, PartsNext, partsVars

LEMMA SecretRuns ==
    /\ PartsInit /\ part = "secret" => Secret!Init
    /\ part = "secret" /\ [PartsNext]_partsVars => [Secret!Next]_(Secret!vars)
BY DEF PartsInit, PartsNext, partsVars, ofSecret, Secret!vars

LEMMA ReaderRuns ==
    /\ PartsInit /\ part = "reader" => Reader!Init
    /\ part = "reader" /\ [PartsNext]_partsVars => [Reader!Next]_(Reader!vars)
BY DEF PartsInit, PartsNext, partsVars, ofReader, Reader!vars

LEMMA RecordsRun ==
    /\ PartsInit /\ part = "inventory" => Records!Init
    /\ part = "inventory" /\ [PartsNext]_partsVars => [Records!Next]_(Records!vars)
BY DEF PartsInit, PartsNext, partsVars, ofRecords, Records!vars

LEMMA DescribedRuns ==
    /\ PartsInit /\ part = "profile" => Described!Init
    /\ part = "profile" /\ [PartsNext]_partsVars => [Described!Next]_(Described!vars)
BY DEF PartsInit, PartsNext, partsVars, ofDescribed, Described!vars

LEMMA TableScanRuns ==
    /\ PartsInit /\ part = "scanner" => TableScan!Init
    /\ part = "scanner" /\ [PartsNext]_partsVars => [TableScan!Next]_(TableScan!vars)
BY DEF PartsInit, PartsNext, partsVars, ofTableScan, TableScan!vars

LEMMA FragmentsRun ==
    /\ PartsInit /\ part = "fragments" => Frag!Init
    /\ part = "fragments" /\ [PartsNext]_partsVars => [Frag!Next]_(Frag!vars)
BY DEF PartsInit, PartsNext, partsVars, ofFragments, Frag!vars, Frag!tables, Frag!volatile

\* Each theorem below follows from the one about the specification of the part:
\* a behaviour of Parts in which the part runs is a behaviour of the part.
\* What names a gateway or a runner is kept: a volume has one identity and one
\* pair of keys whatever starts and crashes, and one acknowledged runner until
\* the host crashes (pairing.go, keys.go); the invocations of a hosted verifier
\* work with one key and as one runner however they overlap, and a readable
\* secret has every rotation that was recorded (bootstrap.go: Bootstrap, Rotate).
THEOREM PartsKeepIdentity == PartsSpec => []IdentityKept
<1>1. Spec => []VolumeKeepsIdentity
    BY VolumeAssumption, IdentityIsKept DEF NoneIsNoValue, Bindings, Values
<1>2. PartsInit /\ part = "volume" => Init
    BY VolumeRuns
<1>3. part = "volume" /\ [PartsNext]_partsVars => [Next]_vars /\ (part = "volume")'
    BY VolumeRuns, PartStays
<1>4. ~(part = "volume") /\ [PartsNext]_partsVars => ~(part = "volume")'
    BY PartStays
<1>5. part = "secret" /\ [PartsNext]_partsVars => [Secret!Next]_(Secret!vars) /\ (part = "secret")'
    BY SecretRuns, PartStays
<1>6. PartsInit /\ part = "secret" => Secret!Init
    BY SecretRuns
<1>7. ~(part = "secret") /\ [PartsNext]_partsVars => ~(part = "secret")'
    BY PartStays
<1>8. IdentityKept <=> (part = "volume" => VolumeKeepsIdentity) /\ (part = "secret" => Secret!KeyHistoryKept)
    BY DEF IdentityKept
<1> QED BY <1>1, <1>2, <1>3, <1>4, <1>5, <1>6, <1>7, <1>8, KeyHistoryIsKept, PTL DEF PartsSpec, Spec, Secret!Spec

\* A reader of a cloud source gives bytes of the signed object only, in order from
\* the place asked for, and one that ends without an error gives all there are
\* (s3.go: ReadAt; reader.go: ReadAt, fullReader.Read).
THEOREM PartsReadPinnedBytes == PartsSpec => []ReadsPinnedBytes
<1>1. Reader!Spec => []Reader!ReadsPinnedBytes
    BY ReaderAssumption, ReadsOnlyThePin
<1>2. PartsInit /\ part = "reader" => Reader!Init
    BY ReaderRuns
<1>3. part = "reader" /\ [PartsNext]_partsVars => [Reader!Next]_(Reader!vars) /\ (part = "reader")'
    BY ReaderRuns, PartStays
<1>4. ~(part = "reader") /\ [PartsNext]_partsVars => ~(part = "reader")'
    BY PartStays
<1>5. ReadsPinnedBytes <=> (part = "reader" => Reader!ReadsPinnedBytes)
    BY DEF ReadsPinnedBytes
<1> QED BY <1>1, <1>2, <1>3, <1>4, <1>5, PTL DEF PartsSpec, Reader!Spec

\* A record the next scan would reuse without reading has the hash of the content,
\* and the backend was told what the records say, unless scans overlapped or an
\* append failed (inventory.go: scan; gateway.go: Scan, Open).
THEOREM PartsKeepRecordsCurrent == PartsSpec => []InventoryCurrent
<1>1. Records!Spec => []Records!InventoryCurrent
    BY RecordsAssumption, RecordsAreCurrent DEF NoneIsNoRecord, Hash, FileType, Known
<1>2. PartsInit /\ part = "inventory" => Records!Init
    BY RecordsRun
<1>3. part = "inventory" /\ [PartsNext]_partsVars => [Records!Next]_(Records!vars) /\ (part = "inventory")'
    BY RecordsRun, PartStays
<1>4. ~(part = "inventory") /\ [PartsNext]_partsVars => ~(part = "inventory")'
    BY PartStays
<1>5. InventoryCurrent <=> (part = "inventory" => Records!InventoryCurrent)
    BY DEF InventoryCurrent
<1> QED BY <1>1, <1>2, <1>3, <1>4, <1>5, PTL DEF PartsSpec, Records!Spec

\* A description has the columns of the file and, over all its rows, their types,
\* distinct values and null rates; a file that can be described is not called
\* opaque (profile.go: add, NullRate, describe, jsonLines, parquetFile).
THEOREM PartsDescribeEveryRow == PartsSpec => []DescribesEveryRow
<1>1. Described!Spec => []Described!DescribesEveryRow
    BY DescribedAssumption, DescriptionsAreOfEveryRow DEF ProfileAssumptions
<1>2. PartsInit /\ part = "profile" => Described!Init
    BY DescribedRuns
<1>3. part = "profile" /\ [PartsNext]_partsVars => [Described!Next]_(Described!vars) /\ (part = "profile")'
    BY DescribedRuns, PartStays
<1>4. ~(part = "profile") /\ [PartsNext]_partsVars => ~(part = "profile")'
    BY PartStays
<1>5. DescribesEveryRow <=> (part = "profile" => Described!DescribesEveryRow)
    BY DEF DescribesEveryRow
<1> QED BY <1>1, <1>2, <1>3, <1>4, <1>5, PTL DEF PartsSpec, Described!Spec

\* Published facts describe one content of every member, the declared one when
\* there is one, although the member is read twice and may be written to; text
\* is refused as unsupported only for what was declared (scanner.go: prepare,
\* scanTables).
THEOREM PartsTellOfOneContent == PartsSpec => []FactsOfOneContent
<1>1. TableScan!Spec => []TableScan!FactsOfOneContent
    BY TableScanAssumption, TablesAreOfOneContent DEF ListingsHaveMembers, CellsHaveKinds
<1>2. PartsInit /\ part = "scanner" => TableScan!Init
    BY TableScanRuns
<1>3. part = "scanner" /\ [PartsNext]_partsVars => [TableScan!Next]_(TableScan!vars) /\ (part = "scanner")'
    BY TableScanRuns, PartStays
<1>4. ~(part = "scanner") /\ [PartsNext]_partsVars => ~(part = "scanner")'
    BY PartStays
<1>5. FactsOfOneContent <=> (part = "scanner" => TableScan!FactsOfOneContent)
    BY DEF FactsOfOneContent
<1> QED BY <1>1, <1>2, <1>3, <1>4, <1>5, PTL DEF PartsSpec, TableScan!Spec

\* However many isolated reservations are admitted side by side, the coverage of a
\* file of any size never has more intervals than the bound and one: FragmentsBounded
\* of TransferLedgerProofs (ledger.go: Reserve, Progress).
THEOREM PartsBoundFragments == PartsSpec => []CoverageBounded
<1>1. Frag!Spec => []Frag!CoverageBounded
    <2>1. Frag!IsFiniteSet(Req)
        BY FragmentsAssumption DEF Frag!IsFiniteSet, IsFiniteSet
    <2> QED BY <2>1, FragmentsAssumption, Frag!FragmentsBounded
<1>2. PartsInit /\ part = "fragments" => Frag!Init
    BY FragmentsRun
<1>3. part = "fragments" /\ [PartsNext]_partsVars => [Frag!Next]_(Frag!vars) /\ (part = "fragments")'
    BY FragmentsRun, PartStays
<1>4. ~(part = "fragments") /\ [PartsNext]_partsVars => ~(part = "fragments")'
    BY PartStays
<1>5. CoverageBounded <=> (part = "fragments" => Frag!CoverageBounded)
    BY DEF CoverageBounded
<1> QED BY <1>1, <1>2, <1>3, <1>4, <1>5, PTL DEF PartsSpec, Frag!Spec
=============================================================================
