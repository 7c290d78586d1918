------------------------ MODULE ReceiptDeliveryProofs ------------------------
(***************************************************************************)
(* Safety of ReceiptDelivery, and its refinement of OrderedDelivery, for   *)
(* every number of receipts, other entries and faults.                     *)
(***************************************************************************)
EXTENDS ReceiptDelivery, FiniteSetTheorems, TLAPS

-----------------------------------------------------------------------------
(* Rank and Recorded *)

LEMMA ReceiptsFinite ==
    ASSUME NEW s, NEW k \in Nat
    PROVE  IsFiniteSet({i \in 1 .. k : IsReceipt(s[i])})
<1>1. {i \in 1 .. k : IsReceipt(s[i])} \in SUBSET (1 .. k)
    OBVIOUS
<1>2. IsFiniteSet(1 .. k)
    BY FS_Interval
<1> QED BY <1>1, <1>2, FS_Subset

LEMMA RankType ==
    ASSUME NEW s, NEW k \in Nat
    PROVE  Rank(s, k) \in 0 .. k
<1>1. IsFiniteSet(1 .. k) /\ Cardinality(1 .. k) = k
    BY FS_Interval
<1>2. {i \in 1 .. k : IsReceipt(s[i])} \in SUBSET (1 .. k)
    OBVIOUS
<1> QED BY <1>1, <1>2, FS_Subset, FS_CardinalityType DEF Rank

\* A receipt counts one, any other entry nothing.
LEMMA RankStep ==
    ASSUME NEW s, NEW k \in Nat
    PROVE  Rank(s, k + 1) = Rank(s, k) + IF IsReceipt(s[k + 1]) THEN 1 ELSE 0
<1> DEFINE R(n) == {i \in 1 .. n : IsReceipt(s[i])}
<1>1. IsFiniteSet(R(k))
    BY ReceiptsFinite
<1>2. CASE IsReceipt(s[k + 1])
  <2>1. R(k + 1) = R(k) \cup {k + 1} /\ k + 1 \notin R(k)
      BY <1>2
  <2> QED BY <1>1, <1>2, <2>1, FS_AddElement DEF Rank
<1>3. CASE ~IsReceipt(s[k + 1])
  <2>1. R(k + 1) = R(k)
      BY <1>3
  <2> QED BY <1>3, <2>1, RankType DEF Rank
<1> QED BY <1>2, <1>3

LEMMA RankGrows ==
    ASSUME NEW s, NEW k \in Nat, NEW m \in Nat, k <= m
    PROVE  Rank(s, k) <= Rank(s, m)
<1>1. {i \in 1 .. k : IsReceipt(s[i])} \in SUBSET {i \in 1 .. m : IsReceipt(s[i])}
    OBVIOUS
<1>2. IsFiniteSet({i \in 1 .. m : IsReceipt(s[i])})
    BY ReceiptsFinite
<1> QED BY <1>1, <1>2, FS_Subset DEF Rank

LEMMA RankRises ==
    ASSUME NEW s, NEW k \in Nat, NEW m \in Nat, k < m, IsReceipt(s[m])
    PROVE  Rank(s, k) < Rank(s, m)
<1>1. m - 1 \in Nat /\ k <= m - 1 /\ (m - 1) + 1 = m
    OBVIOUS
<1>2. Rank(s, m) = Rank(s, m - 1) + 1
    BY <1>1, RankStep
<1>3. Rank(s, k) <= Rank(s, m - 1)
    BY <1>1, RankGrows
<1> QED BY <1>1, <1>2, <1>3, RankType

\* Rank looks at the first k entries only.
LEMMA RankAgrees ==
    ASSUME NEW s, NEW t, NEW k \in Nat, \A i \in 1 .. k : s[i] = t[i]
    PROVE  Rank(s, k) = Rank(t, k)
BY DEF Rank

\* In a sequence in which every receipt says its own rank no receipt is
\* repeated.
LEMMA LoggedOnce ==
    ASSUME NEW s \in Seq(Entry),
           \A k \in 1 .. Len(s) : IsReceipt(s[k]) => s[k] = Rank(s, k),
           NEW k \in 1 .. Len(s), NEW m \in 1 .. Len(s), IsReceipt(s[k]), s[k] = s[m]
    PROVE  k = m
<1>1. Rank(s, k) = Rank(s, m) /\ Rank(s, k) \in Nat
    BY RankType
<1>2. ~(k < m)
    BY <1>1, RankRises
<1>3. ~(m < k)
    BY <1>1, RankRises
<1> QED BY <1>2, <1>3

\* A sequence in which every receipt says its own rank records 1, 2, ...
LEMMA RecordedInOrder ==
    ASSUME NEW s \in Seq(Entry), NEW t \in Seq(Entry), Len(t) <= Len(s),
           \A k \in 1 .. Len(t) : t[k] = s[k],
           \A k \in 1 .. Len(s) : IsReceipt(s[k]) => s[k] = Rank(s, k),
           \A r \in 1 .. Rank(s, Len(s)) : \E k \in 1 .. Len(s) : s[k] = r
    PROVE  Recorded(t) = [n \in 1 .. Rank(s, Len(t)) |-> n]
<1>1. Len(s) \in Nat /\ Len(t) \in Nat
    OBVIOUS
<1>2. ASSUME NEW k \in 0 .. Len(t) PROVE Rank(t, k) = Rank(s, k)
  <2>1. \A i \in 1 .. k : t[i] = s[i]
      BY <1>1
  <2> QED BY <1>1, <2>1, RankAgrees
<1>3. ASSUME NEW n \in 1 .. Rank(s, Len(t))
      PROVE  t[CHOOSE k \in 1 .. Len(t) : IsReceipt(t[k]) /\ Rank(t, k) = n] = n
  <2>1. /\ Rank(s, Len(t)) <= Rank(s, Len(s))
        /\ Rank(s, Len(t)) \in Nat /\ Rank(s, Len(s)) \in Nat
      BY <1>1, RankGrows, RankType
  <2>2. PICK k \in 1 .. Len(s) : s[k] = n
      BY <2>1
  <2>3. IsReceipt(s[k]) /\ Rank(s, k) = n
      BY <2>2 DEF IsReceipt, Other
  <2>4. k <= Len(t)
    <3>1. Rank(s, Len(t)) < Rank(s, k) \/ k <= Len(t)
        BY <1>1, <2>3, RankRises
    <3> QED BY <2>1, <2>3, <3>1
  <2>5. k \in 1 .. Len(t) /\ IsReceipt(t[k]) /\ Rank(t, k) = n
      BY <1>1, <1>2, <2>3, <2>4
  <2>6. PICK c \in 1 .. Len(t) :
            /\ c = CHOOSE j \in 1 .. Len(t) : IsReceipt(t[j]) /\ Rank(t, j) = n
            /\ IsReceipt(t[c]) /\ Rank(t, c) = n
      BY <2>5
  <2>7. c \in 1 .. Len(s) /\ c \in 0 .. Len(t)
      BY <1>1
  <2>8. t[c] = Rank(s, c) /\ Rank(t, c) = Rank(s, c)
      BY <1>2, <2>6, <2>7
  <2> QED BY <2>6, <2>8
<1>4. Rank(t, Len(t)) = Rank(s, Len(t))
    BY <1>1, <1>2
<1> QED BY <1>3, <1>4 DEF Recorded

-----------------------------------------------------------------------------
(* The inductive invariant *)

Logged == Rank(log, Len(log))

TypeInv ==
    /\ queued \in 0 .. MaxReceipts
    /\ audited \in [Receipts -> Nat]
    /\ sentAt \subseteq Receipts
    /\ log \in Seq(Entry) /\ held \in Seq(Entry)
    /\ tail \in {Nothing, Torn} \cup Entry
    /\ up \in BOOLEAN /\ failed \in BOOLEAN /\ conn \in BOOLEAN
    /\ unmarked \in [receipt : {0} \cup Receipts, audit : Nat]
    /\ poll \in Seq(Receipts)
    /\ pc \in {"idle", "append", "mark"}
    /\ sent \in Nat /\ written \in Nat /\ acks \subseteq Nat \ {0}

\* The receipts of the log are 1, 2, ... in this order, all of them queued.
LogInv ==
    /\ Logged <= queued
    /\ \A k \in 1 .. Len(log) : IsReceipt(log[k]) => log[k] = Rank(log, k)
    /\ \A r \in 1 .. Logged : \E k \in 1 .. Len(log) : log[k] = r

\* What a failed or interrupted append left behind is the next receipt or
\* another entry, and only until the next start.
TailInv ==
    /\ up /\ ~failed => tail = Nothing
    /\ IsReceipt(tail) /\ tail \in Entry => tail = Logged + 1 /\ tail <= queued
    /\ ~up => unmarked = NoUnmarked /\ ~failed

\* receipts_audited points at the entry of each receipt; only the newest one
\* may be missing, and then the process remembers it.
AuditInv ==
    /\ \A r \in Receipts : audited[r] # 0 =>
          audited[r] \in 1 .. Len(log) /\ log[audited[r]] = r
    /\ up => \A r \in 1 .. Logged : audited[r] = 0 => unmarked.receipt = r
    /\ unmarked.receipt # 0 =>
          /\ unmarked.receipt = Logged /\ audited[Logged] = 0
          /\ unmarked.audit \in 1 .. Len(log)
          /\ log[unmarked.audit] = unmarked.receipt

\* The receipts a Poll still has to append or mark: the next ones, in order.
PollInv ==
    /\ ~up => pc = "idle" /\ ~conn
    /\ pc # "idle" =>
          /\ poll # <<>>
          /\ \A i \in 1 .. Len(poll) : poll[i] = Head(poll) + i - 1 /\ poll[i] <= queued
          /\ Head(poll) = IF unmarked.receipt = 0 THEN Logged + 1 ELSE Logged
          /\ pc = "mark" => unmarked.receipt # 0

\* The server's copy follows the log, and acknowledgments of this connection
\* are of entries it holds.
ServerInv ==
    /\ written <= Len(log)
    /\ Len(held) <= Len(log) /\ \A i \in 1 .. Len(held) : held[i] = log[i]
    /\ IF conn THEN \A k \in acks : k \in 1 .. Len(held) ELSE acks = {}
    /\ DeliveredIsHeld

Inv == TypeInv /\ LogInv /\ TailInv /\ AuditInv /\ PollInv /\ ServerInv

-----------------------------------------------------------------------------

LEMMA LogFacts ==
    ASSUME Inv
    PROVE  /\ Logged \in Nat /\ Logged <= queued
           /\ \A k \in 1 .. Len(log) : IsReceipt(log[k]) => log[k] \in 1 .. Logged
           /\ \A k, m \in 1 .. Len(log) : IsReceipt(log[k]) /\ log[k] = log[m] => k = m
           /\ \A r \in Receipts : audited[r] # 0 => r <= Logged
<1>1. Len(log) \in Nat /\ \A k \in 1 .. Len(log) : log[k] \in Entry
    BY DEF Inv, TypeInv
<1>2. Logged \in Nat /\ Logged <= queued
    BY <1>1, RankType DEF Inv, LogInv, Logged
<1>3. ASSUME NEW k \in 1 .. Len(log), IsReceipt(log[k])
      PROVE  log[k] \in 1 .. Logged
  <2>1. Rank(log, k) <= Logged /\ Rank(log, k) \in Nat
      BY <1>1, RankGrows, RankType DEF Logged
  <2>2. log[k] = Rank(log, k) /\ log[k] # 0
      BY <1>3 DEF Inv, LogInv, IsReceipt, Other
  <2> QED BY <1>2, <2>1, <2>2
<1>4. ASSUME NEW k \in 1 .. Len(log), NEW m \in 1 .. Len(log),
             IsReceipt(log[k]), log[k] = log[m]
      PROVE  k = m
    BY <1>4, LoggedOnce DEF Inv, TypeInv, LogInv
<1>5. ASSUME NEW r \in Receipts, audited[r] # 0 PROVE r <= Logged
  <2>1. audited[r] \in 1 .. Len(log) /\ log[audited[r]] = r /\ IsReceipt(r)
      BY <1>5 DEF Inv, AuditInv, IsReceipt, Other, Receipts
  <2> QED BY <1>2, <1>3, <2>1
<1> QED BY <1>2, <1>3, <1>4, <1>5

\* Inside Poll, either the head of what is left is new to the log or it is
\* the newest receipt of the log, not marked yet.
LEMMA PollFacts ==
    ASSUME Inv, pc # "idle"
    PROVE  /\ up /\ poll # <<>> /\ Head(poll) \in Receipts /\ Head(poll) <= queued
           /\ ToAppend => Head(poll) = Logged + 1 /\ unmarked.receipt = 0
           /\ pc = "mark" \/ Unmarked => /\ Head(poll) = Logged
                                        /\ unmarked.receipt = Logged
<1>1. poll # <<>> /\ Len(poll) \in Nat /\ poll \in Seq(Receipts) /\ up
    BY DEF Inv, TypeInv, PollInv
<1>2. 1 \in 1 .. Len(poll) /\ Head(poll) = poll[1] /\ Head(poll) \in Receipts
    BY <1>1
<1>3. Head(poll) <= queued /\ Head(poll) # 0
    BY <1>2 DEF Inv, PollInv, Receipts
<1>4. unmarked.receipt = 0 => Head(poll) = Logged + 1
    BY DEF Inv, PollInv
<1>5. unmarked.receipt # 0 => Head(poll) = Logged /\ unmarked.receipt = Logged
    BY DEF Inv, PollInv, AuditInv
<1>6. pc = "mark" => unmarked.receipt # 0
    BY DEF Inv, PollInv
<1> QED BY <1>1, <1>2, <1>3, <1>4, <1>5, <1>6 DEF ToAppend, Unmarked

LEMMA LogKept ==
    ASSUME Inv, log' = log, queued' \in Nat, queued <= queued'
    PROVE  LogInv' /\ Logged' = Logged
<1>1. Logged' = Logged
    BY DEF Logged
<1>2. queued \in Nat
    BY DEF Inv, TypeInv
<1> QED BY <1>1, <1>2, LogFacts DEF Inv, LogInv

\* The log grows by another entry or by the next receipt.
LEMMA LogGrows ==
    ASSUME Inv, NEW e \in Entry, log' = Append(log, e), queued' = queued,
           IsReceipt(e) => e = Logged + 1 /\ e <= queued
    PROVE  /\ LogInv'
           /\ Logged' = Logged + IF IsReceipt(e) THEN 1 ELSE 0
           /\ log' \in Seq(Entry)
           /\ Len(log') = Len(log) + 1 /\ log'[Len(log) + 1] = e
           /\ \A k \in 1 .. Len(log) : log'[k] = log[k]
<1>1. /\ log \in Seq(Entry) /\ Len(log) \in Nat /\ log' \in Seq(Entry)
      /\ Len(log') = Len(log) + 1 /\ log'[Len(log) + 1] = e
      /\ \A k \in 1 .. Len(log) : log'[k] = log[k]
    BY DEF Inv, TypeInv
<1>2. ASSUME NEW k \in 0 .. Len(log) PROVE Rank(log', k) = Rank(log, k)
  <2>1. \A i \in 1 .. k : log'[i] = log[i]
      BY <1>1
  <2>2. k \in Nat
      BY <1>1
  <2> QED BY <2>1, <2>2, RankAgrees
<1>3. Logged' = Logged + IF IsReceipt(e) THEN 1 ELSE 0
  <2>1. Rank(log', Len(log) + 1) = Rank(log', Len(log)) + IF IsReceipt(e) THEN 1 ELSE 0
      BY <1>1, RankStep
  <2>2. Rank(log', Len(log)) = Logged
      BY <1>1, <1>2 DEF Logged
  <2>3. Logged' = Rank(log', Len(log) + 1)
      BY <1>1 DEF Logged
  <2> QED BY <2>1, <2>2, <2>3
<1>4. Logged' <= queued'
    BY <1>3, LogFacts DEF Logged
<1>5. ASSUME NEW k \in 1 .. Len(log'), IsReceipt(log'[k])
      PROVE  log'[k] = Rank(log', k)
  <2>1. CASE k = Len(log) + 1
    <3>1. Rank(log', k) = Logged'
        BY <1>1, <2>1 DEF Logged
    <3> QED BY <1>1, <1>3, <1>5, <2>1, <3>1
  <2>2. CASE k # Len(log) + 1
    <3>1. k \in 1 .. Len(log) /\ k \in 0 .. Len(log)
        BY <1>1, <2>2
    <3> QED BY <1>1, <1>2, <1>5, <3>1 DEF Inv, LogInv
  <2> QED BY <2>1, <2>2
<1>6. ASSUME NEW r \in 1 .. Logged' PROVE \E k \in 1 .. Len(log') : log'[k] = r
  <2>1. CASE r \in 1 .. Logged
    <3>1. PICK k \in 1 .. Len(log) : log[k] = r
        BY <2>1 DEF Inv, LogInv
    <3>2. k \in 1 .. Len(log')
        BY <1>1
    <3> QED BY <1>1, <3>1, <3>2
  <2>2. CASE r \notin 1 .. Logged
    <3>1. r = e
        BY <1>3, <2>2, LogFacts
    <3>2. Len(log) + 1 \in 1 .. Len(log')
        BY <1>1
    <3> QED BY <1>1, <3>1, <3>2
  <2> QED BY <2>1, <2>2
<1> QED BY <1>1, <1>3, <1>4, <1>5, <1>6 DEF LogInv
-----------------------------------------------------------------------------
(* One lemma per kind of step *)

LEMMA InvInit == ASSUME Init PROVE Inv
<1>1. Len(log) = 0 /\ Logged = 0 /\ 1 .. 0 = {}
  <2>1. Len(log) = 0 /\ Rank(log, 0) \in 0 .. 0
      BY RankType DEF Init
  <2> QED BY <2>1 DEF Logged
<1>2. TypeInv
  <2>1. <<>> \in Seq(Entry) /\ <<>> \in Seq(Receipts)
      OBVIOUS
  <2>2. audited \in [Receipts -> Nat] /\ unmarked \in [receipt : {0} \cup Receipts, audit : Nat]
      BY DEF Init, NoUnmarked
  <2>3. log \in Seq(Entry) /\ held \in Seq(Entry) /\ poll \in Seq(Receipts)
      BY <2>1 DEF Init
  <2>4. queued \in 0 .. MaxReceipts /\ sent \in Nat /\ written \in Nat
      BY DeliveryAssumption DEF Init
  <2> QED BY <2>2, <2>3, <2>4 DEF Init, TypeInv
<1> QED BY <1>1, <1>2
        DEF Init, Inv, LogInv, TailInv, AuditInv, PollInv, ServerInv, NoUnmarked, Nothing,
            Entry, Other, Receipts, DeliveredIsHeld

LEMMA InvQueue == ASSUME Inv, QueueReceipt PROVE Inv'
<1>1. queued' \in 0 .. MaxReceipts /\ queued <= queued'
    BY DeliveryAssumption DEF QueueReceipt, Inv, TypeInv
<1>2. TypeInv'
    BY <1>1 DEF QueueReceipt, Inv, TypeInv, server
<1>3. LogInv' /\ Logged' = Logged
    BY <1>1, LogKept DEF QueueReceipt
<1>4. TailInv' /\ AuditInv' /\ ServerInv'
    BY <1>1, <1>3 DEF QueueReceipt, Inv, TypeInv, TailInv, AuditInv, ServerInv,
                      DeliveredIsHeld, server, Entry, Receipts, Other
<1>5. PollInv'
  <2>1. \A i \in 1 .. Len(poll) : poll[i] \in Nat
    <3>1. poll \in Seq(Receipts)
        BY DEF Inv, TypeInv
    <3>2. \A i \in 1 .. Len(poll) : poll[i] \in Receipts
        BY <3>1
    <3> QED BY <3>2 DEF Receipts
  <2>2. queued \in Nat /\ queued' \in Nat
      BY <1>1 DEF Inv, TypeInv
  <2> QED BY <1>1, <1>3, <2>1, <2>2 DEF QueueReceipt, Inv, PollInv
<1> QED BY <1>2, <1>3, <1>4, <1>5 DEF Inv

\* An append of an entry by a running process, and everything it leaves alone.
LEMMA InvAppendOther == ASSUME Inv, AppendOther PROVE Inv'
<1>1. Other \in Entry /\ ~IsReceipt(Other)
    BY DEF Entry, IsReceipt
<1>2. /\ LogInv' /\ Logged' = Logged /\ log' \in Seq(Entry)
      /\ Len(log') = Len(log) + 1 /\ \A k \in 1 .. Len(log) : log'[k] = log[k]
    BY <1>1, LogGrows, LogFacts DEF AppendOther, database
<1>3. TypeInv'
    BY <1>2 DEF AppendOther, Inv, TypeInv, server, database
<1>4. Len(log) \in Nat /\ Len(held) \in Nat
    BY DEF Inv, TypeInv
<1>5. TailInv' /\ PollInv'
    BY <1>2 DEF AppendOther, Inv, TailInv, PollInv, server, database
<1>6. AuditInv'
    BY <1>2, <1>4 DEF AppendOther, Inv, AuditInv, database
<1>7. ServerInv'
    BY <1>2, <1>4 DEF AppendOther, Inv, TypeInv, ServerInv, server, database, DeliveredIsHeld
<1> QED BY <1>2, <1>3, <1>5, <1>6, <1>7 DEF Inv

\* Steps that change neither the log nor what the process knows of it: a
\* failed append, the end of a connection, and the two together.
LEMMA InvQuiet ==
    ASSUME Inv, UNCHANGED <<database, log, up, unmarked, sent, written, held>>,
           \/ UNCHANGED <<failed, tail>>
           \/ failed' = TRUE /\ up /\ ~failed /\ \E e \in Entry :
                  /\ tail' \in Remains(e)
                  /\ IsReceipt(e) => e = Logged + 1 /\ e <= queued,
           UNCHANGED <<conn, acks, pc, poll>> \/ Drop
    PROVE  Inv'
<1>1. LogInv' /\ Logged' = Logged /\ queued \in Nat
    BY LogKept DEF database, Inv, TypeInv
<1>2. tail' \in {Nothing, Torn} \cup Entry /\ failed' \in BOOLEAN
    BY DEF Remains, Inv, TypeInv
<1>3. TypeInv'
  <2>1. <<>> \in Seq(Receipts)
      OBVIOUS
  <2>2. conn' \in BOOLEAN /\ acks' \subseteq Nat \ {0} /\ pc' \in {"idle", "append", "mark"}
      BY DEF Inv, TypeInv, Drop
  <2>3. poll' \in Seq(Receipts)
      BY <2>1 DEF Inv, TypeInv, Drop
  <2> QED BY <1>2, <2>2, <2>3 DEF Inv, TypeInv, database
<1>4. TailInv'
    BY <1>1 DEF Inv, TailInv, database, Remains, Nothing, Torn, Entry, Receipts, Other, IsReceipt
<1>5. AuditInv' /\ PollInv'
    BY <1>1 DEF Inv, AuditInv, PollInv, database, Drop
<1>6. ServerInv'
    BY <1>1 DEF Inv, ServerInv, DeliveredIsHeld, database, Drop
<1> QED BY <1>1, <1>3, <1>4, <1>5, <1>6 DEF Inv

LEMMA InvConnectionSteps ==
    ASSUME Inv, AppendOtherFails \/ PollAppendFails \/ PollMarkFails \/ Disconnect
    PROVE  Inv'
<1>1. Logged \in Nat
    BY LogFacts
<1>2. CASE AppendOtherFails
  <2>1. Other \in Entry /\ ~IsReceipt(Other)
      BY DEF Entry, IsReceipt
  <2> QED BY <1>2, <2>1, InvQuiet DEF AppendOtherFails, AppendFails, server
<1>3. CASE PollAppendFails
  <2>1. Head(poll) \in Entry /\ Head(poll) = Logged + 1 /\ Head(poll) <= queued /\ up
      BY <1>3, PollFacts DEF PollAppendFails, ToAppend, Entry
  <2> QED BY <1>3, <2>1, InvQuiet DEF PollAppendFails, AppendFails, database
<1>4. CASE PollMarkFails
    BY <1>4, InvQuiet DEF PollMarkFails, database
<1>5. CASE Disconnect
    BY <1>5, InvQuiet DEF Disconnect, database
<1> QED BY <1>2, <1>3, <1>4, <1>5

LEMMA InvPollStart == ASSUME Inv, PollStart PROVE Inv'
<1> DEFINE S    == {0} \cup {r \in Receipts : audited[r] # 0}
           last == IF unmarked.receipt = 0 THEN Logged ELSE Logged - 1
<1>1. Logged \in Nat /\ Logged <= queued /\ queued \in 0 .. MaxReceipts /\ up
    BY LogFacts DEF PollStart, Inv, TypeInv
<1>2. last \in S /\ \A x \in S : last >= x
  <2>1. \A x \in S : x \in Nat
      BY DEF Receipts
  <2>2. \A r \in 1 .. Logged : r \in Receipts /\ (audited[r] = 0 => unmarked.receipt = r)
      BY <1>1, DeliveryAssumption DEF Inv, AuditInv, Receipts
  <2>3. \A x \in S : x <= Logged
      BY <1>1, LogFacts
  <2>4. CASE unmarked.receipt = 0
      BY <1>1, <2>2, <2>3, <2>4 DEF Receipts
  <2>5. CASE unmarked.receipt # 0
    <3>1. unmarked.receipt = Logged /\ audited[Logged] = 0 /\ Logged # 0
        BY <2>5 DEF Inv, AuditInv
    <3>2. Logged \notin S
        BY <3>1
    <3>3. \A x \in S : x <= Logged - 1
        BY <1>1, <2>1, <2>3, <3>2
    <3>4. CASE Logged - 1 = 0
        BY <2>5, <3>3, <3>4
    <3>5. CASE Logged - 1 # 0
      <4>1. Logged - 1 \in 1 .. Logged /\ Logged - 1 # unmarked.receipt
          BY <1>1, <3>1, <3>5
      <4>2. Logged - 1 \in S
          BY <2>2, <4>1
      <4> QED BY <2>5, <3>3, <4>2
    <3> QED BY <3>4, <3>5
  <2> QED BY <2>4, <2>5
<1>3. S \subseteq Int /\ last \in Int
    BY <1>1 DEF Receipts
<1>4. Max(S) = last
  <2>1. \A y \in S : (\A x \in S : y >= x) => y = last
      BY <1>2, <1>3
  <2> QED BY <1>2, <2>1 DEF Max
<1>5. poll' = [i \in 1 .. queued - last |-> last + i] /\ last \in Nat /\ pc' = "append"
  <2>1. Pending = [i \in 1 .. queued - Max(S) |-> Max(S) + i]
      BY DEF Pending
  <2> HIDE DEF S
  <2>2. Pending = [i \in 1 .. queued - last |-> last + i]
      BY <1>4, <2>1
  <2>3. last \in Nat
      BY <1>2, <1>3 DEF S
  <2> QED BY <2>2, <2>3 DEF PollStart
<1> HIDE DEF last, S
<1>6. /\ poll' \in Seq(Receipts) /\ Len(poll') = queued - last /\ queued - last \in Nat
      /\ poll' # <<>>
  <2>1. poll' # <<>>
      BY DEF PollStart
  <2>2. queued - last \in Nat
      BY <1>1, <1>5 DEF last
  <2>3. \A i \in 1 .. queued - last : last + i \in Receipts
      BY <1>1, <1>5, <2>2, DeliveryAssumption DEF Receipts
  <2> QED BY <1>5, <2>1, <2>2, <2>3
<1>7. /\ Head(poll') = last + 1
      /\ \A i \in 1 .. Len(poll') : poll'[i] = last + i /\ poll'[i] <= queued
  <2>1. Len(poll') # 0
      BY <1>6
  <2> QED BY <1>1, <1>5, <1>6, <2>1
<1>8. TypeInv'
    BY <1>5, <1>6 DEF PollStart, Inv, TypeInv, database, server
<1>9. LogInv' /\ Logged' = Logged
    BY <1>1, LogKept DEF PollStart, database
<1>10. PollInv'
  <2>1. last + 1 = IF unmarked.receipt = 0 THEN Logged + 1 ELSE Logged
      BY <1>1 DEF last
  <2>2. \A i \in 1 .. Len(poll') : poll'[i] = Head(poll') + i - 1 /\ poll'[i] <= queued
    <3>1. last \in Int /\ Len(poll') \in Int
        BY <1>3, <1>6
    <3> QED BY <1>7, <3>1
  <2> QED BY <1>1, <1>5, <1>6, <1>7, <1>9, <2>1, <2>2 DEF PollStart, PollInv, database
<1>11. TailInv' /\ AuditInv' /\ ServerInv'
    BY <1>9 DEF PollStart, Inv, TailInv, AuditInv, ServerInv, DeliveredIsHeld, database, server
<1> QED BY <1>8, <1>9, <1>10, <1>11 DEF Inv

LEMMA InvPollAppend == ASSUME Inv, PollAppend PROVE Inv'
<1> DEFINE e == Head(poll)
<1>1. /\ up /\ poll # <<>> /\ e \in Receipts /\ e = Logged + 1 /\ e <= queued
      /\ unmarked.receipt = 0 /\ Logged \in Nat /\ Len(log) \in Nat
    BY PollFacts, LogFacts DEF PollAppend, ToAppend, Inv, TypeInv
<1>2. e \in Entry /\ IsReceipt(e)
    BY <1>1 DEF Entry, IsReceipt, Other, Receipts
<1>3. /\ LogInv' /\ Logged' = Logged + 1 /\ log' \in Seq(Entry)
      /\ Len(log') = Len(log) + 1 /\ log'[Len(log) + 1] = e
      /\ \A k \in 1 .. Len(log) : log'[k] = log[k]
    BY <1>1, <1>2, LogGrows DEF PollAppend, database
<1>4. unmarked' = [receipt |-> Logged', audit |-> Len(log')] /\ Logged' = e /\ e # 0
    BY <1>1, <1>3 DEF PollAppend
<1> HIDE DEF e
<1>5. TypeInv'
  <2>1. unmarked' \in [receipt : {0} \cup Receipts, audit : Nat]
      BY <1>1, <1>3, <1>4
  <2> QED BY <1>3, <2>1 DEF PollAppend, Inv, TypeInv, server, database
<1>6. TailInv'
    BY <1>1, <1>3 DEF PollAppend, Inv, TailInv, database, Nothing, Entry, Receipts, Other
<1>7. AuditInv'
  <2>1. audited' = audited /\ audited[Logged'] = 0
      BY <1>1, <1>3, <1>4, LogFacts DEF PollAppend, database
  <2>2. \A r \in 1 .. Logged' : audited[r] = 0 => r = Logged'
      BY <1>1, <1>3 DEF Inv, AuditInv
  <2>3. \A r \in Receipts : audited'[r] # 0 =>
            audited'[r] \in 1 .. Len(log') /\ log'[audited'[r]] = r
      BY <1>1, <1>3, <2>1 DEF Inv, AuditInv
  <2>4. Len(log') \in 1 .. Len(log') /\ log'[Len(log')] = Logged'
      BY <1>1, <1>3, <1>4
  <2>5. unmarked'.receipt = Logged' /\ unmarked'.audit = Len(log')
      BY <1>4
  <2> QED BY <2>1, <2>2, <2>3, <2>4, <2>5 DEF AuditInv
<1>8. PollInv'
  <2>1. poll' = poll /\ queued' = queued /\ pc = "append" /\ up' /\ pc' = "mark"
      BY <1>1 DEF PollAppend, ToAppend, database
  <2>2. unmarked'.receipt = Logged' /\ Logged' # 0 /\ Head(poll) = Logged'
      BY <1>4 DEF e
  <2> QED BY <2>1, <2>2 DEF Inv, PollInv
<1>9. ServerInv'
  <2>1. Len(held) \in Nat
      BY DEF Inv, TypeInv
  <2> QED BY <1>1, <1>3, <2>1 DEF PollAppend, Inv, TypeInv, ServerInv, DeliveredIsHeld, server, database
<1> QED BY <1>3, <1>5, <1>6, <1>7, <1>8, <1>9 DEF Inv

LEMMA InvPollMark == ASSUME Inv, PollMark PROVE Inv'
<1>1. /\ up /\ poll # <<>> /\ Head(poll) = Logged /\ unmarked.receipt = Logged
      /\ Logged \in Receipts /\ Logged \in Nat /\ Logged # 0
    BY PollFacts, LogFacts DEF PollMark, Unmarked, Receipts
<1>2. LogInv' /\ Logged' = Logged
    BY LogKept DEF PollMark, Inv, TypeInv
<1>3. /\ unmarked.audit \in 1 .. Len(log) /\ log[unmarked.audit] = Logged
      /\ unmarked.audit \in Nat
    BY <1>1 DEF Inv, AuditInv, TypeInv
<1>4. /\ unmarked'.receipt = 0
      /\ audited' = [audited EXCEPT ![Logged] = unmarked.audit]
    BY <1>1 DEF PollMark, Inv, TypeInv
<1>5. /\ poll' = Tail(poll) /\ poll' \in Seq(Receipts)
      /\ Len(poll) \in Nat \ {0} /\ Len(poll') = Len(poll) - 1
      /\ \A i \in 1 .. Len(poll') : poll'[i] = poll[i + 1]
    BY <1>1 DEF PollMark, PollNext, Inv, TypeInv
<1>6. TypeInv'
  <2>1. unmarked' \in [receipt : {0} \cup Receipts, audit : Nat]
      BY DEF PollMark, Inv, TypeInv
  <2>2. audited' \in [Receipts -> Nat]
      BY <1>3, <1>4 DEF Inv, TypeInv
  <2>3. pc' \in {"idle", "append", "mark"}
      BY DEF PollMark, PollNext
  <2> QED BY <1>5, <2>1, <2>2, <2>3 DEF PollMark, Inv, TypeInv, server
<1>7. AuditInv'
  <2>1. \A r \in Receipts : audited'[r] = IF r = Logged THEN unmarked.audit ELSE audited[r]
      BY <1>4 DEF Inv, TypeInv
  <2>2. 1 .. Logged \subseteq Receipts
      BY <1>1, DeliveryAssumption DEF Receipts
  <2>3. log' = log /\ up' = up
      BY DEF PollMark
  <2> QED BY <1>1, <1>2, <1>3, <1>4, <2>1, <2>2, <2>3 DEF Inv, AuditInv
<1>8. PollInv'
  <2>1. up' /\ queued' = queued /\ pc' \in {"idle", "append"}
      BY <1>1 DEF PollMark, PollNext
  <2>2. CASE pc' # "idle"
    <3>1. poll' # <<>>
        BY <1>5, <2>2 DEF PollMark, PollNext
    <3>2. Len(poll') \in Nat \ {0} /\ Head(poll') = poll'[1]
        BY <1>5, <3>1
    <3>3. \A i \in 1 .. Len(poll) : poll[i] = Logged + i - 1 /\ poll[i] <= queued
        BY <1>1, <2>2 DEF Inv, PollInv, PollMark, Unmarked
    <3>4. \A i \in 1 .. Len(poll') : poll'[i] = Logged + i /\ poll'[i] <= queued
      <4>1. ASSUME NEW i \in 1 .. Len(poll') PROVE i \in Int /\ i + 1 \in 1 .. Len(poll)
          BY <1>5
      <4> QED BY <1>1, <1>5, <3>3, <4>1
    <3>5. Head(poll') = Logged + 1
        BY <3>2, <3>4
    <3>6. \A i \in 1 .. Len(poll') : poll'[i] = Head(poll') + i - 1 /\ poll'[i] <= queued
      <4>1. Len(poll') \in Int
          BY <3>2
      <4> QED BY <1>1, <3>4, <3>5, <4>1
    <3> QED BY <1>2, <1>4, <2>1, <3>1, <3>5, <3>6 DEF PollInv
  <2> QED BY <2>1, <2>2 DEF PollInv
<1>9. TailInv' /\ ServerInv'
    BY <1>1, <1>2 DEF PollMark, Inv, TailInv, ServerInv, DeliveredIsHeld, server
<1> QED BY <1>2, <1>6, <1>7, <1>8, <1>9 DEF Inv

LEMMA InvSendNew == ASSUME Inv, SendNew PROVE Inv'
<1>1. LogInv' /\ Logged' = Logged
    BY LogKept DEF SendNew, database, Inv, TypeInv
<1>2. TypeInv' /\ TailInv' /\ AuditInv' /\ PollInv'
    BY <1>1 DEF SendNew, database, Inv, TypeInv, TailInv, AuditInv, PollInv
<1>3. ServerInv'
    BY DEF SendNew, database, Inv, TypeInv, ServerInv, DeliveredIsHeld
<1> QED BY <1>1, <1>2, <1>3 DEF Inv

LEMMA InvServerStores == ASSUME Inv, ServerStores PROVE Inv'
<1>1. /\ Len(held) \in Nat /\ Len(log) \in Nat /\ written \in Nat
      /\ Len(held) < written /\ written <= Len(log)
      /\ log[Len(held) + 1] \in Entry
    BY DEF ServerStores, Inv, TypeInv, ServerInv
<1>2. /\ held' \in Seq(Entry) /\ Len(held') = Len(held) + 1
      /\ held'[Len(held) + 1] = log[Len(held) + 1]
      /\ \A i \in 1 .. Len(held) : held'[i] = held[i]
    BY <1>1 DEF ServerStores, Inv, TypeInv
<1>3. LogInv' /\ Logged' = Logged
    BY LogKept DEF ServerStores, database, Inv, TypeInv
<1>4. acks' \subseteq acks \cup {Len(held) + 1} /\ (~conn => acks' = acks) /\ conn' = conn
    BY DEF ServerStores
<1>5. TypeInv'
  <2>1. acks' \subseteq Nat \ {0}
      BY <1>1, <1>4 DEF Inv, TypeInv
  <2> QED BY <1>2, <2>1 DEF ServerStores, database, Inv, TypeInv
<1>6. TailInv' /\ AuditInv' /\ PollInv'
    BY <1>3 DEF ServerStores, database, Inv, TailInv, AuditInv, PollInv
<1>7. ServerInv'
  <2>1. \A i \in 1 .. Len(held') : held'[i] = log[i]
      BY <1>1, <1>2 DEF Inv, ServerInv
  <2>2. IF conn THEN \A k \in acks' : k \in 1 .. Len(held') ELSE acks' = {}
      BY <1>1, <1>2, <1>4 DEF Inv, ServerInv
  <2>3. conn => \A r \in sentAt : \E i \in DOMAIN held' : held'[i] = r
    <3>1. DOMAIN held = 1 .. Len(held) /\ DOMAIN held' = 1 .. Len(held')
        BY <1>2 DEF Inv, TypeInv
    <3>2. \A i \in DOMAIN held : i \in DOMAIN held' /\ held'[i] = held[i]
        BY <1>1, <1>2, <3>1
    <3> QED BY <3>2 DEF Inv, ServerInv, DeliveredIsHeld
  <2> QED BY <1>1, <1>2, <1>4, <2>1, <2>2, <2>3
          DEF ServerStores, database, ServerInv, DeliveredIsHeld
<1> QED BY <1>3, <1>5, <1>6, <1>7 DEF Inv

LEMMA InvReadAck == ASSUME Inv, NEW k \in acks, ReadAck(k) PROVE Inv'
<1>1. conn /\ k \in 1 .. Len(held) /\ held[k] = log[k] /\ held \in Seq(Entry)
    BY DEF ReadAck, Inv, TypeInv, ServerInv
<1>2. LogInv' /\ Logged' = Logged
    BY LogKept DEF ReadAck, Inv, TypeInv
<1>3. sentAt' \subseteq sentAt \cup {held[k]} /\ (held[k] \in sentAt' => held[k] # Other \/ held[k] \in sentAt)
    BY <1>1 DEF ReadAck, IsReceipt
<1>4. held[k] \in Entry
    BY <1>1
<1>5. sentAt' \subseteq Receipts
    BY <1>3, <1>4 DEF Inv, TypeInv, Entry
<1>6. TypeInv'
    BY <1>5 DEF ReadAck, Inv, TypeInv
<1>7. TailInv' /\ AuditInv' /\ PollInv'
    BY <1>2 DEF ReadAck, Inv, TailInv, AuditInv, PollInv
<1>8. ServerInv'
    BY <1>1, <1>3 DEF ReadAck, Inv, TypeInv, ServerInv, DeliveredIsHeld
<1> QED BY <1>2, <1>6, <1>7, <1>8 DEF Inv

LEMMA InvConnect == ASSUME Inv, Connect PROVE Inv'
<1>1. LogInv' /\ Logged' = Logged
    BY LogKept DEF Connect, Inv, TypeInv
<1>2. Len(held) \in Nat /\ Len(log) \in Nat /\ up /\ acks' = {} /\ conn'
    BY DEF Connect, Inv, TypeInv, ServerInv
<1>3. sentAt' = {r \in 1 .. queued : audited[r] # 0 /\ audited[r] <= Len(held)}
    BY DEF Connect, Reconcile
<1>4. sentAt' \subseteq Receipts
    BY <1>3, DeliveryAssumption DEF Inv, TypeInv, Receipts
<1>5. \A r \in sentAt' : \E i \in 1 .. Len(held) : held[i] = r
  <2>1. ASSUME NEW r \in sentAt'
        PROVE  audited[r] \in 1 .. Len(held) /\ held[audited[r]] = r
      BY <1>2, <1>3, <1>4, <2>1 DEF Inv, AuditInv, ServerInv
  <2> QED BY <2>1
<1>6. TypeInv' /\ TailInv' /\ AuditInv' /\ PollInv'
    BY <1>1, <1>2, <1>4 DEF Connect, Inv, TypeInv, TailInv, AuditInv, PollInv
<1>7. ServerInv'
    BY <1>2, <1>5 DEF Connect, Inv, TypeInv, ServerInv, DeliveredIsHeld
<1> QED BY <1>1, <1>6, <1>7 DEF Inv

LEMMA InvServerForgets == ASSUME Inv, ServerForgets PROVE Inv'
<1>1. ~conn /\ Len(held) \in Nat /\ Len(log) \in Nat
    BY DEF ServerForgets, Inv, TypeInv
<1>2. PICK n \in 0 .. Len(held) - 1 : held' = SubSeq(held, 1, n) /\ written' = n
    BY DEF ServerForgets
<1>3. /\ held' \in Seq(Entry) /\ Len(held') = n /\ n \in Nat /\ n <= Len(held)
      /\ \A i \in 1 .. n : held'[i] = held[i]
    BY <1>1, <1>2 DEF Inv, TypeInv
<1>4. LogInv' /\ Logged' = Logged
    BY LogKept DEF ServerForgets, database, Inv, TypeInv
<1>5. TypeInv' /\ TailInv' /\ AuditInv' /\ PollInv'
    BY <1>2, <1>3, <1>4 DEF ServerForgets, database, Inv, TypeInv, TailInv, AuditInv, PollInv
<1>6. ServerInv'
    BY <1>1, <1>2, <1>3 DEF ServerForgets, database, Inv, ServerInv, DeliveredIsHeld
<1> QED BY <1>4, <1>5, <1>6 DEF Inv

LEMMA InvCrash == ASSUME Inv, Crash PROVE Inv'
<1>1. LogInv' /\ Logged' = Logged /\ Logged \in Nat
    BY LogKept, LogFacts DEF Crash, database, Inv, TypeInv
<1>2. tail' \in {Nothing, Torn} \/ \E e \in Entry : tail' = e /\ (IsReceipt(e) => e = Logged + 1 /\ e <= queued)
  <2>1. CASE failed
      BY <2>1 DEF Crash, Remains, Inv, TypeInv, TailInv, Nothing, Torn, IsReceipt, Other
  <2>2. CASE ~failed
    <3>1. ToAppend => Head(poll) \in Entry /\ Head(poll) = Logged + 1 /\ Head(poll) <= queued
        BY PollFacts DEF ToAppend, Entry
    <3>2. Other \in Entry /\ ~IsReceipt(Other)
        BY DEF Entry, IsReceipt
    <3> QED BY <2>2, <3>1, <3>2 DEF Crash, Remains
  <2> QED BY <2>1, <2>2
<1>3. unmarked' = NoUnmarked /\ unmarked'.receipt = 0
      /\ unmarked' \in [receipt : {0} \cup Receipts, audit : Nat]
    BY DEF Crash, NoUnmarked
<1>4. TypeInv'
  <2>1. /\ acks' \subseteq Nat \ {0} /\ conn' \in BOOLEAN
        /\ pc' \in {"idle", "append", "mark"}
      BY DEF Crash, Drop
  <2>3. poll' \in Seq(Receipts)
    <3>1. <<>> \in Seq(Receipts)
        OBVIOUS
    <3> QED BY <3>1 DEF Crash, Drop
  <2>2. tail' \in {Nothing, Torn} \cup Entry
      BY <1>2
  <2> QED BY <1>3, <2>1, <2>2, <2>3 DEF Crash, database, Inv, TypeInv
<1>5. TailInv'
    BY <1>1, <1>2, <1>3 DEF Crash, database, TailInv, Nothing, Torn, Entry, Receipts, Other, IsReceipt
<1>6. AuditInv' /\ PollInv' /\ ServerInv'
    BY <1>1, <1>3 DEF Crash, Drop, database, Inv, AuditInv, PollInv, ServerInv, DeliveredIsHeld
<1> QED BY <1>1, <1>4, <1>5, <1>6 DEF Inv

\* Open appends the entry a crash left whole, and marks what the log holds.
LEMMA OpenLog ==
    ASSUME Inv, Open
    PROVE  /\ LogInv' /\ log' \in Seq(Entry) /\ Len(log) <= Len(log')
           /\ \A k \in 1 .. Len(log) : log'[k] = log[k]
           /\ Logged' = Logged + IF tail \in Entry /\ IsReceipt(tail) THEN 1 ELSE 0
<1>1. queued' = queued /\ queued \in Nat /\ log \in Seq(Entry) /\ Len(log) \in Nat
    BY DEF Open, Inv, TypeInv
<1>2. CASE tail \in Entry
  <2>1. log' = Append(log, tail) /\ (IsReceipt(tail) => tail = Logged + 1 /\ tail <= queued)
      BY <1>2 DEF Open, Recovered, Inv, TailInv
  <2> QED BY <1>1, <1>2, <2>1, LogGrows
<1>3. CASE tail \notin Entry
  <2>1. log' = log
      BY <1>3 DEF Open, Recovered
  <2> QED BY <1>1, <1>3, <2>1, LogKept, LogFacts
<1> QED BY <1>2, <1>3

LEMMA OpenMarks ==
    ASSUME Inv, Open
    PROVE  /\ audited' \in [Receipts -> Nat]
           /\ \A r \in Receipts : audited'[r] # 0 =>
                 audited'[r] \in 1 .. Len(log') /\ log'[audited'[r]] = r
           /\ \A r \in 1 .. Logged' : r \in Receipts => audited'[r] # 0
<1> DEFINE at(r) == {i \in DOMAIN log' : log'[i] = r}
<1>1. /\ log' \in Seq(Entry) /\ Len(log) <= Len(log') /\ Len(log) \in Nat
      /\ DOMAIN log' = 1 .. Len(log')
      /\ \A k \in 1 .. Len(log) : log'[k] = log[k]
    BY OpenLog DEF Inv, TypeInv
<1>2. \A r \in Receipts : audited'[r] = IF at(r) = {} THEN audited[r]
                                        ELSE CHOOSE i \in at(r) : \A k \in at(r) : k <= i
    BY DEF Open, MarkLogged
<1>3. ASSUME NEW r \in Receipts, at(r) # {}
      PROVE  audited'[r] \in at(r)
  <2>1. PICK i \in at(r) : TRUE
      BY <1>3
  <2>2. ASSUME NEW k \in at(r) PROVE k = i
    <3>1. k \in 1 .. Len(log') /\ i \in 1 .. Len(log') /\ log'[k] = r /\ log'[i] = r
        BY <1>1
    <3>2. IsReceipt(log'[k])
        BY <3>1 DEF IsReceipt, Other, Receipts
    <3>3. \A n \in 1 .. Len(log') : IsReceipt(log'[n]) => log'[n] = Rank(log', n)
        BY OpenLog DEF LogInv
    <3> QED BY <1>1, <3>1, <3>2, <3>3, LoggedOnce
  <2>3. i \in Int
      BY <1>1
  <2>4. \A k \in at(r) : k <= i
      BY <2>2, <2>3
  <2>5. (CHOOSE j \in at(r) : \A k \in at(r) : k <= j) \in at(r)
      BY <2>4
  <2> QED BY <1>2, <1>3, <2>5
<1>4. ASSUME NEW r \in Receipts, at(r) = {}
      PROVE  audited'[r] = 0
  <2>1. audited'[r] = audited[r]
      BY <1>2, <1>4
  <2>2. audited[r] # 0 => audited[r] \in 1 .. Len(log) /\ log[audited[r]] = r
      BY DEF Inv, AuditInv
  <2>3. audited[r] # 0 => audited[r] \in at(r)
      BY <1>1, <2>2
  <2> QED BY <1>4, <2>1, <2>3
<1>5. \A r \in Receipts : audited'[r] \in Nat
    BY <1>1, <1>3, <1>4
<1>6. audited' = [r \in Receipts |-> audited'[r]]
    BY DEF Open, MarkLogged
<1>7. audited' \in [Receipts -> Nat]
    BY <1>5, <1>6
<1>8. ASSUME NEW r \in Receipts, audited'[r] # 0
      PROVE  audited'[r] \in 1 .. Len(log') /\ log'[audited'[r]] = r
    BY <1>1, <1>3, <1>4, <1>8
<1>9. ASSUME NEW r \in 1 .. Logged', r \in Receipts
      PROVE  audited'[r] # 0
  <2>1. PICK k \in 1 .. Len(log') : log'[k] = r
      BY OpenLog DEF LogInv
  <2>2. k \in at(r)
      BY <1>1, <2>1
  <2>3. audited'[r] \in at(r)
      BY <1>3, <1>9, <2>2
  <2> QED BY <1>1, <2>3
<1> QED BY <1>7, <1>8, <1>9

LEMMA InvOpen == ASSUME Inv, Open PROVE Inv'
<1>1. /\ unmarked' = NoUnmarked /\ unmarked'.receipt = 0 /\ ~failed' /\ tail' = Nothing
      /\ up' /\ queued' = queued
    BY DEF Open, Inv, TailInv, NoUnmarked
<1>2. pc' = "idle" /\ ~conn /\ conn' = conn /\ acks' = {} /\ acks = {}
    BY DEF Open, Inv, PollInv, ServerInv, server
<1>3. TypeInv'
    BY <1>1, OpenLog, OpenMarks DEF Open, Inv, TypeInv, server
<1>4. TailInv'
    BY <1>1 DEF TailInv, Nothing, Entry, Receipts, Other
<1>5. 1 .. Logged' \subseteq Receipts
  <2>1. Logged' <= queued' /\ Logged' \in Int
      BY OpenLog, LogFacts DEF LogInv
  <2> QED BY <1>1, <2>1, DeliveryAssumption DEF Inv, TypeInv, Receipts
<1>6. AuditInv'
    BY <1>1, <1>5, OpenMarks DEF AuditInv
<1>7. PollInv'
    BY <1>1, <1>2 DEF PollInv
<1>8. ServerInv'
    BY <1>2, OpenLog DEF Open, Inv, TypeInv, ServerInv, DeliveredIsHeld, server
<1> QED BY <1>3, <1>4, <1>6, <1>7, <1>8, OpenLog DEF Inv

LEMMA InvStep == ASSUME Inv, [Next]_vars PROVE Inv'
<1>1. CASE UNCHANGED vars
    BY <1>1, LogKept DEF vars, database, server, Inv, TypeInv, TailInv, AuditInv, PollInv,
                         ServerInv, DeliveredIsHeld
<1>2. CASE Loop
    BY <1>2, InvPollStart, InvPollAppend, InvConnectionSteps, InvPollMark, InvSendNew,
       InvReadAck, InvConnect DEF Loop
<1>3. CASE AppendOtherFails \/ PollMarkFails \/ Disconnect
    BY <1>3, InvConnectionSteps
<1> QED BY <1>1, <1>2, <1>3, InvQueue, InvAppendOther, InvServerStores, InvServerForgets,
           InvCrash, InvOpen DEF Next

\* The invariant holds in every state of the program.
THEOREM DeliveryInvariant == Spec => []Inv
<1>1. Init => Inv
    BY InvInit
<1>2. Inv /\ [Next]_vars => Inv'
    BY InvStep
<1> QED BY <1>1, <1>2, PTL DEF Spec

\* What the server holds is a prefix of the log in every state: no reconnect
\* finds a divergence, whatever crashed or was forgotten.
THEOREM ServerFollowsLog == Spec => []NeverDivergent
<1>1. ASSUME Inv PROVE NeverDivergent
  <2>1. /\ log \in Seq(Entry) /\ held \in Seq(Entry) /\ Len(held) <= Len(log)
        /\ Len(held) \in Nat /\ \A i \in 1 .. Len(held) : held[i] = log[i]
      BY <1>1 DEF Inv, TypeInv, ServerInv
  <2>2. held = SubSeq(log, 1, Len(held))
      BY <2>1
  <2> QED BY <2>1, <2>2 DEF NeverDivergent, Resumable
<1> QED BY <1>1, DeliveryInvariant, PTL

\* receipts_audited is the inverse of the log's receipts, up to the one mark
\* the process remembers.
THEOREM AuditMapInverts == Spec => []AuditMapExact
<1>1. ASSUME Inv PROVE AuditMapExact
  <2>1. /\ log \in Seq(Entry) /\ Len(log) \in Nat /\ DOMAIN log = 1 .. Len(log)
        /\ unmarked \in [receipt : {0} \cup Receipts, audit : Nat]
      BY <1>1 DEF Inv, TypeInv
  <2>2. ASSUME NEW r \in Receipts, audited[r] # 0
        PROVE  audited[r] <= Len(log) /\ log[audited[r]] = r
      BY <1>1, <2>1, <2>2 DEF Inv, AuditInv
  <2>3. ASSUME up, NEW i \in DOMAIN log, IsReceipt(log[i])
        PROVE  audited[log[i]] = i \/ unmarked = [receipt |-> log[i], audit |-> i]
    <3>1. log[i] \in 1 .. Logged /\ log[i] \in Receipts /\ i \in 1 .. Len(log)
        BY <1>1, <2>1, <2>3, LogFacts DEF Entry, IsReceipt
    <3>2. CASE audited[log[i]] # 0
      <4>1. audited[log[i]] \in 1 .. Len(log) /\ log[audited[log[i]]] = log[i]
          BY <1>1, <3>1, <3>2 DEF Inv, AuditInv
      <4> QED BY <1>1, <2>3, <3>1, <4>1, LogFacts
    <3>3. CASE audited[log[i]] = 0
      <4>1. unmarked.receipt = log[i] /\ log[i] # 0
          BY <1>1, <2>3, <3>1, <3>3 DEF Inv, AuditInv
      <4>2. unmarked.audit \in 1 .. Len(log) /\ log[unmarked.audit] = log[i]
          BY <1>1, <4>1 DEF Inv, AuditInv
      <4>3. unmarked.audit = i
          BY <1>1, <2>3, <3>1, <4>2, LogFacts
      <4> QED BY <2>1, <4>1, <4>3
    <3> QED BY <3>2, <3>3
  <2> QED BY <2>2, <2>3 DEF AuditMapExact
<1> QED BY <1>1, DeliveryInvariant, PTL

\* A receipt counts as delivered on a connection only if the server holds it.
THEOREM DeliveredMeansHeld == Spec => []DeliveredIsHeld
<1>1. Inv => DeliveredIsHeld
    BY DEF Inv, ServerInv
<1> QED BY <1>1, DeliveryInvariant, PTL

-----------------------------------------------------------------------------
(* The refinement of OrderedDelivery *)

Stored  == Rank(log, Len(held))
UpTo(n) == [i \in 1 .. n |-> i]

\* Both records are initial segments of the receipts.
Segments ==
    /\ Recorded(log) = UpTo(Logged) /\ Recorded(held) = UpTo(Stored)
    /\ Stored \in 0 .. Logged /\ Logged \in Nat

LEMMA Records == Inv => Segments
<1> SUFFICES ASSUME Inv PROVE Segments
    OBVIOUS
<1>1. /\ log \in Seq(Entry) /\ held \in Seq(Entry)
      /\ Len(log) \in Nat /\ Len(held) \in Nat /\ Len(held) <= Len(log)
      /\ \A i \in 1 .. Len(held) : held[i] = log[i]
      /\ \A k \in 1 .. Len(log) : IsReceipt(log[k]) => log[k] = Rank(log, k)
      /\ \A r \in 1 .. Rank(log, Len(log)) : \E k \in 1 .. Len(log) : log[k] = r
    BY DEF Inv, TypeInv, ServerInv, LogInv, Logged
<1>2. Recorded(log) = UpTo(Logged)
    BY <1>1, RecordedInOrder DEF Logged, UpTo
<1>3. Recorded(held) = UpTo(Stored)
    BY <1>1, RecordedInOrder DEF Stored, UpTo
<1>4. Stored \in 0 .. Logged /\ Logged \in Nat
  <2>1. Stored \in Nat /\ Logged \in Nat /\ Stored <= Logged
      BY <1>1, RankType, RankGrows DEF Stored, Logged
  <2> QED BY <2>1
<1> QED BY <1>2, <1>3, <1>4 DEF Segments

LEMMA UpToFacts ==
    ASSUME NEW n \in Nat
    PROVE  /\ UpTo(n) \in Seq(Nat) /\ Len(UpTo(n)) = n
           /\ UpTo(n + 1) = Append(UpTo(n), n + 1)
           /\ \A m \in 0 .. n : UpTo(m) = SubSeq(UpTo(n), 1, m)
           /\ \A m \in 1 .. n : UpTo(n)[m] = m
BY DEF UpTo

\* Logs and copies that agree on their receipts agree on the records.
LEMMA SameRecords ==
    ASSUME Segments, Segments', queued' = queued, Logged' = Logged, Stored' = Stored
    PROVE  UNCHANGED Delivery!vars
BY DEF Segments, Delivery!vars

\* The next receipt in the log, and nothing new at the server.
LEMMA RecordRefines ==
    ASSUME Segments, Segments', queued \in Nat, queued' = queued, Logged' = Logged + 1,
           Logged' <= queued', held' = held
    PROVE  Delivery!Next
<1>1. Recorded(log') = Append(Recorded(log), Logged + 1) /\ Len(Recorded(log)) = Logged
    BY UpToFacts DEF Segments
<1>2. Recorded(held') = Recorded(held)
    OBVIOUS
<1>3. Len(Recorded(log)) < queued
    BY <1>1 DEF Segments
<1> QED BY <1>1, <1>2, <1>3 DEF Delivery!Next, Delivery!Record

LEMMA StoreRefines ==
    ASSUME Segments, Segments', UNCHANGED <<queued, log>>, Stored' = Stored + 1
    PROVE  Delivery!Next
<1>1. Logged' = Logged
    BY DEF Logged
<1>2. Stored \in Nat /\ Logged \in Nat /\ Stored + 1 <= Logged /\ Stored + 1 \in 1 .. Logged
    BY <1>1 DEF Segments
<1>3. Len(Recorded(held)) = Stored /\ Len(Recorded(log)) = Logged
    BY <1>2, UpToFacts DEF Segments
<1>4. Recorded(log)[Stored + 1] = Stored + 1
    BY <1>2, UpToFacts DEF Segments
<1>5. Recorded(held') = Append(Recorded(held), Stored + 1)
    BY <1>2, UpToFacts DEF Segments
<1>6. Recorded(log') = Recorded(log)
    OBVIOUS
<1> QED BY <1>2, <1>3, <1>4, <1>5, <1>6 DEF Delivery!Next, Delivery!Store

LEMMA ForgetRefines ==
    ASSUME Segments, Segments', UNCHANGED <<queued, log>>, Stored' <= Stored
    PROVE  Delivery!Next
<1>1. Stored \in Nat /\ Stored' \in 0 .. Stored
    BY DEF Segments
<1>2. Len(Recorded(held)) = Stored /\ Recorded(held') = SubSeq(Recorded(held), 1, Stored')
    BY <1>1, UpToFacts DEF Segments
<1>3. Recorded(log') = Recorded(log)
    OBVIOUS
<1> QED BY <1>1, <1>2, <1>3 DEF Delivery!Next, Delivery!Forget

\* Every step queues, records, stores or forgets a receipt, or is invisible.
LEMMA DeliveryStep ==
    ASSUME Inv, Inv', Segments, Segments', [Next]_vars
    PROVE  [Delivery!Next]_(Delivery!vars)
<1>1. Logged \in Nat /\ Len(held) \in Nat /\ Len(log) \in Nat
    BY LogFacts DEF Inv, TypeInv
<1>2. CASE UNCHANGED <<queued, log, held>>
  <2>1. Logged' = Logged /\ Stored' = Stored
      BY <1>2 DEF Logged, Stored
  <2> QED BY <1>2, <2>1, SameRecords
<1>3. CASE QueueReceipt
  <2>1. queued' = queued + 1 /\ Recorded(log') = Recorded(log) /\ Recorded(held') = Recorded(held)
      BY <1>3 DEF QueueReceipt, server
  <2> QED BY <2>1 DEF Delivery!Next, Delivery!Queue
<1>4. ASSUME NEW e \in Entry, log' = Append(log, e), UNCHANGED <<queued, held>>,
             Logged' = Logged + IF IsReceipt(e) THEN 1 ELSE 0,
             \A k \in 1 .. Len(log) : log'[k] = log[k]
      PROVE  [Delivery!Next]_(Delivery!vars)
  <2>1. CASE IsReceipt(e)
    <3>1. Logged' <= queued' /\ queued \in Nat
        BY DEF Inv, TypeInv, LogInv
    <3> QED BY <1>4, <2>1, <3>1, RecordRefines
  <2>2. CASE ~IsReceipt(e)
    <3>1. Len(held) <= Len(log)
        BY DEF Inv, ServerInv
    <3>2. \A k \in 1 .. Len(held) : log'[k] = log[k]
        BY <1>1, <1>4, <3>1
    <3>3. Stored' = Stored
        BY <1>1, <1>4, <3>2, RankAgrees DEF Stored
    <3> QED BY <1>1, <1>4, <2>2, <3>3, SameRecords
  <2> QED BY <2>1, <2>2
<1>5. CASE AppendOther
  <2>1. Other \in Entry /\ ~IsReceipt(Other)
      BY DEF Entry, IsReceipt
  <2> QED BY <1>4, <1>5, <2>1, LogGrows DEF AppendOther, database, server
<1>6. CASE PollAppend
  <2>1. Head(poll) \in Entry /\ Head(poll) = Logged + 1 /\ Head(poll) <= queued
      BY <1>6, PollFacts DEF PollAppend, ToAppend, Entry
  <2> QED BY <1>4, <1>6, <2>1, LogGrows DEF PollAppend, database, server
<1>7. CASE Open
  <2>1. CASE tail \in Entry
    <3>1. log' = Append(log, tail) /\ UNCHANGED <<queued, held>>
        BY <1>7, <2>1 DEF Open, Recovered, server
    <3> QED BY <1>4, <1>7, <2>1, <3>1, OpenLog
  <2>2. CASE tail \notin Entry
      BY <1>2, <1>7, <2>2 DEF Open, Recovered, server
  <2> QED BY <2>1, <2>2
<1>8. CASE ServerStores
  <2>1. Len(held') = Len(held) + 1 /\ UNCHANGED <<queued, log>>
      BY <1>8 DEF ServerStores, database, Inv, TypeInv
  <2>2. Logged' = Logged
      BY <2>1 DEF Logged
  <2>3. Stored' = Stored + IF IsReceipt(log[Len(held) + 1]) THEN 1 ELSE 0
      BY <1>1, <2>1, RankStep DEF Stored
  <2>4. CASE IsReceipt(log[Len(held) + 1])
      BY <2>1, <2>3, <2>4, StoreRefines
  <2>5. CASE ~IsReceipt(log[Len(held) + 1])
      BY <2>1, <2>2, <2>3, <2>5, SameRecords DEF Segments
  <2> QED BY <2>4, <2>5
<1>9. CASE ServerForgets
  <2>1. PICK n \in 0 .. Len(held) - 1 : held' = SubSeq(held, 1, n)
      BY <1>9 DEF ServerForgets
  <2>2. Len(held') = n /\ n \in Nat /\ n <= Len(held) /\ UNCHANGED <<queued, log>>
      BY <1>1, <1>9, <2>1 DEF ServerForgets, database, Inv, TypeInv
  <2>3. Stored' <= Stored
      BY <1>1, <2>2, RankGrows DEF Stored
  <2> QED BY <2>2, <2>3, ForgetRefines
<1>10. ASSUME AppendOtherFails \/ PollMarkFails \/ Disconnect \/ Crash
              \/ PollStart \/ PollAppendFails \/ PollMark \/ SendNew
              \/ (\E k \in acks : ReadAck(k)) \/ Connect \/ UNCHANGED vars
       PROVE  UNCHANGED <<queued, log, held>>
    BY <1>10 DEF AppendOtherFails, PollMarkFails, Disconnect, Crash, PollStart, PollAppendFails,
                 PollMark, SendNew, ReadAck, Connect, vars, database, server
<1> QED BY <1>2, <1>3, <1>5, <1>6, <1>7, <1>8, <1>9, <1>10 DEF Next, Loop

\* Each queued receipt is recorded exactly once and in order, and the server's
\* copy follows the record.
THEOREM DeliveryRefines == Spec => ImplementsOrderedDelivery
<1>1. Init => Delivery!Init
  <2> SUFFICES ASSUME Init PROVE Delivery!Init
      OBVIOUS
  <2>1. Segments /\ log = <<>> /\ held = <<>> /\ queued = 0
      BY InvInit, Records DEF Init
  <2>2. Logged = 0 /\ Stored = 0
      BY <2>1, RankType DEF Logged, Stored
  <2>3. UpTo(0) = <<>>
      BY DEF UpTo
  <2> QED BY <2>1, <2>2, <2>3 DEF Segments, Delivery!Init
<1>2. Inv /\ Inv' /\ Segments /\ Segments' /\ [Next]_vars => [Delivery!Next]_(Delivery!vars)
    BY DeliveryStep
<1> QED
    BY <1>1, <1>2, Records, DeliveryInvariant, PTL
    DEF Spec, ImplementsOrderedDelivery, Delivery!Spec
=============================================================================
