--------------------------- MODULE ReceiptDelivery ---------------------------
(***************************************************************************)
(* The way of a receipt from the ledger's outbox to ai.market:             *)
(* Gateway.Poll appends it to the signed audit log (internal/audit), the   *)
(* channel (internal/channel) sends the log in order and reads             *)
(* acknowledgments, and a reconnect resumes where the server says it is.   *)
(*                                                                         *)
(* An audit append is one step: it runs under the log's mutex and advances *)
(* the sequence only after the line is synced.  A failed or interrupted    *)
(* append leaves nothing, a torn line or the whole line behind the synced  *)
(* end of the file ("tail").  A frame between gateway and server is either *)
(* read or lost with its connection, and both directions are in order; the *)
(* server may still read what a dropped connection left in the network.    *)
(***************************************************************************)
EXTENDS Integers, Sequences, FiniteSets, FiniteSetsExt

CONSTANTS
    MaxReceipts,  \* bound: receipts the ledger queues
    MaxOther,     \* bound: other audit entries (inventory, answers, reports)
    MaxFaults,    \* bound: crashes, disconnects, failed statements, forgetting
    AppendFaults, \* whether an append may fail with an I/O error
    Forgetful     \* whether the server may lose entries it acknowledged

ASSUME DeliveryAssumption ==
    /\ MaxReceipts \in Nat /\ MaxOther \in Nat /\ MaxFaults \in Nat
    /\ AppendFaults \in BOOLEAN /\ Forgetful \in BOOLEAN

VARIABLES
    (* durable *)
    queued,   \* receipts_outbox holds receipts 1 .. queued
    audited,  \* receipts_audited: audit seq of each receipt, 0 when absent
    sentAt,   \* receipts whose sent_at is set
    log,      \* synced entries of the audit log
    tail,     \* bytes behind them: Nothing, Torn or a whole entry
    (* the process *)
    up,
    failed,   \* Log.failed: appends are refused until a restart
    unmarked, \* unmarkedReceipt, unmarkedAudit
    poll,     \* receipts of the Poll in progress
    pc,       \* main loop of Connect: "idle", "append" or "mark" inside Poll
    conn,     \* whether Connect is past the handshake
    sent,     \* c.sent
    (* the server and the network *)
    written,  \* entries written to a socket the server may still read
    held,     \* entries the server holds
    acks,     \* acknowledgments in flight
    faults    \* faults so far

vars == <<queued, audited, sentAt, log, tail, up, failed, unmarked, poll, pc,
          conn, sent, written, held, acks, faults>>
database == <<queued, audited, sentAt>>
server   == <<written, held, acks>>

-----------------------------------------------------------------------------
Other      == 0                      \* an entry that is not a receipt
Receipts   == 1 .. MaxReceipts
Entry      == {Other} \cup Receipts
Nothing    == -1
Torn       == -2
NoUnmarked == [receipt |-> 0, audit |-> 0]

IsReceipt(e) == e # Other

\* How many of the first k entries of s are receipts, and the receipts of s in
\* their order.
Rank(s, k)  == Cardinality({i \in 1 .. k : IsReceipt(s[i])})
Recorded(s) ==
    [n \in 1 .. Rank(s, Len(s)) |->
        s[CHOOSE k \in 1 .. Len(s) : IsReceipt(s[k]) /\ Rank(s, k) = n]]

\* The hash of an entry covers the chain before it, so one hash tells whether
\* the server's entries are a prefix of the log.
Resumable == Len(held) <= Len(log) /\ held = SubSeq(log, 1, Len(held))

\* PendingReceipts: seq > max(seq) of receipts_audited.
Pending ==
    LET last == Max({0} \cup {r \in Receipts : audited[r] # 0})
    IN  [i \in 1 .. queued - last |-> last + i]

\* What an append of e may leave behind the synced end of the file.
Remains(e) == {Nothing, Torn, e}

Fault == faults < MaxFaults /\ faults' = faults + 1

Drop == /\ conn' = FALSE /\ acks' = {} /\ pc' = "idle" /\ poll' = <<>>

Init ==
    /\ queued = 0 /\ audited = [r \in Receipts |-> 0] /\ sentAt = {}
    /\ log = <<>> /\ tail = Nothing
    /\ up = TRUE /\ failed = FALSE /\ unmarked = NoUnmarked
    /\ poll = <<>> /\ pc = "idle" /\ conn = FALSE /\ sent = 0
    /\ written = 0 /\ held = <<>> /\ acks = {} /\ faults = 0

-----------------------------------------------------------------------------
(* Other goroutines *)

QueueReceipt ==
    /\ up /\ queued < MaxReceipts
    /\ queued' = queued + 1
    /\ UNCHANGED <<audited, sentAt, log, tail, up, failed, unmarked, poll, pc,
                   conn, sent, server, faults>>

\* A worker lane appends an entry that is no receipt.
AppendOther ==
    /\ up /\ ~failed
    /\ Cardinality({i \in DOMAIN log : log[i] = Other}) < MaxOther
    /\ log' = Append(log, Other)
    /\ UNCHANGED <<database, tail, up, failed, unmarked, poll, pc, conn, sent,
                   server, faults>>

\* An append of e fails: before the file is open, without effect, or after,
\* and then the log refuses every later one.
AppendFails(e) ==
    /\ AppendFaults /\ ~failed /\ Fault
    /\ \/ UNCHANGED <<failed, tail>>
       \/ failed' = TRUE /\ tail' \in Remains(e)

AppendOtherFails ==
    /\ up /\ AppendFails(Other)
    /\ UNCHANGED <<database, log, up, unmarked, poll, pc, conn, sent, server>>

-----------------------------------------------------------------------------
(* Gateway.Poll, called by the main loop of Connect *)

PollStart ==
    /\ up /\ conn /\ pc = "idle" /\ Pending # <<>>
    /\ poll' = Pending /\ pc' = "append"
    /\ UNCHANGED <<database, log, tail, up, failed, unmarked, conn, sent, server, faults>>

PollNext == poll' = Tail(poll) /\ pc' = IF Tail(poll) = <<>> THEN "idle" ELSE "append"

Unmarked == pc = "append" /\ unmarked.receipt = Head(poll)
ToAppend == pc = "append" /\ unmarked.receipt # Head(poll)

PollAppend ==
    /\ up /\ ToAppend /\ ~failed
    /\ log' = Append(log, Head(poll))
    /\ unmarked' = [receipt |-> Head(poll), audit |-> Len(log) + 1]
    /\ pc' = "mark"
    /\ UNCHANGED <<database, tail, up, failed, poll, conn, sent, server, faults>>

\* The append fails, or is refused after an earlier failure: Poll's error
\* ends the connection.
PollAppendFails ==
    /\ up /\ ToAppend
    /\ \/ failed /\ UNCHANGED <<failed, tail, faults>>
       \/ AppendFails(Head(poll))
    /\ Drop
    /\ UNCHANGED <<database, log, up, unmarked, sent, written, held>>

\* MarkReceiptAudited, right after the append or for a receipt whose mark
\* failed before.
PollMark ==
    /\ up
    /\ pc = "mark" \/ Unmarked
    /\ audited' = [audited EXCEPT ![Head(poll)] = unmarked.audit]
    /\ unmarked' = [unmarked EXCEPT !.receipt = 0]
    /\ PollNext
    /\ UNCHANGED <<queued, sentAt, log, tail, up, failed, conn, sent, server, faults>>

PollMarkFailsForgets ==
    /\ up /\ Fault
    /\ pc = "mark" \/ Unmarked
    /\ unmarked' = NoUnmarked
    /\ Drop
    /\ UNCHANGED <<database, log, tail, up, failed, sent, written, held>>
PollMarkFails ==
    /\ up /\ Fault
    /\ pc = "mark" \/ Unmarked
    /\ Drop
    /\ UNCHANGED <<database, log, tail, up, failed, unmarked, sent, written, held>>

-----------------------------------------------------------------------------
(* The channel *)

\* Everything the log has is written to the socket.
SendNew ==
    /\ up /\ conn /\ pc = "idle" /\ sent < Len(log)
    /\ sent' = Len(log) /\ written' = Len(log)
    /\ UNCHANGED <<database, log, tail, up, failed, unmarked, poll, pc, conn,
                   held, acks, faults>>

\* The server (external) stores the next entry and acknowledges it.
ServerStores ==
    /\ Len(held) < written
    /\ held' = Append(held, log[Len(held) + 1])
    /\ acks' = IF conn THEN acks \cup {Len(held) + 1} ELSE acks
    /\ UNCHANGED <<database, log, tail, up, failed, unmarked, poll, pc, conn,
                   sent, written, faults>>

\* Delivered, for an acknowledgment of something this connection sent.
ReadAck(k) ==
    /\ up /\ conn /\ pc = "idle" /\ k \in acks
    /\ sentAt' = IF k <= sent /\ IsReceipt(log[k]) THEN sentAt \cup {log[k]} ELSE sentAt
    /\ acks' = acks \ {k}
    /\ UNCHANGED <<queued, audited, log, tail, up, failed, unmarked, poll, pc,
                   conn, sent, written, held, faults>>

\* A read, write or heartbeat fails, a queue is full, Delivered fails.
Disconnect ==
    /\ up /\ conn /\ pc = "idle" /\ Fault
    /\ Drop
    /\ UNCHANGED <<database, log, tail, up, failed, unmarked, sent, written, held>>

\* Reconcile: sent_at becomes exactly what the server's resume confirms.
ReconcileForward(resume) ==
    sentAt' = sentAt \cup {r \in 1 .. queued : audited[r] # 0 /\ audited[r] <= resume}
Reconcile(resume) ==
    sentAt' = {r \in 1 .. queued : audited[r] # 0 /\ audited[r] <= resume}

\* Handshake: the server names its last entry; a mismatch is refused with
\* audit_divergence; otherwise delivery is reconciled and the rest replayed.
ConnectAtSent ==
    /\ up /\ ~conn /\ Resumable
    /\ Reconcile(Len(held))
    /\ sent' = Max({sent, Len(held)}) /\ written' = Max({written, Len(held)})
    /\ conn' = TRUE
    /\ UNCHANGED <<queued, audited, log, tail, up, failed, unmarked, poll, pc, held, acks, faults>>
Connect ==
    /\ up /\ ~conn /\ Resumable
    /\ Reconcile(Len(held))
    /\ sent' = Len(log) /\ written' = Len(log)
    /\ conn' = TRUE
    /\ UNCHANGED <<queued, audited, log, tail, up, failed, unmarked, poll, pc, held, acks, faults>>

\* The server (external) restarts and has lost entries it acknowledged.
ServerForgets ==
    /\ Forgetful /\ Fault /\ ~conn
    /\ \E n \in 0 .. Len(held) - 1 : held' = SubSeq(held, 1, n) /\ written' = n
    /\ UNCHANGED <<database, log, tail, up, failed, unmarked, poll, pc, conn, sent, acks>>

-----------------------------------------------------------------------------
\* The process dies, perhaps inside an append; bytes that were never synced
\* may be lost, in part or whole.
Crash ==
    /\ up /\ Fault
    /\ up' = FALSE /\ failed' = FALSE /\ unmarked' = NoUnmarked /\ sent' = 0
    /\ tail' \in IF failed THEN Remains(tail)
                 ELSE Remains(Other) \cup (IF ToAppend THEN Remains(Head(poll)) ELSE {})
    /\ Drop
    /\ UNCHANGED <<database, log, written, held>>

\* audit.Open keeps a whole line and cuts a torn one off.
RecoveredShort == IF tail = Torn /\ log # <<>> THEN SubSeq(log, 1, Len(log) - 1)
                  ELSE IF tail \in Entry THEN Append(log, tail) ELSE log
Recovered == IF tail \in Entry THEN Append(log, tail) ELSE log

\* gateway.Open marks every receipt it finds in the log as audited.
Marked(l) == audited
MarkLogged(l) ==
    [r \in Receipts |-> LET at == {i \in DOMAIN l : l[i] = r}
                        IN  IF at = {} THEN audited[r]
                            ELSE CHOOSE i \in at : \A k \in at : k <= i]

Open ==
    /\ ~up /\ up' = TRUE
    /\ log' = Recovered /\ tail' = Nothing
    /\ audited' = MarkLogged(log')
    /\ UNCHANGED <<queued, sentAt, failed, unmarked, poll, pc, conn, sent, server, faults>>

-----------------------------------------------------------------------------
\* The main loop of Connect and Run.
Loop == \/ PollStart \/ PollAppend \/ PollAppendFails \/ PollMark
        \/ SendNew \/ (\E k \in acks : ReadAck(k)) \/ Connect

Next == \/ QueueReceipt \/ AppendOther \/ AppendOtherFails
        \/ Loop \/ PollMarkFails \/ Disconnect
        \/ ServerStores \/ ServerForgets
        \/ Crash \/ Open

Spec == Init /\ [][Next]_vars

\* Run reconnects for ever, the select of Connect serves every ready source,
\* a stopped gateway is started again, and the server reads what it is sent.
FairSpec ==
    /\ Spec
    /\ WF_vars(PollStart) /\ WF_vars(PollAppend) /\ WF_vars(PollMark)
    /\ WF_vars(SendNew) /\ WF_vars(Connect) /\ WF_vars(Open) /\ WF_vars(ServerStores)

-----------------------------------------------------------------------------

\* What the server holds is always a prefix of the gateway's log, so a
\* reconnect never ends in audit_divergence: entries are synced before they
\* are sent, and a restart neither drops a synced entry nor reuses its number
\* (README.md:21, audit.go:185-258, channel.go:286-300).
NeverDivergent == Resumable

\* receipts_audited names the log entry of each receipt; a logged receipt it
\* does not name yet is the one Poll remembers as unmarked
\* (gateway.go:60-69, 148-171).
AuditMapExact ==
    /\ \A r \in Receipts : audited[r] # 0 =>
          audited[r] <= Len(log) /\ log[audited[r]] = r
    /\ up => \A i \in DOMAIN log : IsReceipt(log[i]) =>
          audited[log[i]] = i \/ unmarked = [receipt |-> log[i], audit |-> i]

\* While connected, a receipt counts as delivered only if the server holds
\* it, although the server may have lost entries it acknowledged before
\* (ledger.go:191-205, channel.go:305-309).
DeliveredIsHeld == conn => \A r \in sentAt : \E i \in DOMAIN held : held[i] = r

\* Each receipt is recorded once and in order, and the server's copy follows
\* the record, whatever is interrupted (gateway.go:140-172).
Delivery == INSTANCE OrderedDelivery
    WITH recorded <- Recorded(log), stored <- Recorded(held)
ImplementsOrderedDelivery == Delivery!Spec

\* A queued receipt is eventually held by the server for good, unless a
\* failed append keeps the log closed until the next restart
\* (channel.go:472-496, 556-575, audit.go:189-191).
EveryReceiptStored ==
    \A r \in Receipts :
        r <= queued ~> \/ [](\E i \in DOMAIN held : held[i] = r)
                       \/ []failed
=============================================================================
