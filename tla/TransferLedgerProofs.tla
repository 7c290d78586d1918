------------------------ MODULE TransferLedgerProofs ------------------------
(***************************************************************************)
(* Safety of TransferLedger for every number of permissions and requests,  *)
(* every file size, window, serve cap, deadline and inventory: first the   *)
(* coverage and the requests, then the receipts, the completion of the     *)
(* order, and the refinement of DeliveryContract.  Completion and the      *)
(* refinement are proved while the file keeps its size: what happens       *)
(* otherwise is the subject of the runs wrong_content and restart_blocked. *)
(***************************************************************************)
EXTENDS TransferRefinement, FiniteSetTheorems, TLAPS

\* The row of a request, its history and its handler fit together: a row is
\* open while its handler lives, what was sent lies within the reservation and
\* within one window of the checkpoint, and a handler that is not writing has
\* checkpointed everything it sent.
RowOK(r) ==
    /\ pc[r] = "free" => rq[r] = NoRequest /\ sentTo[r] = -1 /\ hold[r] = -1
    /\ pc[r] \notin {"free", "gone"} => rq[r].open /\ up
    /\ rq[r].open => rq[r].jti \in JTI /\ hold[r] = rq[r].end
    /\ rq[r].start - 1 <= rq[r].written_through
    /\ rq[r].written_through <= sentTo[r]
    /\ sentTo[r] <= hold[r] /\ hold[r] <= rq[r].end
    /\ sentTo[r] <= rq[r].written_through + Window
    /\ rq[r].end < SizeOf[Ordered]
    /\ pc[r] \in {"free", "idle", "settle"} => sentTo[r] = rq[r].written_through
    /\ pc[r] \in {"send", "checkpoint"} => sentTo[r] <= chunk[r].goal
    /\ chunk[r].goal <= rq[r].end

RowsOK == \A r \in Req : RowOK(r)

\* Type correctness is not inductive alone: coverage stays within the file
\* because reservations do.
TypeInv == TypeOK /\ RowsOK

\* Hypothesis of the theorems about completion: scans may find other contents
\* of the ordered length, and any content when the ordered one is empty.
StableSize == SizeOf[Ordered] = 0 \/ \A c \in Content : SizeOf[c] = SizeOf[Ordered]

LEMMA SizeType == SizeOf[Ordered] \in Nat
BY ConstantsAssumption

LEMMA BytesType == Bytes \subseteq Nat
BY SizeType DEF Bytes

LEMMA FiniteRequests ==
    ASSUME NEW R \in SUBSET Req
    PROVE  IsFiniteSet(R) /\ Cardinality(R) \in Nat
BY ConstantsAssumption, FS_Subset, FS_CardinalityType

\* Release never raises a count.
LEMMA ReleaseType ==
    ASSUME serves \in [Bytes -> 0 .. MaxServe], NEW R \in SUBSET Req, NEW keep
    PROVE  Release(R, keep) \in [Bytes -> 0 .. MaxServe]
<1> SUFFICES ASSUME NEW b \in Bytes
             PROVE  Release(R, keep)[b] \in 0 .. MaxServe
    BY DEF Release
<1> DEFINE X == {r \in R : b \in rq[r].start .. rq[r].end /\ b > keep[r]}
<1>1. Cardinality(X) \in Nat
    BY FiniteRequests
<1>2. Release(R, keep)[b] = Monus(serves[b], Cardinality(X))
    BY DEF Release
<1> HIDE DEF X
<1>3. serves[b] \in 0 .. MaxServe
    OBVIOUS
<1> QED BY <1>1, <1>2, <1>3, ConstantsAssumption DEF Monus

LEMMA InitTypeInv == Init => TypeInv
<1> SUFFICES ASSUME Init PROVE TypeInv
    OBVIOUS
<1>1. TablesOK
  <2>1. file \in Content /\ serves \in [Bytes -> 0 .. MaxServe]
      BY ConstantsAssumption DEF Init
  <2>2. perm \in [JTI -> {"absent", "bound", "closed", "revoked"}]
      BY DEF Init
  <2>3. outbox \in Seq(Receipt)
      BY DEF Init
  <2> QED BY <2>1, <2>2, <2>3 DEF Init, TablesOK
<1>2. RequestsOK
    BY ConstantsAssumption DEF Init, RequestsOK, NoRequest, Request
<1>3. ProcessOK
  <2>1. chunk \in [Req -> [from : Int, goal : Int]]
      BY DEF Init, NoChunk
  <2>2. pc \in [Req -> Labels] /\ outcome \in [Req -> Outcomes]
      BY DEF Init, Labels, Outcomes
  <2>3. attempts \in [Req -> 0 .. MaxAttempts] /\ clock \in 0 .. MaxClock
      BY ConstantsAssumption DEF Init
  <2> QED BY <2>1, <2>2, <2>3 DEF Init, ProcessOK
<1>4. RowsOK
    BY ConstantsAssumption, SizeType DEF Init, RowsOK, RowOK, NoRequest, NoChunk
<1> QED BY <1>1, <1>2, <1>3, <1>4 DEF TypeInv, TypeOK

LEMMA ReserveTypeInv ==
    ASSUME TypeInv, NEW r \in Req, NEW j \in JTI, NEW start \in Bytes, NEW end \in Bytes,
           Reserve(r, j, start, end)
    PROVE  TypeInv'
<1> PICK last \in start .. end :
        /\ Truncates(last, start, end)
        /\ perm' = [perm EXCEPT ![j] = "bound"]
        /\ serves' = Charge(start, last)
        /\ rq' = [rq EXCEPT ![r] =
                    [jti |-> j, start |-> start, end |-> last,
                     written_through |-> start - 1, open |-> TRUE,
                     isolated |-> (start > 0 /\ start - 1 \notin transmitted)]]
        /\ sentTo' = [sentTo EXCEPT ![r] = start - 1]
        /\ hold' = [hold EXCEPT ![r] = last]
    BY DEF Reserve
<1> USE DEF TypeInv, TypeOK
<1>0. start \in Nat /\ end \in Nat /\ last \in Nat /\ last < SizeOf[Ordered]
    BY SizeType DEF Bytes
<1>1. serves' \in [Bytes -> 0 .. MaxServe]
  <2> SUFFICES ASSUME NEW b \in Bytes
               PROVE  Charge(start, last)[b] \in 0 .. MaxServe
      BY DEF Charge
  <2>1. serves[b] \in 0 .. MaxServe
      BY DEF TablesOK
  <2>2. b \in start .. last => serves[b] # MaxServe
      BY DEF Truncates
  <2> QED BY <2>1, <2>2, ConstantsAssumption DEF Charge
<1>2. TablesOK'
    BY <1>1 DEF TablesOK, Reserve
<1>3. RequestsOK'
    BY <1>0 DEF RequestsOK, Request
<1>4. ProcessOK'
    BY DEF ProcessOK, Reserve, Labels
<1>5. ASSUME NEW q \in Req PROVE RowOK(q)'
  <2>1. CASE q = r
    <3>1. chunk[r].goal <= -1
        BY DEF RowsOK, RowOK, Reserve, NoRequest
    <3>2. chunk'[r] = chunk[r] /\ chunk[r].goal \in Int /\ pc'[r] = "idle" /\ up'
        BY DEF ProcessOK, Reserve
    <3> QED BY <1>0, <2>1, <3>1, <3>2, ConstantsAssumption DEF RowOK, RequestsOK
  <2>2. CASE q # r
      BY <2>2 DEF RowsOK, RowOK, RequestsOK, ProcessOK, Reserve
  <2> QED BY <2>1, <2>2
<1> QED BY <1>2, <1>3, <1>4, <1>5 DEF RowsOK

-----------------------------------------------------------------------------
\* Actions that touch no request: the environment.
LEMMA QuietTypeInv ==
    ASSUME TypeInv, TablesOK', ProcessOK',
           UNCHANGED <<rq, sentTo, hold, pc, chunk, up>>
    PROVE  TypeInv'
<1>1. RequestsOK'
    BY DEF TypeInv, TypeOK, RequestsOK
<1>2. RowsOK'
    BY DEF TypeInv, RowsOK, RowOK
<1> QED BY <1>1, <1>2 DEF TypeInv, TypeOK

LEMMA CloseBoundType ==
    ASSUME TypeInv, NEW P
    PROVE  CloseBound(P) \in [JTI -> {"absent", "bound", "closed", "revoked"}]
BY DEF TypeInv, TypeOK, TablesOK, CloseBound

LEMMA QueueReceiptType ==
    ASSUME TypeInv, NEW o \in Outcomes \cup {"in_progress", "complete"},
           NEW t \in SUBSET Bytes, QueueReceipt(o, t)
    PROVE  outbox' \in Seq(Receipt)
BY DEF TypeInv, TypeOK, TablesOK, QueueReceipt, Receipt

LEMMA EnvironmentTypeInv ==
    ASSUME TypeInv,
           \/ \E j \in JTI : FinishEmpty(j)
           \/ \E j \in Revocable : Revoke(j)
           \/ \E s \in OfferStates : PutOffer(s)
           \/ \E c \in Content : PutFile(c)
           \/ CloseExpired \/ Tick
    PROVE  TypeInv'
<1> USE DEF TypeInv, TypeOK, tables, volatile
<1>1. ASSUME NEW j \in JTI, FinishEmpty(j) PROVE TypeInv'
  <2>1. perm' \in [JTI -> {"absent", "bound", "closed", "revoked"}]
      BY <1>1, CloseBoundType DEF FinishEmpty
  <2>2. outbox' \in Seq(Receipt)
      BY <1>1, QueueReceiptType DEF FinishEmpty, TablesOK
  <2> QED BY <1>1, <2>1, <2>2, QuietTypeInv DEF FinishEmpty, TablesOK, ProcessOK
<1>2. ASSUME NEW j \in Revocable, Revoke(j) PROVE TypeInv'
  <2>1. j \in JTI
      BY ConstantsAssumption
  <2> QED BY <1>2, <2>1, QuietTypeInv DEF Revoke, TablesOK, ProcessOK
<1>3. ASSUME NEW s \in OfferStates, PutOffer(s) PROVE TypeInv'
  <2>1. s \in {"offered", "withdrawn"}
      BY ConstantsAssumption
  <2> QED BY <1>3, <2>1, QuietTypeInv DEF PutOffer, TablesOK, ProcessOK
<1>4. ASSUME NEW c \in Content, PutFile(c) PROVE TypeInv'
    BY <1>4, QuietTypeInv DEF PutFile, TablesOK, ProcessOK
<1>5. ASSUME CloseExpired PROVE TypeInv'
    BY <1>5, CloseBoundType, QuietTypeInv DEF CloseExpired, TablesOK, ProcessOK
<1>6. ASSUME Tick PROVE TypeInv'
  <2>1. clock' \in 0 .. MaxClock /\ UNCHANGED <<tables, up, volatile, sentTo, hold>>
      BY <1>6, ConstantsAssumption DEF Tick, ProcessOK
  <2>2. TablesOK'
      BY <2>1 DEF TablesOK
  <2>3. ProcessOK'
      BY <2>1 DEF ProcessOK
  <2> QED BY <2>1, <2>2, <2>3, QuietTypeInv
<1> QED BY <1>1, <1>2, <1>3, <1>4, <1>5, <1>6

-----------------------------------------------------------------------------
\* Steps of one handler: only the row of r has to be looked at again.
LEMMA OneRow ==
    ASSUME TypeInv, NEW r \in Req, RowOK(r)', up' = up,
           \A q \in Req \ {r} : /\ rq'[q] = rq[q] /\ sentTo'[q] = sentTo[q]
                                /\ hold'[q] = hold[q] /\ pc'[q] = pc[q]
                                /\ chunk'[q] = chunk[q]
    PROVE  RowsOK'
BY DEF TypeInv, RowsOK, RowOK

\* Steps that change neither a table nor what was sent.
LEMMA LocalTypeInv ==
    ASSUME TypeInv, NEW r \in Req,
           \/ \E goal \in Bytes : BeginChunk(r, goal)
           \/ SendExpired(r) \/ ProgressFails(r) \/ SettleFails(r)
           \/ RecoverRequestFails(r)
           \/ \E o \in Outcomes : StopDownload(r, o)
    PROVE  TypeInv'
<1> USE DEF tables
<1>1. TablesOK' /\ RequestsOK' /\ UNCHANGED <<rq, sentTo, hold>>
    BY DEF TypeInv, TypeOK, TablesOK, RequestsOK, BeginChunk, SendExpired,
           ProgressFails, SettleFails, RecoverRequestFails, StopDownload
<1>2. RowOK(r) /\ ProcessOK /\ RequestsOK
    BY DEF TypeInv, TypeOK, RowsOK
<1>3. ASSUME NEW goal \in Bytes, BeginChunk(r, goal) PROVE TypeInv'
  <2>1. goal \in Int /\ rq[r].written_through \in Int
      BY <1>2, BytesType DEF RequestsOK, Request
  <2>2. ProcessOK'
      BY <1>2, <1>3, <2>1 DEF ProcessOK, BeginChunk, Labels
  <2>3. RowOK(r)'
      BY <1>1, <1>2, <1>3, <2>1 DEF RowOK, BeginChunk, ProcessOK, RequestsOK
  <2>4. RowsOK'
      BY <1>1, <1>3, <2>3, OneRow DEF BeginChunk, TypeInv, TypeOK, ProcessOK
  <2> QED BY <1>1, <2>2, <2>4 DEF TypeInv, TypeOK
<1>4. ASSUME SendExpired(r) PROVE TypeInv'
  <2>1. ProcessOK'
      BY <1>2, <1>4 DEF ProcessOK, SendExpired, Labels
  <2>2. RowOK(r)'
      BY <1>1, <1>2, <1>4 DEF RowOK, SendExpired, ProcessOK
  <2>3. RowsOK'
      BY <1>1, <1>4, <2>2, OneRow DEF SendExpired, TypeInv, TypeOK, ProcessOK
  <2> QED BY <1>1, <2>1, <2>3 DEF TypeInv, TypeOK
<1>5. ASSUME ProgressFails(r) PROVE TypeInv'
  <2>1. ProcessOK'
      BY <1>2, <1>5 DEF ProcessOK, ProgressFails, Labels, NoChunk
  <2>2. -1 <= rq[r].end
      BY <1>2 DEF RowOK, RequestsOK, Request
  <2>3. RowOK(r)'
      BY <1>1, <1>2, <1>5, <2>2 DEF RowOK, ProgressFails, ProcessOK, NoChunk
  <2>4. RowsOK'
      BY <1>1, <1>5, <2>3, OneRow DEF ProgressFails, TypeInv, TypeOK, ProcessOK
  <2> QED BY <1>1, <2>1, <2>4 DEF TypeInv, TypeOK
<1>6. ASSUME SettleFails(r) PROVE TypeInv'
  <2>1. ProcessOK'
      BY <1>2, <1>6, ConstantsAssumption DEF ProcessOK, SettleFails, Leave, Labels, Outcomes
  <2>2. RowOK(r)'
      BY <1>1, <1>2, <1>6 DEF RowOK, SettleFails, Leave, ProcessOK
  <2>3. RowsOK'
      BY <1>1, <1>6, <2>2, OneRow DEF SettleFails, Leave, TypeInv, TypeOK, ProcessOK
  <2> QED BY <1>1, <2>1, <2>3 DEF TypeInv, TypeOK
<1>7. ASSUME RecoverRequestFails(r) PROVE TypeInv'
  <2>1. CASE attempts[r] + 1 < MaxAttempts
    <3>1. ProcessOK' /\ UNCHANGED <<pc, chunk, up>>
        BY <1>2, <1>7, <2>1, ConstantsAssumption DEF ProcessOK, RecoverRequestFails
    <3>2. RowsOK'
        BY <1>1, <3>1 DEF TypeInv, RowsOK, RowOK
    <3> QED BY <1>1, <3>1, <3>2 DEF TypeInv, TypeOK
  <2>2. CASE ~(attempts[r] + 1 < MaxAttempts)
    <3>1. ProcessOK'
      <4>1. attempts' \in [Req -> 0 .. MaxAttempts]
          BY <1>2, <1>7, <2>2, ConstantsAssumption DEF ProcessOK, RecoverRequestFails, Leave
      <4>2. pc' \in [Req -> Labels] /\ outcome' \in [Req -> Outcomes]
          BY <1>2, <1>7, <2>2 DEF ProcessOK, RecoverRequestFails, Leave, Labels, Outcomes
      <4> QED BY <1>2, <1>7, <4>1, <4>2 DEF ProcessOK, RecoverRequestFails
    <3>2. RowOK(r)'
        BY <1>1, <1>2, <1>7, <2>2 DEF RowOK, RecoverRequestFails, Leave, ProcessOK
    <3>3. RowsOK'
        BY <1>1, <1>7, <2>2, <3>2, OneRow
           DEF RecoverRequestFails, Leave, TypeInv, TypeOK, ProcessOK
    <3> QED BY <1>1, <3>1, <3>3 DEF TypeInv, TypeOK
  <2> QED BY <2>1, <2>2
<1>8. ASSUME NEW o \in Outcomes, StopDownload(r, o) PROVE TypeInv'
  <2>1. ProcessOK'
      BY <1>2, <1>8 DEF ProcessOK, StopDownload, Labels
  <2>2. RowOK(r)'
      BY <1>1, <1>2, <1>8 DEF RowOK, StopDownload, ProcessOK
  <2>3. RowsOK'
      BY <1>1, <1>8, <2>2, OneRow DEF StopDownload, TypeInv, TypeOK, ProcessOK
  <2> QED BY <1>1, <2>1, <2>3 DEF TypeInv, TypeOK
<1> QED BY <1>3, <1>4, <1>5, <1>6, <1>7, <1>8

LEMMA RefuseChunkTypeInv ==
    ASSUME TypeInv, NEW r \in Req, RefuseChunk(r)
    PROVE  TypeInv'
<1>1. perm' \in [JTI -> {"absent", "bound", "closed", "revoked"}]
    BY CloseBoundType DEF RefuseChunk, TypeInv, TypeOK, TablesOK
<1>2. TablesOK' /\ RequestsOK'
    BY <1>1 DEF TypeInv, TypeOK, TablesOK, RequestsOK, RefuseChunk
<1>3. ProcessOK'
    BY DEF TypeInv, TypeOK, ProcessOK, RefuseChunk, Labels, Outcomes
<1>4. RowOK(r)'
    BY DEF TypeInv, TypeOK, RowsOK, RowOK, RefuseChunk, ProcessOK
<1>5. RowsOK'
    BY <1>4, OneRow DEF RefuseChunk, TypeInv, TypeOK, ProcessOK
<1> QED BY <1>2, <1>3, <1>5 DEF TypeInv, TypeOK

LEMMA CrashTypeInv ==
    ASSUME TypeInv, Crash
    PROVE  TypeInv'
<1>1. TablesOK' /\ RequestsOK'
    BY DEF TypeInv, TypeOK, TablesOK, RequestsOK, Crash, tables
<1>2. ProcessOK'
  <2>1. attempts' \in [Req -> 0 .. MaxAttempts]
      BY ConstantsAssumption DEF Crash
  <2>2. pc' \in [Req -> Labels] /\ outcome' \in [Req -> Outcomes]
      BY DEF Crash, Labels, Outcomes
  <2>3. chunk' \in [Req -> [from : Int, goal : Int]]
      BY DEF Crash, NoChunk
  <2> QED BY <2>1, <2>2, <2>3 DEF TypeInv, TypeOK, ProcessOK, Crash
<1>3. ASSUME NEW r \in Req PROVE RowOK(r)'
  <2>1. RowOK(r) /\ -1 <= rq[r].end
      BY DEF TypeInv, TypeOK, RowsOK, RowOK, RequestsOK, Request
  <2> QED BY <2>1 DEF RowOK, Crash, tables, NoChunk
<1> QED BY <1>1, <1>2, <1>3 DEF TypeInv, TypeOK, RowsOK

LEMMA SendBytesTypeInv ==
    ASSUME TypeInv, NEW r \in Req, NEW n \in 0 .. Window, SendBytes(r, n)
    PROVE  TypeInv'
<1> DEFINE w == rq[r].written_through
           limit == Limit(r)
<1>0. /\ RowOK(r) /\ RequestsOK /\ ProcessOK
      /\ w \in Int /\ sentTo[r] \in Int /\ hold[r] \in Int /\ rq[r].end \in Int
      /\ chunk[r].goal \in Int /\ Window \in Int /\ n \in Int /\ n >= 0
    BY ConstantsAssumption DEF TypeInv, TypeOK, RowsOK, RequestsOK, ProcessOK, Request
<1>1. limit <= chunk[r].goal /\ limit <= w + Window /\ limit \in Int
    BY <1>0 DEF Limit, Least
<1>2. sentTo' = [sentTo EXCEPT ![r] = @ + n] /\ n <= limit - sentTo[r]
    BY <1>0, <1>1 DEF SendBytes
<1>3. sentTo'[r] = sentTo[r] + n /\ sentTo'[r] \in Int
    BY <1>0, <1>2 DEF RequestsOK
<1>4. TablesOK' /\ RequestsOK' /\ UNCHANGED <<rq, hold, chunk>>
    BY <1>0, <1>2 DEF TypeInv, TypeOK, TablesOK, RequestsOK, SendBytes, tables
<1>5. ProcessOK' /\ up' /\ pc[r] = "send" /\ pc'[r] \in {"send", "checkpoint", "final"}
    BY <1>0 DEF ProcessOK, SendBytes, Labels
<1>6. rq[r].open /\ hold[r] = rq[r].end
    BY <1>0, <1>5 DEF RowOK
<1>7. RowOK(r)'
    BY <1>0, <1>1, <1>2, <1>3, <1>4, <1>5, <1>6 DEF RowOK
<1>8. RowsOK'
    BY <1>2, <1>4, <1>7, OneRow DEF SendBytes, TypeInv, TypeOK, ProcessOK, RequestsOK
<1> QED BY <1>4, <1>5, <1>8 DEF TypeInv, TypeOK

\* What Progress does to the tables, for a caller that sent up to sentTo[r].
LEMMA ProgressType ==
    ASSUME TypeInv, NEW r \in Req, Progress(r, sentTo[r])
    PROVE  /\ transmitted' \in SUBSET Bytes
           /\ outbox' \in Seq(Receipt)
           /\ rq' \in [Req -> Request]
           /\ rq' = [rq EXCEPT ![r].written_through = sentTo[r]]
           /\ rq'[r] = [rq[r] EXCEPT !.written_through = sentTo[r]]
<1> DEFINE w == rq[r].written_through
<1>0. /\ RowOK(r) /\ rq \in [Req -> Request] /\ transmitted \subseteq Bytes
      /\ outbox \in Seq(Receipt) /\ sentTo[r] \in Int
    BY DEF TypeInv, TypeOK, RowsOK, TablesOK, RequestsOK
<1>1. rq' = [rq EXCEPT ![r].written_through = sentTo[r]]
    BY DEF Progress
<1>2. rq' \in [Req -> Request] /\ rq'[r] = [rq[r] EXCEPT !.written_through = sentTo[r]]
    BY <1>0, <1>1 DEF Request
<1>3. /\ w \in Int /\ rq[r].end \in Int /\ rq[r].start \in Nat
      /\ rq[r].start - 1 <= w /\ sentTo[r] <= hold[r] /\ hold[r] <= rq[r].end
      /\ rq[r].end < SizeOf[Ordered] /\ hold[r] \in Int
    BY <1>0 DEF RowOK, Request, TypeInv, TypeOK, RequestsOK
<1>4. w + 1 .. sentTo[r] \subseteq Bytes
    BY <1>0, <1>3, SizeType DEF Bytes
<1>5. transmitted' \in SUBSET Bytes
    BY <1>0, <1>4 DEF Progress
<1>6. outbox' \in Seq(Receipt)
    BY <1>0, <1>5, QueueReceiptType DEF Progress
<1> QED BY <1>1, <1>2, <1>5, <1>6

LEMMA WriteTypeInv ==
    ASSUME TypeInv, NEW r \in Req, Checkpoint(r) \/ FinishChunk(r)
    PROVE  TypeInv'
<1>0. Progress(r, sentTo[r]) /\ UNCHANGED <<sentTo, hold>>
    BY DEF Checkpoint, FinishChunk
<1>1. perm' \in [JTI -> {"absent", "bound", "closed", "revoked"}]
    BY CloseBoundType DEF Checkpoint, FinishChunk, TypeInv, TypeOK, TablesOK
<1>2. TablesOK'
    BY <1>0, <1>1, ProgressType DEF Checkpoint, FinishChunk, TypeInv, TypeOK, TablesOK
<1>3. RequestsOK'
    BY <1>0, ProgressType DEF TypeInv, TypeOK, RequestsOK
<1>4. ProcessOK'
    BY DEF Checkpoint, FinishChunk, TypeInv, TypeOK, ProcessOK, Labels, NoChunk, Outcomes
<1>5. RowOK(r)'
  <2>1. /\ RowOK(r) /\ sentTo[r] \in Int /\ rq[r].written_through \in Int
        /\ rq[r].end \in Int /\ rq[r].start \in Nat /\ hold[r] \in Int
        /\ chunk[r].goal \in Int
      BY DEF TypeInv, TypeOK, RowsOK, RequestsOK, ProcessOK, Request
  <2>2. /\ pc[r] \in {"checkpoint", "final"}
        /\ pc'[r] \in {"send", "final", "settle", "idle"}
        /\ pc'[r] = "send" => chunk' = chunk
        /\ chunk'[r].goal \in {-1, chunk[r].goal}
        /\ up'
      BY DEF Checkpoint, FinishChunk, TypeInv, TypeOK, ProcessOK, NoChunk
  <2>3. /\ rq'[r].open /\ rq'[r].jti = rq[r].jti /\ rq'[r].end = rq[r].end
        /\ rq'[r].start = rq[r].start /\ rq'[r].written_through = sentTo[r]
        /\ rq[r].open
    <3>1. rq'[r] = [rq[r] EXCEPT !.written_through = sentTo[r]]
        BY <1>0, ProgressType
    <3>2. rq[r] \in Request
        BY DEF TypeInv, TypeOK, RequestsOK
    <3>3. rq[r].open
        BY <2>1, <2>2 DEF RowOK
    <3> QED BY <3>1, <3>2, <3>3 DEF Request
  <2>4. pc'[r] = "send" => sentTo[r] <= chunk[r].goal
      BY <2>1 DEF RowOK, Checkpoint, FinishChunk, TypeInv, TypeOK, ProcessOK
  <2>5. chunk'[r].goal <= rq[r].end /\ hold[r] = rq[r].end
      BY <2>1, <2>2, <2>3 DEF RowOK
  <2> QED BY <1>0, <2>1, <2>2, <2>3, <2>4, <2>5, ConstantsAssumption DEF RowOK
<1>6. RowsOK'
  <2>1. \A q \in Req \ {r} : pc'[q] = pc[q] /\ chunk'[q] = chunk[q]
      BY DEF Checkpoint, FinishChunk, TypeInv, TypeOK, ProcessOK
  <2>2. \A q \in Req \ {r} : rq'[q] = rq[q]
      BY <1>0, ProgressType DEF TypeInv, TypeOK, RequestsOK
  <2>3. up' = up
      BY DEF Checkpoint, FinishChunk
  <2> QED BY <1>0, <1>5, <2>1, <2>2, <2>3, OneRow
<1> QED BY <1>2, <1>3, <1>4, <1>6 DEF TypeInv, TypeOK

-----------------------------------------------------------------------------
\* What a settlement of open requests does, whoever runs it.
LEMMA SettleTypeInv ==
    ASSUME TypeInv, NEW R \in SUBSET Req, NEW keep, NEW crash, NEW o \in Outcomes,
           SettleTx(R, keep, crash, o), UNCHANGED sentTo,
           \A r \in R : /\ rq[r].open /\ keep[r] \in Int
                        /\ sentTo[r] <= keep[r] /\ keep[r] <= rq[r].end
                        /\ pc'[r] = "gone" /\ chunk'[r] = chunk[r],
           \A q \in Req \ R : pc'[q] = pc[q] /\ chunk'[q] = chunk[q],
           up' = up \/ \A q \in Req : pc[q] \in {"free", "gone"}
    PROVE  TablesOK' /\ RequestsOK' /\ RowsOK'
<1>1. serves' \in [Bytes -> 0 .. MaxServe]
    BY ReleaseType DEF SettleTx, TypeInv, TypeOK, TablesOK
<1>2. perm' \in [JTI -> {"absent", "bound", "closed", "revoked"}] /\ completed' \in BOOLEAN
  <2>1. (perm' = CloseBound(JTI) /\ completed' = TRUE) \/ UNCHANGED <<perm, completed>>
      BY DEF SettleTx
  <2>2. CloseBound(JTI) \in [JTI -> {"absent", "bound", "closed", "revoked"}]
      BY CloseBoundType
  <2>3. TablesOK
      BY DEF TypeInv, TypeOK
  <2> QED BY <2>1, <2>2, <2>3 DEF TablesOK
<1>3. outbox' \in Seq(Receipt)
    BY QueueReceiptType DEF SettleTx, TypeInv, TypeOK, TablesOK
<1>4. TablesOK'
    BY <1>1, <1>2, <1>3 DEF SettleTx, TypeInv, TypeOK, TablesOK
<1>5. ASSUME NEW q \in Req
      PROVE  /\ rq'[q] = IF q \in R THEN [rq[q] EXCEPT !.open = FALSE] ELSE rq[q]
             /\ hold'[q] = IF q \in R THEN keep[q] ELSE hold[q]
    BY DEF SettleTx
<1>6. RequestsOK'
  <2>1. rq \in [Req -> Request] /\ hold \in [Req -> Int] /\ sentTo \in [Req -> Int]
      BY DEF TypeInv, TypeOK, RequestsOK
  <2>2. ASSUME NEW q \in Req PROVE rq'[q] \in Request /\ hold'[q] \in Int
    <3>1. rq[q] \in Request /\ [rq[q] EXCEPT !.open = FALSE] \in Request
        BY <2>1 DEF Request
    <3>2. hold[q] \in Int /\ (q \in R => keep[q] \in Int)
        BY <2>1
    <3> QED BY <1>5, <3>1, <3>2
  <2>3. rq' = [q \in Req |-> rq'[q]] /\ hold' = [q \in Req |-> hold'[q]]
      BY DEF SettleTx
  <2> QED BY <2>1, <2>2, <2>3 DEF RequestsOK
<1>7. ASSUME NEW q \in Req PROVE RowOK(q)'
  <2>1. RowOK(q) /\ rq[q] \in Request
      BY DEF TypeInv, TypeOK, RowsOK, RequestsOK
  <2>2. CASE q \in R
    <3>1. /\ ~rq'[q].open /\ rq'[q].end = rq[q].end /\ rq'[q].start = rq[q].start
          /\ rq'[q].written_through = rq[q].written_through
        BY <1>5, <2>1, <2>2 DEF Request
    <3>2. hold'[q] = keep[q] /\ pc'[q] = "gone"
        BY <1>5, <2>2
    <3> QED BY <2>1, <2>2, <3>1, <3>2 DEF RowOK
  <2>3. CASE q \notin R
      BY <1>5, <2>1, <2>3 DEF RowOK
  <2> QED BY <2>2, <2>3
<1> QED BY <1>4, <1>6, <1>7 DEF RowsOK

\* The charge of a settlement covers what the request sent.
LEMMA ChargeCoversSent ==
    ASSUME TypeInv, NEW r \in Req
    PROVE  /\ CrashCharged[r] \in Int /\ sentTo[r] <= CrashCharged[r]
           /\ CrashCharged[r] <= rq[r].end
           /\ Written[r] \in Int /\ Written[r] <= rq[r].end
           /\ pc[r] = "settle" => sentTo[r] <= Written[r]
<1>1. /\ RowOK(r) /\ sentTo[r] \in Int /\ hold[r] \in Int /\ rq[r].end \in Int
      /\ rq[r].written_through \in Int /\ Window \in Int
    BY ConstantsAssumption DEF TypeInv, TypeOK, RowsOK, RequestsOK, Request
<1>2. CrashCharged[r] = Least(rq[r].end, rq[r].written_through + Window)
    BY DEF CrashCharged
<1>3. Written[r] = rq[r].written_through
    BY DEF Written
<1> QED BY <1>1, <1>2, <1>3 DEF RowOK, Least

LEMMA SettleOutcomeTypeInv ==
    ASSUME TypeInv, NEW r \in Req, SettleOutcome(r) \/ RecoverRequest(r)
    PROVE  TypeInv'
<1>1. /\ rq[r].open /\ {r} \cap {q \in Req : rq[q].open} = {r}
      /\ outcome[r] \in Outcomes /\ "none" \in Outcomes
    BY DEF SettleOutcome, RecoverRequest, TypeInv, TypeOK, RowsOK, RowOK, ProcessOK, Outcomes
<1>2. /\ UNCHANGED <<sentTo, chunk, up>> /\ pc'[r] = "gone"
      /\ \A q \in Req \ {r} : pc'[q] = pc[q]
    BY DEF SettleOutcome, RecoverRequest, Leave, TypeInv, TypeOK, ProcessOK
<1>3. TablesOK' /\ RequestsOK' /\ RowsOK'
  <2>1. /\ {r} \in SUBSET Req /\ UNCHANGED sentTo
        /\ \A q \in Req \ {r} : pc'[q] = pc[q] /\ chunk'[q] = chunk[q]
        /\ up' = up \/ \A q \in Req : pc[q] \in {"free", "gone"}
      BY <1>2
  <2>2. ASSUME NEW keep, NEW crash, NEW o \in Outcomes, SettleTx({r}, keep, crash, o),
               keep[r] \in Int, sentTo[r] <= keep[r], keep[r] <= rq[r].end
        PROVE  TablesOK' /\ RequestsOK' /\ RowsOK'
    <3>1. \A q \in {r} : /\ rq[q].open /\ keep[q] \in Int
                         /\ sentTo[q] <= keep[q] /\ keep[q] <= rq[q].end
                         /\ pc'[q] = "gone" /\ chunk'[q] = chunk[q]
        BY <1>1, <1>2, <2>2
    <3> QED BY <2>1, <2>2, <3>1, SettleTypeInv
  <2>3. CASE SettleOutcome(r)
    <3>0. SettleTx({r} \cap {q \in Req : rq[q].open}, Written, FALSE, outcome[r])
        BY <2>3 DEF SettleOutcome
    <3>1. SettleTx({r}, Written, FALSE, outcome[r]) /\ pc[r] = "settle"
      <4>1. SettleTx({r}, Written, FALSE, outcome[r])
          BY <1>1, <3>0
      <4> QED BY <2>3, <4>1 DEF SettleOutcome
    <3>2. Written[r] \in Int /\ sentTo[r] <= Written[r] /\ Written[r] <= rq[r].end
        BY <3>1, ChargeCoversSent
    <3> QED BY <1>1, <2>2, <3>1, <3>2
  <2>4. CASE RecoverRequest(r)
    <3>1. SettleTx({r} \cap {q \in Req : rq[q].open}, CrashCharged, TRUE, "none")
        BY <2>4 DEF RecoverRequest
    <3>2. SettleTx({r}, CrashCharged, TRUE, "none")
        BY <1>1, <3>1
    <3>3. /\ CrashCharged[r] \in Int /\ sentTo[r] <= CrashCharged[r]
          /\ CrashCharged[r] <= rq[r].end
        BY ChargeCoversSent
    <3> QED BY <1>1, <2>2, <3>2, <3>3
  <2> QED BY <2>3, <2>4
<1>4. ProcessOK'
  <2>1. Leave(r) /\ UNCHANGED <<up, lock, chunk, clock>> /\ ProcessOK
      BY DEF SettleOutcome, RecoverRequest, TypeInv, TypeOK
  <2>2. attempts' \in [Req -> 0 .. MaxAttempts]
      BY <2>1, ConstantsAssumption DEF Leave, ProcessOK
  <2>3. pc' \in [Req -> Labels] /\ outcome' \in [Req -> Outcomes]
      BY <2>1 DEF Leave, ProcessOK, Labels, Outcomes
  <2> QED BY <2>1, <2>2, <2>3 DEF ProcessOK
<1> QED BY <1>3, <1>4 DEF TypeInv, TypeOK

LEMMA RecoverTypeInv ==
    ASSUME TypeInv, Recover
    PROVE  TypeInv'
<1> DEFINE R == {r \in Req : rq[r].open}
<1>1. \A q \in Req : pc[q] \in {"free", "gone"} /\ (q \in R => pc[q] = "gone")
    BY DEF Recover, TypeInv, TypeOK, RowsOK, RowOK, NoRequest
<1>2. UNCHANGED <<sentTo, chunk, pc>> /\ "none" \in Outcomes
    BY DEF Recover, volatile, Outcomes
<1>3. TablesOK' /\ RequestsOK' /\ RowsOK'
  <2>1. SettleTx(R, CrashCharged, TRUE, "none")
      BY DEF Recover
  <2>2. \A r \in R : /\ rq[r].open /\ CrashCharged[r] \in Int
                    /\ sentTo[r] <= CrashCharged[r] /\ CrashCharged[r] <= rq[r].end
                    /\ pc'[r] = "gone" /\ chunk'[r] = chunk[r]
      BY <1>1, <1>2, ChargeCoversSent
  <2>3. \A q \in Req \ R : pc'[q] = pc[q] /\ chunk'[q] = chunk[q]
      BY <1>2
  <2>4. R \in SUBSET Req
      OBVIOUS
  <2> HIDE DEF R
  <2> QED BY <1>1, <1>2, <2>1, <2>2, <2>3, <2>4, SettleTypeInv
<1>4. ProcessOK'
    BY DEF Recover, volatile, TypeInv, TypeOK, ProcessOK
<1> QED BY <1>3, <1>4 DEF TypeInv, TypeOK

LEMMA StepTypeInv == TypeInv /\ [Next]_vars => TypeInv'
<1> SUFFICES ASSUME TypeInv, [Next]_vars PROVE TypeInv'
    OBVIOUS
<1>1. CASE UNCHANGED vars
    BY <1>1 DEF vars, tables, volatile, TypeInv, TypeOK, TablesOK, RequestsOK,
                ProcessOK, RowsOK, RowOK
<1>2. ASSUME NEW r \in Req, Handler(r) PROVE TypeInv'
    BY <1>2, LocalTypeInv, RefuseChunkTypeInv, SendBytesTypeInv, WriteTypeInv,
       SettleOutcomeTypeInv DEF Handler
<1>3. CASE Next
    BY <1>2, <1>3, ReserveTypeInv, EnvironmentTypeInv, CrashTypeInv, RecoverTypeInv DEF Next
<1> QED BY <1>1, <1>3

LEMMA TypeInvariance == Spec => []TypeInv
BY InitTypeInv, StepTypeInv, PTL DEF Spec

\* Every state of the ledger is well typed: in particular the cap on serves
\* holds whatever reservations, settlements and crashes are interleaved.
THEOREM TypeCorrect == Spec => []TypeOK
BY TypeInvariance, PTL DEF TypeInv

-----------------------------------------------------------------------------
(* The serve cap.  TypeInv bounds the count of each byte; what is left is   *)
(* that the count is the number of requests charged for the byte, and that *)
(* nobody sends a byte without being charged for it.                       *)

\* Steps that neither reserve nor settle leave every charge alone.
ChargesKept ==
    /\ serves' = serves /\ hold' = hold
    /\ \A r \in Req : rq'[r].start = rq[r].start

LEMMA ChargingSteps ==
    ASSUME TypeInv, [Next]_vars
    PROVE  \/ ChargesKept
           \/ \E r \in Req, j \in JTI, start \in Bytes, end \in Bytes : Reserve(r, j, start, end)
           \/ \E r \in Req : SettleOutcome(r) \/ RecoverRequest(r)
           \/ Recover
<1>1. CASE UNCHANGED vars
    BY <1>1 DEF vars, tables, ChargesKept
<1>2. ASSUME NEW r \in Req, Checkpoint(r) \/ FinishChunk(r) PROVE ChargesKept
  <2>1. rq' = [rq EXCEPT ![r].written_through = sentTo[r]] /\ UNCHANGED <<serves, hold>>
      BY <1>2 DEF Checkpoint, FinishChunk, Progress
  <2> QED BY <2>1 DEF ChargesKept, TypeInv, TypeOK, RequestsOK, Request
<1>3. ASSUME NEW r \in Req, Handler(r), ~(SettleOutcome(r) \/ RecoverRequest(r))
      PROVE  ChargesKept
    BY <1>2, <1>3 DEF Handler, ChargesKept, tables, BeginChunk, RefuseChunk, SendBytes,
       SendExpired, ProgressFails, StopDownload, SettleFails, RecoverRequestFails
<1>4. ASSUME \/ \E j \in JTI : FinishEmpty(j)
             \/ \E j \in Revocable : Revoke(j)
             \/ \E s \in OfferStates : PutOffer(s)
             \/ \E c \in Content : PutFile(c)
             \/ CloseExpired \/ Tick \/ Crash
      PROVE  ChargesKept
    BY <1>4 DEF FinishEmpty, Revoke, PutOffer, PutFile, CloseExpired, Tick, Crash,
       ChargesKept, tables
<1>5. CASE Next
    BY <1>3, <1>4, <1>5 DEF Next
<1> QED BY <1>1, <1>5

LEMMA ReserveCharges ==
    ASSUME TypeInv, ServesAccounted, NEW r \in Req, NEW j \in JTI,
           NEW start \in Bytes, NEW end \in Bytes, Reserve(r, j, start, end)
    PROVE  ServesAccounted'
<1> PICK last \in start .. end :
        /\ serves' = Charge(start, last)
        /\ rq' = [rq EXCEPT ![r] =
                    [jti |-> j, start |-> start, end |-> last,
                     written_through |-> start - 1, open |-> TRUE,
                     isolated |-> (start > 0 /\ start - 1 \notin transmitted)]]
        /\ hold' = [hold EXCEPT ![r] = last]
    BY DEF Reserve
<1> SUFFICES ASSUME NEW b \in Bytes
             PROVE  serves'[b] = Cardinality(HeldBy(b)')
    BY DEF ServesAccounted
<1>1. /\ rq'[r].start = start /\ hold'[r] = last
      /\ \A q \in Req \ {r} : rq'[q] = rq[q] /\ hold'[q] = hold[q]
    BY DEF TypeInv, TypeOK, RequestsOK
<1>2. r \notin HeldBy(b)
    BY DEF Reserve, TypeInv, RowsOK, RowOK, NoRequest, HeldBy
<1>3. HeldBy(b)' = IF b \in start .. last THEN HeldBy(b) \cup {r} ELSE HeldBy(b)
    BY <1>1, <1>2 DEF HeldBy
<1>4. IsFiniteSet(HeldBy(b)) /\ Cardinality(HeldBy(b)) \in Nat
    BY FiniteRequests DEF HeldBy
<1>5. Cardinality(HeldBy(b) \cup {r}) = Cardinality(HeldBy(b)) + 1
    BY <1>2, <1>4, FS_AddElement
<1>6. serves[b] = Cardinality(HeldBy(b))
    BY DEF ServesAccounted
<1> QED BY <1>3, <1>5, <1>6 DEF Charge

LEMMA SettleReleases ==
    ASSUME TypeInv, ServesAccounted, NEW R \in SUBSET Req, NEW keep, NEW crash, NEW o,
           SettleTx(R, keep, crash, o),
           \A r \in R : rq[r].open /\ keep[r] \in Int /\ keep[r] <= rq[r].end
    PROVE  ServesAccounted'
<1> SUFFICES ASSUME NEW b \in Bytes
             PROVE  serves'[b] = Cardinality(HeldBy(b)')
    BY DEF ServesAccounted
<1> DEFINE X == {r \in R : b \in rq[r].start .. rq[r].end /\ b > keep[r]}
<1>1. serves'[b] = Monus(serves[b], Cardinality(X))
    BY DEF SettleTx, Release
<1>2. \A q \in Req : /\ rq'[q].start = rq[q].start
                     /\ hold'[q] = IF q \in R THEN keep[q] ELSE hold[q]
    BY DEF SettleTx, TypeInv, TypeOK, RequestsOK, Request
<1>3. \A r \in R : /\ hold[r] = rq[r].end /\ rq[r].end \in Int /\ rq[r].start \in Nat
                   /\ keep[r] \in Int /\ keep[r] <= rq[r].end
    BY DEF TypeInv, TypeOK, RequestsOK, Request, RowsOK, RowOK
<1>4. b \in Int
    BY BytesType
<1>5. X \subseteq HeldBy(b)
    BY <1>3 DEF HeldBy
<1>6. HeldBy(b)' = HeldBy(b) \ X
  <2>1. ASSUME NEW q \in R
        PROVE  (b \in rq[q].start .. keep[q]) <=> (b \in rq[q].start .. hold[q] /\ q \notin X)
      BY <1>3, <1>4
  <2> HIDE DEF X
  <2>2. X \subseteq R
      BY DEF X
  <2> QED BY <1>2, <2>1, <2>2 DEF HeldBy
<1> HIDE DEF X
<1>7. IsFiniteSet(HeldBy(b)) /\ Cardinality(HeldBy(b)) \in Nat
    BY FiniteRequests DEF HeldBy
<1>8. IsFiniteSet(X) /\ Cardinality(X) \in Nat /\ Cardinality(X) <= Cardinality(HeldBy(b))
    BY <1>5, <1>7, FS_Subset, FS_CardinalityType
<1>9. Cardinality(HeldBy(b) \ X) = Cardinality(HeldBy(b)) - Cardinality(X)
  <2>1. HeldBy(b) \cap X = X
      BY <1>5
  <2> QED BY <1>7, <2>1, FS_Difference
<1>10. serves[b] = Cardinality(HeldBy(b))
    BY DEF ServesAccounted
<1> QED BY <1>1, <1>6, <1>7, <1>8, <1>9, <1>10 DEF Monus

LEMMA ChargesStep == TypeInv /\ ServesAccounted /\ [Next]_vars => ServesAccounted'
<1> SUFFICES ASSUME TypeInv, ServesAccounted, [Next]_vars PROVE ServesAccounted'
    OBVIOUS
<1>1. CASE ChargesKept
    BY <1>1 DEF ChargesKept, ServesAccounted, HeldBy
<1>2. ASSUME NEW r \in Req, SettleOutcome(r) \/ RecoverRequest(r) PROVE ServesAccounted'
  <2>1. {r} \cap {q \in Req : rq[q].open} \in SUBSET Req
      OBVIOUS
  <2> QED BY <1>2, <2>1, ChargeCoversSent, SettleReleases DEF SettleOutcome, RecoverRequest
<1>3. CASE Recover
  <2>1. {q \in Req : rq[q].open} \in SUBSET Req
      OBVIOUS
  <2> QED BY <1>3, <2>1, ChargeCoversSent, SettleReleases DEF Recover
<1> QED BY <1>1, <1>2, <1>3, ChargingSteps, ReserveCharges

\* The serve count of every byte is the number of requests that reserved it
\* and were not settled below it, however reservations, settlements, failed
\* settlements and crash recoveries interleave (Reserve, settle, Recover).
THEOREM ServesExact == Spec => []ServesAccounted
<1>1. Init => ServesAccounted
  <2> SUFFICES ASSUME Init, NEW b \in Bytes PROVE serves[b] = Cardinality(HeldBy(b))
      BY DEF ServesAccounted
  <2>1. HeldBy(b) = {}
      BY DEF Init, NoRequest, HeldBy
  <2> QED BY <2>1, FS_EmptySet DEF Init
<1> QED BY <1>1, TypeInvariance, ChargesStep, PTL DEF Spec

\* No byte of the ordered file is handed to the network more than MaxServe
\* times, whatever crashes between sending it and recording it
\* (crashWindow, TestGLM2RepeatedCrashesNeverAllowThirdWrite).
THEOREM ServeCap == Spec => []NoThirdServe
<1>1. TypeInv /\ ServesAccounted => NoThirdServe
  <2> SUFFICES ASSUME TypeInv, ServesAccounted, NEW b \in Bytes
               PROVE  Cardinality(SentBy(b)) <= MaxServe
      BY DEF NoThirdServe
  <2>1. ASSUME NEW r \in Req
        PROVE  sentTo[r] \in Int /\ hold[r] \in Int /\ sentTo[r] <= hold[r]
               /\ rq[r].start \in Nat
      BY DEF TypeInv, TypeOK, RequestsOK, Request, RowsOK, RowOK
  <2>2. SentBy(b) \subseteq HeldBy(b)
      BY <2>1, BytesType DEF SentBy, HeldBy
  <2>3. IsFiniteSet(HeldBy(b)) /\ IsFiniteSet(SentBy(b))
        /\ Cardinality(HeldBy(b)) \in Nat /\ Cardinality(SentBy(b)) \in Nat
      BY FiniteRequests DEF HeldBy, SentBy
  <2>4. Cardinality(SentBy(b)) <= Cardinality(HeldBy(b))
      BY <2>2, <2>3, FS_Subset
  <2>5. Cardinality(HeldBy(b)) <= MaxServe
      BY ConstantsAssumption DEF ServesAccounted, TypeInv, TypeOK, TablesOK
  <2> QED BY <2>3, <2>4, <2>5, ConstantsAssumption
<1> QED BY <1>1, TypeInvariance, ServesExact, PTL
-----------------------------------------------------------------------------
(* Coverage: the table transmitted between what was checkpointed and what   *)
(* was sent.                                                                *)

\* Every byte a request checkpointed is covered, and every covered byte was
\* sent by some request.
CoverageInv ==
    /\ \A r \in Req : rq[r].start .. rq[r].written_through \subseteq transmitted
    /\ TransmittedWasSent

\* Steps other than reservations and checkpoints change no coverage.
CoverageKept ==
    /\ transmitted' = transmitted
    /\ \A r \in Req : /\ rq'[r].start = rq[r].start
                      /\ rq'[r].written_through = rq[r].written_through
                      /\ sentTo'[r] \in Int /\ sentTo[r] <= sentTo'[r]

LEMMA SettleKeepsCoverage ==
    ASSUME TypeInv, NEW R, NEW keep, NEW crash, NEW o,
           SettleTx(R, keep, crash, o), UNCHANGED sentTo
    PROVE  CoverageKept
<1>1. \A q \in Req : /\ rq'[q].start = rq[q].start
                     /\ rq'[q].written_through = rq[q].written_through
    BY DEF SettleTx, TypeInv, TypeOK, RequestsOK, Request
<1>2. \A q \in Req : sentTo[q] \in Int
    BY DEF TypeInv, TypeOK, RequestsOK
<1> QED BY <1>1, <1>2 DEF SettleTx, CoverageKept

LEMMA CoveringSteps ==
    ASSUME TypeInv, [Next]_vars
    PROVE  \/ CoverageKept
           \/ \E r \in Req, j \in JTI, start \in Bytes, end \in Bytes : Reserve(r, j, start, end)
           \/ \E r \in Req : Progress(r, sentTo[r]) /\ UNCHANGED sentTo
<1>0. \A r \in Req : sentTo[r] \in Int
    BY DEF TypeInv, TypeOK, RequestsOK
<1>1. ASSUME UNCHANGED <<transmitted, rq, sentTo>> PROVE CoverageKept
    BY <1>0, <1>1 DEF CoverageKept
<1>2. ASSUME NEW r \in Req, NEW n \in 0 .. Window, SendBytes(r, n) PROVE CoverageKept
  <2>1. sentTo' = [sentTo EXCEPT ![r] = @ + n] /\ UNCHANGED <<transmitted, rq>>
      BY <1>2 DEF SendBytes, tables
  <2>2. n \in Nat
      BY <1>2, ConstantsAssumption
  <2> QED BY <1>0, <2>1, <2>2 DEF CoverageKept, TypeInv, TypeOK, RequestsOK
<1>3. ASSUME NEW r \in Req, Checkpoint(r) \/ FinishChunk(r)
      PROVE  Progress(r, sentTo[r]) /\ UNCHANGED sentTo
    BY <1>3 DEF Checkpoint, FinishChunk
<1>4. ASSUME NEW r \in Req, SettleOutcome(r) \/ RecoverRequest(r) PROVE CoverageKept
    BY <1>4, SettleKeepsCoverage DEF SettleOutcome, RecoverRequest
<1>5. CASE Recover
    BY <1>5, SettleKeepsCoverage DEF Recover
<1>6. ASSUME NEW r \in Req,
             \/ \E goal \in Bytes : BeginChunk(r, goal)
             \/ RefuseChunk(r) \/ SendExpired(r) \/ ProgressFails(r)
             \/ \E o \in Outcomes : StopDownload(r, o)
             \/ SettleFails(r) \/ RecoverRequestFails(r)
      PROVE  CoverageKept
  <2>1. UNCHANGED <<transmitted, rq, sentTo>>
      BY <1>6 DEF BeginChunk, RefuseChunk, SendExpired, ProgressFails, StopDownload,
                  SettleFails, RecoverRequestFails, tables
  <2> QED BY <1>1, <2>1
<1>7. ASSUME NEW r \in Req, Handler(r)
      PROVE  CoverageKept \/ (Progress(r, sentTo[r]) /\ UNCHANGED sentTo)
  <2>1. CASE \E n \in 0 .. Window : SendBytes(r, n)
      BY <1>2, <2>1
  <2>2. CASE Checkpoint(r) \/ FinishChunk(r)
      BY <1>3, <2>2
  <2>3. CASE SettleOutcome(r) \/ RecoverRequest(r)
      BY <1>4, <2>3
  <2>4. CASE \/ \E goal \in Bytes : BeginChunk(r, goal)
             \/ RefuseChunk(r) \/ SendExpired(r) \/ ProgressFails(r)
             \/ \E o \in Outcomes : StopDownload(r, o)
             \/ SettleFails(r) \/ RecoverRequestFails(r)
      BY <1>6, <2>4
  <2> QED BY <1>7, <2>1, <2>2, <2>3, <2>4 DEF Handler
<1>8. ASSUME \/ \E j \in JTI : FinishEmpty(j)
             \/ \E j \in Revocable : Revoke(j)
             \/ \E s \in OfferStates : PutOffer(s)
             \/ \E c \in Content : PutFile(c)
             \/ CloseExpired \/ Tick \/ Crash \/ UNCHANGED vars
      PROVE  CoverageKept
  <2>1. UNCHANGED <<transmitted, rq, sentTo>>
      BY <1>8 DEF FinishEmpty, Revoke, PutOffer, PutFile, CloseExpired, Tick, Crash,
                  vars, tables
  <2> QED BY <1>1, <2>1
<1> QED BY <1>5, <1>7, <1>8 DEF Next

LEMMA KeptCoverage ==
    ASSUME TypeInv, CoverageInv, CoverageKept
    PROVE  CoverageInv'
<1>1. \A r \in Req : (rq[r].start .. rq[r].written_through)'
                        = rq[r].start .. rq[r].written_through
    BY DEF CoverageKept
<1>2. ASSUME NEW b \in transmitted' PROVE SentBy(b)' # {}
  <2>1. PICK r \in Req : b \in rq[r].start .. sentTo[r]
      BY <1>2 DEF CoverageInv, TransmittedWasSent, SentBy, CoverageKept
  <2>2. b \in (rq[r].start .. sentTo[r])'
      BY <2>1 DEF CoverageKept, TypeInv, TypeOK, RequestsOK, Request
  <2> QED BY <2>2 DEF SentBy
<1> QED BY <1>1, <1>2 DEF CoverageInv, TransmittedWasSent, CoverageKept

LEMMA ReserveCoverage ==
    ASSUME TypeInv, CoverageInv, NEW r \in Req, NEW j \in JTI,
           NEW start \in Bytes, NEW end \in Bytes, Reserve(r, j, start, end)
    PROVE  CoverageInv'
<1> PICK last \in start .. end :
        /\ rq' = [rq EXCEPT ![r] =
                    [jti |-> j, start |-> start, end |-> last,
                     written_through |-> start - 1, open |-> TRUE,
                     isolated |-> (start > 0 /\ start - 1 \notin transmitted)]]
        /\ sentTo' = [sentTo EXCEPT ![r] = start - 1]
        /\ transmitted' = transmitted
    BY DEF Reserve
<1>0. start \in Nat
    BY BytesType
<1>1. /\ rq'[r].start = start /\ rq'[r].written_through = start - 1
      /\ \A q \in Req \ {r} : rq'[q] = rq[q] /\ sentTo'[q] = sentTo[q]
    BY DEF TypeInv, TypeOK, RequestsOK
<1>2. ASSUME NEW q \in Req
      PROVE  (rq[q].start .. rq[q].written_through)' \subseteq transmitted
    BY <1>0, <1>1 DEF CoverageInv
<1>3. ASSUME NEW b \in transmitted PROVE SentBy(b)' # {}
  <2>1. PICK q \in Req : b \in rq[q].start .. sentTo[q]
      BY <1>3 DEF CoverageInv, TransmittedWasSent, SentBy
  <2>2. q # r
      BY <2>1 DEF Reserve, TypeInv, RowsOK, RowOK, NoRequest
  <2> QED BY <1>1, <2>1, <2>2 DEF SentBy
<1> QED BY <1>2, <1>3 DEF CoverageInv, TransmittedWasSent

LEMMA ProgressCoverage ==
    ASSUME TypeInv, CoverageInv, NEW r \in Req, Progress(r, sentTo[r]), UNCHANGED sentTo
    PROVE  CoverageInv'
<1> DEFINE w == rq[r].written_through
<1>0. /\ w \in Int /\ sentTo[r] \in Int /\ rq[r].start \in Nat
      /\ rq[r].start - 1 <= w /\ w <= sentTo[r]
    BY DEF TypeInv, TypeOK, RequestsOK, Request, RowsOK, RowOK
<1>1. transmitted' = transmitted \cup (w + 1 .. sentTo[r])
    BY <1>0 DEF Progress
<1>2. /\ rq'[r].start = rq[r].start /\ rq'[r].written_through = sentTo[r]
      /\ \A q \in Req \ {r} : rq'[q] = rq[q]
  <2>1. /\ rq' = [rq EXCEPT ![r].written_through = sentTo[r]]
        /\ rq'[r] = [rq[r] EXCEPT !.written_through = sentTo[r]]
      BY ProgressType
  <2> QED BY <2>1 DEF TypeInv, TypeOK, RequestsOK, Request
<1>3. ASSUME NEW q \in Req
      PROVE  (rq[q].start .. rq[q].written_through)' \subseteq transmitted'
    BY <1>0, <1>1, <1>2 DEF CoverageInv
<1>4. ASSUME NEW b \in transmitted' PROVE SentBy(b)' # {}
  <2>1. \A q \in Req : rq'[q].start = rq[q].start
      BY <1>2
  <2>2. CASE b \in transmitted
      BY <2>1, <2>2 DEF CoverageInv, TransmittedWasSent, SentBy
  <2>3. CASE b \in w + 1 .. sentTo[r]
    <3>1. b \in (rq[r].start .. sentTo[r])'
        BY <1>0, <2>1, <2>3
    <3> QED BY <3>1 DEF SentBy
  <2> QED BY <1>1, <1>4, <2>2, <2>3
<1> QED BY <1>3, <1>4 DEF CoverageInv, TransmittedWasSent

LEMMA CoverageInvariance == Spec => []CoverageInv
<1>1. Init => CoverageInv
    BY DEF Init, CoverageInv, TransmittedWasSent, NoRequest
<1>2. TypeInv /\ CoverageInv /\ [Next]_vars => CoverageInv'
    BY CoveringSteps, KeptCoverage, ReserveCoverage, ProgressCoverage
<1> QED BY <1>1, <1>2, TypeInvariance, PTL DEF Spec

\* The coverage ai.market is told about consists of bytes that were handed to
\* the network (Progress in WriteChunk's windows).
THEOREM CoverageSent == Spec => []TransmittedWasSent
BY CoverageInvariance, PTL DEF CoverageInv

\* A request has at most one checkpoint window of bytes that no table shows,
\* all it checkpointed is covered, and it is charged for all it sent
\* (WriteChunk, crashWindow, settle).
THEOREM OneWindow == Spec => []OneWindowAtRisk
<1>1. TypeInv /\ CoverageInv => OneWindowAtRisk
    BY DEF CoverageInv, TypeInv, RowsOK, RowOK, OneWindowAtRisk
<1> QED BY <1>1, TypeInvariance, CoverageInvariance, PTL

-----------------------------------------------------------------------------
(* The order/file mutex and the completion of the order.                   *)

\* A handler between the checks of WriteChunk and its return holds the lock,
\* and the order is not completed meanwhile.
WriterInv == \A r \in Req : pc[r] \in {"send", "checkpoint", "final"}
                               => lock = r /\ ~completed

LEMMA WriterStep == TypeInv /\ WriterInv /\ [Next]_vars => WriterInv'
<1> SUFFICES ASSUME TypeInv, WriterInv, [Next]_vars, NEW q \in Req,
                    pc'[q] \in {"send", "checkpoint", "final"}
             PROVE  lock' = q /\ ~completed'
    BY DEF WriterInv
<1> USE DEF WriterInv
<1>0. /\ pc \in [Req -> Labels] /\ None \notin Req
      /\ pc[q] \in {"send", "checkpoint", "final"} => up
    BY ConstantsAssumption DEF TypeInv, TypeOK, ProcessOK, RowsOK, RowOK
<1>1. ASSUME NEW r \in Req, Handler(r) PROVE lock' = q /\ ~completed'
  <2>1. ASSUME NEW goal \in Bytes, BeginChunk(r, goal) PROVE lock' = q /\ ~completed'
      BY <1>0, <2>1 DEF BeginChunk, Writable, tables
  <2>2. ASSUME RefuseChunk(r) PROVE lock' = q /\ ~completed'
      BY <1>0, <2>2 DEF RefuseChunk
  <2>3. ASSUME NEW n \in 0 .. Window, SendBytes(r, n) PROVE lock' = q /\ ~completed'
    <3>1. pc[r] = "send" /\ UNCHANGED <<lock, completed>>
          /\ \A p \in Req \ {r} : pc'[p] = pc[p]
        BY <1>0, <2>3 DEF SendBytes, tables
    <3> QED BY <3>1
  <2>4. ASSUME SendExpired(r) PROVE lock' = q /\ ~completed'
      BY <1>0, <2>4 DEF SendExpired, tables
  <2>5. ASSUME Checkpoint(r) PROVE lock' = q /\ ~completed'
    <3>1. pc[r] = "checkpoint" /\ UNCHANGED <<lock, completed>>
          /\ \A p \in Req \ {r} : pc'[p] = pc[p]
        BY <1>0, <2>5 DEF Checkpoint
    <3> QED BY <3>1
  <2>6. ASSUME FinishChunk(r) PROVE lock' = q /\ ~completed'
    <3>1. /\ pc[r] = "final" /\ pc'[r] \in {"settle", "idle"}
          /\ \A p \in Req \ {r} : pc'[p] = pc[p]
        BY <1>0, <2>6 DEF FinishChunk
    <3> QED BY <3>1
  <2>7. ASSUME ProgressFails(r) PROVE lock' = q /\ ~completed'
      BY <1>0, <2>7 DEF ProgressFails
  <2>8. ASSUME NEW o \in Outcomes, StopDownload(r, o) PROVE lock' = q /\ ~completed'
      BY <1>0, <2>8 DEF StopDownload, tables
  <2>9. ASSUME SettleOutcome(r) \/ RecoverRequest(r) PROVE lock' = q /\ ~completed'
      BY <1>0, <2>9 DEF SettleOutcome, RecoverRequest, Leave
  <2>10. ASSUME SettleFails(r) \/ RecoverRequestFails(r) PROVE lock' = q /\ ~completed'
      BY <1>0, <2>10 DEF SettleFails, RecoverRequestFails, Leave, tables
  <2> QED BY <1>1, <2>1, <2>2, <2>3, <2>4, <2>5, <2>6, <2>7, <2>8, <2>9, <2>10 DEF Handler
<1>2. ASSUME NEW r \in Req, NEW j \in JTI, NEW start \in Bytes, NEW end \in Bytes,
             Reserve(r, j, start, end)
      PROVE  lock' = q /\ ~completed'
    BY <1>0, <1>2 DEF Reserve
<1>3. ASSUME NEW j \in JTI, FinishEmpty(j) PROVE lock' = q /\ ~completed'
    BY <1>0, <1>3 DEF FinishEmpty, volatile
<1>4. ASSUME \/ \E j \in Revocable : Revoke(j)
             \/ \E s \in OfferStates : PutOffer(s)
             \/ \E c \in Content : PutFile(c)
             \/ CloseExpired \/ Tick \/ UNCHANGED vars
      PROVE  lock' = q /\ ~completed'
  <2>1. UNCHANGED <<pc, lock, completed>>
      BY <1>4 DEF Revoke, PutOffer, PutFile, CloseExpired, Tick, vars, volatile, tables
  <2> QED BY <2>1
<1>5. ASSUME Crash PROVE lock' = q /\ ~completed'
    BY <1>5 DEF Crash
<1>6. ASSUME Recover PROVE lock' = q /\ ~completed'
    BY <1>0, <1>6 DEF Recover, volatile
<1> QED BY <1>1, <1>2, <1>3, <1>4, <1>5, <1>6 DEF Next

LEMMA WriterInvariance == Spec => []WriterInv
<1>1. Init => WriterInv
    BY DEF Init, WriterInv
<1> QED BY <1>1, WriterStep, TypeInvariance, PTL DEF Spec

LEMMA QuietAfterComplete == TypeInv /\ WriterInv /\ [Next]_vars => [completed => UNCHANGED sentTo]_vars
<1> SUFFICES ASSUME TypeInv, WriterInv, Next, completed PROVE UNCHANGED sentTo
    OBVIOUS
<1>1. ASSUME NEW r \in Req, Handler(r) PROVE UNCHANGED sentTo
  <2>1. ~(\E n \in 0 .. Window : SendBytes(r, n))
      BY DEF SendBytes, WriterInv
  <2> QED BY <1>1, <2>1 DEF Handler, tables, BeginChunk, RefuseChunk, SendExpired, Checkpoint,
       FinishChunk, ProgressFails, StopDownload, SettleOutcome, SettleFails,
       RecoverRequest, RecoverRequestFails
<1>2. ~(\E r \in Req, j \in JTI, start \in Bytes, end \in Bytes : Reserve(r, j, start, end))
    BY DEF Reserve, MayReserve
<1> QED BY <1>1, <1>2 DEF Next, FinishEmpty, Revoke, PutOffer, PutFile, CloseExpired,
       Crash, Recover, Tick, tables

\* Once the order is completed nothing more of it is handed to the network:
\* completion takes the lock a writing handler holds, and every later check
\* sees the completed row (WriteChunk, settle, FinishEmpty).
THEOREM SilenceAfterComplete == Spec => NoByteAfterComplete
BY QuietAfterComplete, TypeInvariance, WriterInvariance, PTL DEF Spec, NoByteAfterComplete
-----------------------------------------------------------------------------
(* Revocation.                                                              *)

LEMMA ClosingKeepsRevoked ==
    ASSUME RevokedNeverBound, NEW P, perm' = CloseBound(P), UNCHANGED revocations,
           revocations \subseteq JTI
    PROVE  RevokedNeverBound'
BY DEF RevokedNeverBound, CloseBound

LEMMA RevokedStep == TypeInv /\ RevokedNeverBound /\ [Next]_vars => RevokedNeverBound'
<1> SUFFICES ASSUME TypeInv, RevokedNeverBound, [Next]_vars PROVE RevokedNeverBound'
    OBVIOUS
<1>0. revocations \subseteq JTI /\ perm \in [JTI -> {"absent", "bound", "closed", "revoked"}]
    BY DEF TypeInv, TypeOK, TablesOK
<1>1. ASSUME UNCHANGED <<perm, revocations>> PROVE RevokedNeverBound'
    BY <1>1 DEF RevokedNeverBound
<1>2. ASSUME NEW R, NEW keep, NEW crash, NEW o, SettleTx(R, keep, crash, o)
      PROVE  RevokedNeverBound'
  <2>1. UNCHANGED revocations /\ (perm' = CloseBound(JTI) \/ UNCHANGED perm)
      BY <1>2 DEF SettleTx
  <2> QED BY <1>0, <1>1, <2>1, ClosingKeepsRevoked
<1>3. ASSUME NEW r \in Req, Handler(r) PROVE RevokedNeverBound'
  <2>1. CASE RefuseChunk(r) \/ FinishChunk(r)
    <3>1. UNCHANGED revocations /\ (perm' = CloseBound(Expired) \/ UNCHANGED perm)
        BY <2>1 DEF RefuseChunk, FinishChunk
    <3> QED BY <1>0, <1>1, <3>1, ClosingKeepsRevoked
  <2>2. CASE SettleOutcome(r) \/ RecoverRequest(r)
      BY <1>2, <2>2 DEF SettleOutcome, RecoverRequest
  <2>3. CASE ~(RefuseChunk(r) \/ FinishChunk(r)) /\ ~(SettleOutcome(r) \/ RecoverRequest(r))
    <3>1. UNCHANGED <<perm, revocations>>
        BY <1>3, <2>3 DEF Handler, tables, BeginChunk, SendBytes, SendExpired, Checkpoint,
           ProgressFails, StopDownload, SettleFails, RecoverRequestFails
    <3> QED BY <1>1, <3>1
  <2> QED BY <2>1, <2>2, <2>3
<1>4. ASSUME NEW r \in Req, NEW j \in JTI, NEW start \in Bytes, NEW end \in Bytes,
             Reserve(r, j, start, end)
      PROVE  RevokedNeverBound'
  <2>1. perm' = [perm EXCEPT ![j] = "bound"] /\ UNCHANGED revocations /\ j \notin revocations
      BY <1>4 DEF Reserve, MayReserve
  <2> QED BY <1>0, <2>1 DEF RevokedNeverBound
<1>5. ASSUME NEW j \in JTI, FinishEmpty(j) PROVE RevokedNeverBound'
  <2>1. /\ perm' = [CloseBound(JTI) EXCEPT ![j] = "closed"]
        /\ UNCHANGED revocations /\ j \notin revocations
      BY <1>5 DEF FinishEmpty, MayFinishEmpty
  <2> QED BY <1>0, <2>1 DEF RevokedNeverBound, CloseBound
<1>6. ASSUME NEW j \in Revocable, Revoke(j) PROVE RevokedNeverBound'
  <2>1. j \in JTI
      BY ConstantsAssumption
  <2> QED BY <1>0, <1>6, <2>1 DEF RevokedNeverBound, Revoke
<1>7. CASE CloseExpired
    BY <1>0, <1>7, ClosingKeepsRevoked DEF CloseExpired
<1>8. CASE Recover
    BY <1>2, <1>8 DEF Recover
<1>9. ASSUME \/ \E s \in OfferStates : PutOffer(s)
             \/ \E c \in Content : PutFile(c)
             \/ Tick \/ Crash \/ UNCHANGED vars
      PROVE  RevokedNeverBound'
  <2>1. UNCHANGED <<perm, revocations>>
      BY <1>9 DEF PutOffer, PutFile, Tick, Crash, vars, tables
  <2> QED BY <1>1, <2>1
<1> QED BY <1>3, <1>4, <1>5, <1>6, <1>7, <1>8, <1>9 DEF Next

\* A revoked permission is never bound, also when the revocation came before
\* the permission was first presented (Revoke, Reserve, FinishEmpty).
THEOREM RevocationHolds == Spec => []RevokedNeverBound
<1>1. Init => RevokedNeverBound
    BY DEF Init, RevokedNeverBound
<1> QED BY <1>1, RevokedStep, TypeInvariance, PTL DEF Spec

-----------------------------------------------------------------------------
(* Receipts, completion and the refinement *)

\* No permission comes back and none is bound.
PermissionsAge ==
    \A j \in JTI : /\ perm[j] = "revoked" => perm'[j] = "revoked"
                   /\ perm[j] = "closed" => perm'[j] \in {"closed", "revoked"}
                   /\ perm'[j] = "bound" => perm[j] = "bound"

\* Steps that leave requests, coverage, completion and receipts alone.
Quiet == UNCHANGED <<rq, transmitted, completed, outbox>> /\ PermissionsAge

\* A settlement of open rows.
Settles(R, keep, crash, o) == SettleTx(R, keep, crash, o) /\ \A r \in R : rq[r].open

LEMMA ClosingAges ==
    ASSUME TypeInv, NEW P, perm' = CloseBound(P) \/ UNCHANGED perm
    PROVE  PermissionsAge
BY DEF PermissionsAge, CloseBound, TypeInv, TypeOK, TablesOK

\* What any step is to the receipts.
LEMMA LedgerSteps ==
    ASSUME TypeInv, [Next]_vars
    PROVE  \/ Quiet
           \/ \E r \in Req, j \in JTI, start \in Bytes, end \in Bytes : Reserve(r, j, start, end)
           \/ \E r \in Req : Checkpoint(r) \/ FinishChunk(r)
           \/ \E R \in SUBSET Req, o \in Outcomes : \E keep, crash : Settles(R, keep, crash, o)
           \/ \E j \in JTI : FinishEmpty(j)
<1>1. ASSUME NEW r \in Req,
             \/ \E goal \in Bytes : BeginChunk(r, goal)
             \/ RefuseChunk(r)
             \/ \E n \in 0 .. Window : SendBytes(r, n)
             \/ SendExpired(r) \/ ProgressFails(r)
             \/ \E o \in Outcomes : StopDownload(r, o)
             \/ SettleFails(r) \/ RecoverRequestFails(r)
      PROVE  Quiet
  <2>1. /\ UNCHANGED <<rq, transmitted, completed, outbox>>
        /\ perm' = CloseBound(Expired) \/ UNCHANGED perm
      BY <1>1 DEF BeginChunk, RefuseChunk, SendBytes, SendExpired, ProgressFails,
                  StopDownload, SettleFails, RecoverRequestFails, tables
  <2> QED BY <2>1, ClosingAges DEF Quiet
<1>2. ASSUME NEW r \in Req, SettleOutcome(r) \/ RecoverRequest(r)
      PROVE  \E R \in SUBSET Req, o \in Outcomes : \E keep, crash : Settles(R, keep, crash, o)
  <2>1. DEFINE R == {r} \cap {q \in Req : rq[q].open}
  <2>2. R \in SUBSET Req /\ \A q \in R : rq[q].open
      OBVIOUS
  <2>3. outcome[r] \in Outcomes /\ "none" \in Outcomes
      BY DEF TypeInv, TypeOK, ProcessOK, Outcomes
  <2>4. CASE SettleOutcome(r)
      BY <2>2, <2>3, <2>4 DEF SettleOutcome, Settles
  <2>5. CASE RecoverRequest(r)
      BY <2>2, <2>3, <2>5 DEF RecoverRequest, Settles
  <2> QED BY <1>2, <2>4, <2>5
<1>3. ASSUME Recover
      PROVE  \E R \in SUBSET Req, o \in Outcomes : \E keep, crash : Settles(R, keep, crash, o)
  <2>1. {q \in Req : rq[q].open} \in SUBSET Req /\ "none" \in Outcomes
      BY DEF Outcomes
  <2> QED BY <1>3, <2>1 DEF Recover, Settles
<1>4. ASSUME NEW j \in Revocable, Revoke(j) PROVE Quiet
  <2>1. j \in JTI
      BY ConstantsAssumption
  <2> QED BY <1>4, <2>1 DEF Revoke, Quiet, PermissionsAge, TypeInv, TypeOK, TablesOK
<1>5. ASSUME \/ \E s \in OfferStates : PutOffer(s)
             \/ \E c \in Content : PutFile(c)
             \/ CloseExpired \/ Crash \/ Tick \/ UNCHANGED vars
      PROVE  Quiet
  <2>1. /\ UNCHANGED <<rq, transmitted, completed, outbox>>
        /\ perm' = CloseBound(Expired) \/ UNCHANGED perm
      BY <1>5 DEF PutOffer, PutFile, CloseExpired, Crash, Tick, vars, tables
  <2> QED BY <2>1, ClosingAges DEF Quiet
<1> QED BY <1>1, <1>2, <1>3, <1>4, <1>5 DEF Next, Handler

-----------------------------------------------------------------------------
(* Cumulative receipts.                                                     *)

\* The outbox gains a receipt of outcome o that carries the coverage as it is
\* after the step.
Receipted(o) ==
    outbox' = Append(outbox, [outcome |-> o, tr |-> transmitted', content |-> file])

\* A checkpoint queues the coverage it makes; a settlement queues at most one
\* receipt of the coverage it finds, and only a completion is "complete".
LEMMA CheckpointReceipts ==
    ASSUME TypeInv, NEW r \in Req, Checkpoint(r) \/ FinishChunk(r)
    PROVE  /\ transmitted \subseteq transmitted' /\ completed' = completed
           /\ PermissionsAge
           /\ \A q \in Req : rq'[q].open = rq[q].open
           /\ UNCHANGED <<transmitted, outbox>> \/ Receipted("in_progress")
<1>1. Progress(r, sentTo[r]) /\ completed' = completed
    BY DEF Checkpoint, FinishChunk
<1>2. perm' = CloseBound(Expired) \/ UNCHANGED perm
    BY DEF Checkpoint, FinishChunk
<1>3. \A q \in Req : rq'[q].open = rq[q].open
  <2>1. rq' = [rq EXCEPT ![r].written_through = sentTo[r]]
      BY <1>1, ProgressType
  <2> QED BY <2>1 DEF TypeInv, TypeOK, RequestsOK, Request
<1> QED BY <1>1, <1>2, <1>3, ClosingAges DEF Progress, QueueReceipt, Receipted

LEMMA SettlementReceipts ==
    ASSUME TypeInv, NEW R \in SUBSET Req, NEW o \in Outcomes, NEW keep, NEW crash,
           Settles(R, keep, crash, o)
    PROVE  /\ transmitted' = transmitted
           /\ PermissionsAge
           /\ \A q \in Req : rq'[q].open <=> rq[q].open /\ q \notin R
           /\ \/ UNCHANGED <<outbox, completed>> /\ (R = {} \/ ~Full(transmitted, file))
              \/ /\ R # {} /\ Full(transmitted, file)
                 /\ completed' = TRUE /\ \A j \in JTI : perm'[j] # "bound"
                 /\ IF completed THEN UNCHANGED outbox ELSE Receipted("complete")
              \/ /\ R # {} /\ ~Full(transmitted, file)
                 /\ completed' = completed /\ Receipted(o)
<1>1. /\ transmitted' = transmitted
      /\ perm' = CloseBound(JTI) \/ UNCHANGED perm
    BY DEF Settles, SettleTx
<1>2. \A q \in Req : rq'[q].open <=> rq[q].open /\ q \notin R
    BY DEF Settles, SettleTx, TypeInv, TypeOK, RequestsOK, Request
<1>3. perm' = CloseBound(JTI) => \A j \in JTI : perm'[j] # "bound"
    BY DEF CloseBound
<1>4. \/ UNCHANGED <<outbox, completed>> /\ (R = {} \/ ~Full(transmitted, file))
      \/ /\ R # {} /\ Full(transmitted, file)
         /\ completed' = TRUE /\ perm' = CloseBound(JTI)
         /\ IF completed THEN UNCHANGED outbox ELSE Receipted("complete")
      \/ /\ R # {} /\ ~Full(transmitted, file)
         /\ completed' = completed /\ Receipted(o)
    BY <1>1 DEF Settles, SettleTx, QueueReceipt, Receipted
<1> QED BY <1>1, <1>2, <1>3, <1>4, ClosingAges

LEMMA EmptyReceipts ==
    ASSUME TypeInv, NEW j \in JTI, FinishEmpty(j)
    PROVE  /\ UNCHANGED <<transmitted, rq>> /\ ~completed /\ completed' = TRUE
           /\ SizeOf[Ordered] = 0
           /\ PermissionsAge /\ \A k \in JTI : perm'[k] # "bound"
           /\ Receipted("complete")
<1>1. perm' = [CloseBound(JTI) EXCEPT ![j] = "closed"] /\ perm[j] \in {"absent", "bound"}
    BY DEF FinishEmpty, MayFinishEmpty
<1>2. PermissionsAge /\ \A k \in JTI : perm'[k] # "bound"
    BY <1>1 DEF PermissionsAge, CloseBound, TypeInv, TypeOK, TablesOK
<1> QED BY <1>2 DEF FinishEmpty, MayFinishEmpty, QueueReceipt, Receipted

LEMMA ReserveReceipts ==
    ASSUME TypeInv, NEW r \in Req, NEW j \in JTI, NEW start \in Bytes, NEW end \in Bytes,
           Reserve(r, j, start, end)
    PROVE  /\ UNCHANGED <<transmitted, completed, outbox>> /\ ~completed
           /\ \A q \in Req : rq[q].open => rq'[q].open
           /\ perm' = [perm EXCEPT ![j] = "bound"] /\ perm[j] \in {"absent", "bound"}
<1>1. \E row : rq' = [rq EXCEPT ![r] = row]
    BY DEF Reserve
<1>2. ~rq[r].open
    BY DEF Reserve, TypeInv, RowsOK, RowOK, NoRequest
<1>3. \A q \in Req : rq[q].open => rq'[q].open
    BY <1>1, <1>2 DEF TypeInv, TypeOK, RequestsOK
<1> QED BY <1>3 DEF Reserve, MayReserve

\* Whatever the step, coverage grows and the outbox keeps what it has and
\* gains at most the coverage reached.
LEMMA OutboxSteps ==
    ASSUME TypeInv, [Next]_vars
    PROVE  /\ transmitted \subseteq transmitted'
           /\ UNCHANGED <<transmitted, outbox>>
              \/ \E o \in Outcomes \cup {"in_progress", "complete"} : Receipted(o)
<1>1. CASE Quiet
    BY <1>1 DEF Quiet
<1>2. ASSUME NEW r \in Req, Checkpoint(r) \/ FinishChunk(r)
      PROVE  /\ transmitted \subseteq transmitted'
             /\ UNCHANGED <<transmitted, outbox>> \/ Receipted("in_progress")
    BY <1>2, CheckpointReceipts
<1>3. ASSUME NEW R \in SUBSET Req, NEW o \in Outcomes, NEW keep, NEW crash,
             Settles(R, keep, crash, o)
      PROVE  /\ transmitted' = transmitted
             /\ UNCHANGED outbox \/ Receipted("complete") \/ Receipted(o)
    BY <1>3, SettlementReceipts
<1>4. ASSUME NEW j \in JTI, FinishEmpty(j)
      PROVE  transmitted' = transmitted /\ Receipted("complete")
    BY <1>4, EmptyReceipts
<1>5. ASSUME NEW r \in Req, NEW j \in JTI, NEW start \in Bytes, NEW end \in Bytes,
             Reserve(r, j, start, end)
      PROVE  UNCHANGED <<transmitted, outbox>>
    BY <1>5, ReserveReceipts
<1> QED BY <1>1, <1>2, <1>3, <1>4, <1>5, LedgerSteps

LEMMA CumulativeStep == TypeInv /\ ReceiptsCumulative /\ [Next]_vars => ReceiptsCumulative'
<1> SUFFICES ASSUME TypeInv, ReceiptsCumulative, [Next]_vars PROVE ReceiptsCumulative'
    OBVIOUS
<1>1. CASE UNCHANGED <<transmitted, outbox>>
    BY <1>1 DEF ReceiptsCumulative
<1>2. ASSUME NEW o, Receipted(o), transmitted \subseteq transmitted'
      PROVE  ReceiptsCumulative'
  <2> DEFINE n == Len(outbox)
  <2>1. /\ outbox \in Seq(Receipt) /\ n \in Nat
        /\ Len(outbox') = n + 1 /\ outbox' # <<>>
        /\ outbox'[n + 1].tr = transmitted'
        /\ \A i \in 1 .. n : outbox'[i] = outbox[i]
      BY <1>2 DEF Receipted, TypeInv, TypeOK, TablesOK
  <2>2. ASSUME NEW i \in 1 .. n PROVE outbox[i].tr \subseteq transmitted
    <3>1. outbox # <<>> /\ transmitted = outbox[n].tr
        BY <2>1 DEF ReceiptsCumulative
    <3> QED BY <2>1, <3>1 DEF ReceiptsCumulative
  <2>3. ASSUME NEW i \in 1 .. n + 1, NEW k \in 1 .. n + 1, i < k
        PROVE  outbox'[i].tr \subseteq outbox'[k].tr
    <3>1. CASE k = n + 1
      <4>1. i \in 1 .. n
          BY <2>1, <2>3, <3>1
      <4> QED BY <1>2, <2>1, <2>2, <3>1, <4>1
    <3>2. CASE k # n + 1
      <4>1. i \in 1 .. n /\ k \in 1 .. n
          BY <2>1, <2>3, <3>2
      <4> QED BY <2>1, <2>3, <4>1 DEF ReceiptsCumulative
    <3> QED BY <3>1, <3>2
  <2> QED BY <2>1, <2>3 DEF ReceiptsCumulative
<1> QED BY <1>1, <1>2, OutboxSteps

\* Every receipt contains the ones before it and the newest one is the
\* coverage table itself, across checkpoints, settlements, recoveries and
\* crashes (Progress, settle, FinishEmpty, queueTx).
THEOREM CumulativeReceipts == Spec => []ReceiptsCumulative
<1>1. Init => ReceiptsCumulative
    BY DEF Init, ReceiptsCumulative
<1> QED BY <1>1, CumulativeStep, TypeInvariance, PTL DEF Spec

LEMMA AdvanceStep ==
    TypeInv /\ [Next]_vars =>
        [/\ \A j \in JTI : /\ perm[j] = "revoked" => perm'[j] = "revoked"
                           /\ perm[j] = "closed" => perm'[j] \in {"closed", "revoked"}
         /\ transmitted \subseteq transmitted'
         /\ completed => completed'
         /\ Len(outbox) <= Len(outbox')]_vars
<1> SUFFICES ASSUME TypeInv, [Next]_vars
             PROVE  /\ \A j \in JTI : /\ perm[j] = "revoked" => perm'[j] = "revoked"
                                      /\ perm[j] = "closed" => perm'[j] \in {"closed", "revoked"}
                    /\ transmitted \subseteq transmitted'
                    /\ completed => completed'
                    /\ Len(outbox) <= Len(outbox')
    OBVIOUS
<1>1. transmitted \subseteq transmitted' /\ Len(outbox) <= Len(outbox')
  <2>1. ASSUME NEW o, Receipted(o) PROVE Len(outbox') = Len(outbox) + 1
      BY <2>1 DEF Receipted, TypeInv, TypeOK, TablesOK
  <2>2. Len(outbox) \in Nat
      BY DEF TypeInv, TypeOK, TablesOK
  <2> QED BY <2>1, <2>2, OutboxSteps
<1>2. (completed => completed')
      /\ (PermissionsAge \/ \E j \in JTI : /\ perm' = [perm EXCEPT ![j] = "bound"]
                                           /\ perm[j] \in {"absent", "bound"})
    BY LedgerSteps, ReserveReceipts, CheckpointReceipts, SettlementReceipts, EmptyReceipts
       DEF Quiet
<1>3. \A j \in JTI : /\ perm[j] = "revoked" => perm'[j] = "revoked"
                     /\ perm[j] = "closed" => perm'[j] \in {"closed", "revoked"}
    BY <1>2 DEF PermissionsAge, TypeInv, TypeOK, TablesOK
<1> QED BY <1>1, <1>2, <1>3

\* No step, a crash included, brings a closed or revoked permission back,
\* takes coverage back, reopens the order or drops a receipt (Reserve,
\* CloseExpired, Revoke, settle, FinishEmpty, Progress, Recover).
THEOREM NothingTakenBack == Spec => LedgerOnlyAdvances
BY AdvanceStep, TypeInvariance, PTL DEF Spec, LedgerOnlyAdvances

-----------------------------------------------------------------------------
(* Completion.                                                              *)

\* Rows are open only for a file that has bytes.  Once the order is completed
\* its bytes are covered, nobody may start again, and the newest receipt, and
\* no other, is "complete".
CompleteInv ==
    /\ (\E r \in Req : rq[r].open) => SizeOf[Ordered] > 0
    /\ completed => /\ Full(transmitted, Ordered)
                    /\ \A j \in JTI : perm[j] # "bound"
                    /\ outbox # <<>>
    /\ \A i \in 1 .. Len(outbox) :
          outbox[i].outcome = "complete" <=> completed /\ i = Len(outbox)

\* A settled request finds the size its permission was given for.
LEMMA SameLength ==
    ASSUME StableSize, TypeInv, SizeOf[Ordered] > 0
    PROVE  Full(transmitted, file) <=> Full(transmitted, Ordered)
<1>1. file \in Content /\ SizeOf[file] = SizeOf[Ordered]
    BY DEF StableSize, TypeInv, TypeOK, TablesOK
<1> QED BY <1>1 DEF Full

LEMMA ReceiptAppended ==
    ASSUME TypeInv, NEW o, Receipted(o)
    PROVE  /\ Len(outbox) \in Nat /\ Len(outbox') = Len(outbox) + 1 /\ outbox' # <<>>
           /\ outbox'[Len(outbox')].outcome = o
           /\ \A i \in 1 .. Len(outbox) : outbox'[i] = outbox[i]
BY DEF Receipted, TypeInv, TypeOK, TablesOK

\* A receipt before completion is "complete" exactly when its step completes.
LEMMA ReceiptBeforeCompletion ==
    ASSUME TypeInv, CompleteInv, ~completed, NEW o, Receipted(o),
           completed' <=> o = "complete"
    PROVE  /\ outbox' # <<>>
           /\ \A i \in 1 .. Len(outbox') :
                 outbox'[i].outcome = "complete" <=> completed' /\ i = Len(outbox')
<1> SUFFICES ASSUME NEW i \in 1 .. Len(outbox')
             PROVE  outbox'[i].outcome = "complete" <=> completed' /\ i = Len(outbox')
    BY ReceiptAppended
<1>1. CASE i = Len(outbox')
    BY <1>1, ReceiptAppended
<1>2. CASE i # Len(outbox')
  <2>1. i \in 1 .. Len(outbox) /\ outbox'[i] = outbox[i]
      BY <1>2, ReceiptAppended
  <2> QED BY <1>2, <2>1 DEF CompleteInv
<1> QED BY <1>1, <1>2

LEMMA CompleteStep ==
    ASSUME StableSize, TypeInv, WriterInv, CompleteInv, [Next]_vars
    PROVE  CompleteInv'
<1>1. ASSUME Quiet PROVE CompleteInv'
    BY <1>1 DEF Quiet, PermissionsAge, CompleteInv
<1>2. ASSUME NEW r \in Req, NEW j \in JTI, NEW start \in Bytes, NEW end \in Bytes,
             Reserve(r, j, start, end)
      PROVE  CompleteInv'
  <2>1. SizeOf[Ordered] > 0
      BY SizeType DEF Bytes
  <2> QED BY <1>2, <2>1, ReserveReceipts DEF CompleteInv
<1>3. ASSUME NEW r \in Req, Checkpoint(r) \/ FinishChunk(r) PROVE CompleteInv'
  <2>1. ~completed /\ ~completed'
      BY <1>3, CheckpointReceipts DEF WriterInv, Checkpoint, FinishChunk
  <2>2. CASE UNCHANGED outbox
      BY <1>3, <2>1, <2>2, CheckpointReceipts DEF CompleteInv
  <2>3. CASE Receipted("in_progress")
      BY <1>3, <2>1, <2>3, CheckpointReceipts, ReceiptBeforeCompletion DEF CompleteInv
  <2> QED BY <1>3, <2>2, <2>3, CheckpointReceipts
<1>4. ASSUME NEW R \in SUBSET Req, NEW o \in Outcomes, NEW keep, NEW crash,
             Settles(R, keep, crash, o)
      PROVE  CompleteInv'
  <2>1. /\ (\E q \in Req : rq[q].open)' => SizeOf[Ordered] > 0
        /\ transmitted' = transmitted /\ PermissionsAge
      BY <1>4, SettlementReceipts DEF CompleteInv
  <2>2. CASE UNCHANGED <<outbox, completed>>
      BY <2>1, <2>2 DEF CompleteInv, PermissionsAge
  <2>3. ASSUME R # {} PROVE Full(transmitted, file) <=> Full(transmitted, Ordered)
    <3>1. \E q \in Req : rq[q].open
        BY <1>4, <2>3 DEF Settles
    <3> QED BY <3>1, SameLength DEF CompleteInv
  <2>4. CASE /\ R # {} /\ Full(transmitted, file)
             /\ completed' = TRUE /\ \A j \in JTI : perm'[j] # "bound"
             /\ IF completed THEN UNCHANGED outbox ELSE Receipted("complete")
    <3>1. CASE completed
        BY <2>1, <2>4, <3>1 DEF CompleteInv
    <3>2. CASE ~completed
      <4>1. /\ outbox' # <<>>
            /\ \A i \in 1 .. Len(outbox') :
                  outbox'[i].outcome = "complete" <=> completed' /\ i = Len(outbox')
          BY <2>4, <3>2, ReceiptBeforeCompletion
      <4>2. Full(transmitted, Ordered)'
          BY <2>1, <2>3, <2>4 DEF Full
      <4> QED BY <2>1, <2>4, <4>1, <4>2 DEF CompleteInv
    <3> QED BY <3>1, <3>2
  <2>5. CASE R # {} /\ ~Full(transmitted, file) /\ completed' = completed /\ Receipted(o)
    <3>1. ~completed
        BY <2>3, <2>5 DEF CompleteInv
    <3>2. o # "complete"
        BY DEF Outcomes
    <3>3. /\ outbox' # <<>>
          /\ \A i \in 1 .. Len(outbox') :
                outbox'[i].outcome = "complete" <=> completed' /\ i = Len(outbox')
        BY <2>5, <3>1, <3>2, ReceiptBeforeCompletion
    <3> QED BY <2>1, <2>5, <3>1, <3>3 DEF CompleteInv
  <2> QED BY <1>4, <2>2, <2>4, <2>5, SettlementReceipts
<1>5. ASSUME NEW j \in JTI, FinishEmpty(j) PROVE CompleteInv'
  <2>1. /\ outbox' # <<>>
        /\ \A i \in 1 .. Len(outbox') :
              outbox'[i].outcome = "complete" <=> completed' /\ i = Len(outbox')
      BY <1>5, EmptyReceipts, ReceiptBeforeCompletion
  <2>2. Full(transmitted, Ordered)'
    <3>1. SizeOf[Ordered] = 0
        BY <1>5, EmptyReceipts
    <3>2. 0 .. SizeOf[Ordered] - 1 = {}
        BY <3>1
    <3> QED BY <3>2 DEF Full
  <2> QED BY <1>5, <2>1, <2>2, EmptyReceipts DEF CompleteInv
<1> QED BY <1>1, <1>2, <1>3, <1>4, <1>5, LedgerSteps

LEMMA CompleteInvariance == ASSUME StableSize PROVE Spec => []CompleteInv
<1>1. Init => CompleteInv
    BY DEF Init, CompleteInv, NoRequest
<1> QED BY <1>1, CompleteStep, TypeInvariance, WriterInvariance, PTL DEF Spec

\* While the file keeps its size the order completes once: one complete
\* receipt, after which no receipt follows and no permission is usable, for
\* downloads, crash recoveries and empty files alike (queueTx, settle,
\* FinishEmpty, Reserve; TestGLM5EmptyCompletionClosesEveryJTI).
THEOREM CompletionOnce == ASSUME StableSize PROVE Spec => []CompletesOnce
<1>1. TypeInv /\ CompleteInv => CompletesOnce
  <2> SUFFICES ASSUME TypeInv, CompleteInv PROVE CompletesOnce
      OBVIOUS
  <2> DEFINE C == {i \in 1 .. Len(outbox) : outbox[i].outcome = "complete"}
  <2>1. Len(outbox) \in Nat /\ (completed => Len(outbox) > 0)
      BY DEF TypeInv, TypeOK, TablesOK, CompleteInv
  <2>2. C = IF completed THEN {Len(outbox)} ELSE {}
      BY <2>1 DEF CompleteInv
  <2>3. Cardinality(C) = IF completed THEN 1 ELSE 0
      BY <2>2, FS_Singleton, FS_EmptySet
  <2> QED BY <2>3 DEF CompletesOnce, CompleteInv
<1> QED BY <1>1, CompleteInvariance, TypeInvariance, PTL

LEMMA CloserStep ==
    ASSUME StableSize, TypeInv, CoverageHasCloser, [Next]_vars
    PROVE  CoverageHasCloser'
<1> SUFFICES ASSUME SizeOf[Ordered] > 0, Full(transmitted, Ordered)', ~completed'
             PROVE  \E r \in Req : rq'[r].open
    BY DEF CoverageHasCloser
<1>1. ASSUME UNCHANGED transmitted, completed => completed'
      PROVE  \E r \in Req : rq[r].open
    BY <1>1 DEF CoverageHasCloser, Full
<1>2. CASE Quiet
    BY <1>1, <1>2 DEF Quiet
<1>3. ASSUME NEW r \in Req, NEW j \in JTI, NEW start \in Bytes, NEW end \in Bytes,
             Reserve(r, j, start, end)
      PROVE  \E q \in Req : rq'[q].open
    BY <1>1, <1>3, ReserveReceipts
<1>4. ASSUME NEW r \in Req, Checkpoint(r) \/ FinishChunk(r)
      PROVE  \E q \in Req : rq'[q].open
  <2>1. rq[r].open
      BY <1>4 DEF Checkpoint, FinishChunk, Progress
  <2> QED BY <1>4, <2>1, CheckpointReceipts
<1>5. ASSUME NEW R \in SUBSET Req, NEW o \in Outcomes, NEW keep, NEW crash,
             Settles(R, keep, crash, o)
      PROVE  \E q \in Req : rq'[q].open
  <2>1. transmitted' = transmitted /\ (completed => completed')
      BY <1>5, SettlementReceipts
  <2>2. R = {}
    <3>1. Full(transmitted, file)
        BY <2>1, SameLength DEF Full
    <3> QED BY <1>5, <3>1, SettlementReceipts
  <2> QED BY <1>1, <1>5, <2>1, <2>2, SettlementReceipts
<1>6. ASSUME NEW j \in JTI, FinishEmpty(j) PROVE FALSE
    BY <1>6, EmptyReceipts
<1> QED BY <1>2, <1>3, <1>4, <1>5, <1>6, LedgerSteps

\* While the file keeps its size, full coverage without the completed row
\* always leaves an open request that will complete the order when it is
\* settled or recovered (Progress, settle, Recover).
THEOREM CoverageCloses == ASSUME StableSize PROVE Spec => []CoverageHasCloser
<1>1. Init => CoverageHasCloser
  <2> SUFFICES ASSUME Init, SizeOf[Ordered] > 0, Full({}, Ordered) PROVE FALSE
      BY DEF Init, CoverageHasCloser
  <2>1. 0 \in 0 .. SizeOf[Ordered] - 1
      BY SizeType
  <2> QED BY <2>1 DEF Full
<1> QED BY <1>1, CloserStep, TypeInvariance, PTL DEF Spec

-----------------------------------------------------------------------------
(* The fragments of the coverage.                                           *)

\* Where an isolated interval begins, and the reservations that may still
\* begin one.
RunStarts == {b \in transmitted : b > 0 /\ b - 1 \notin transmitted}
Beginners == {r \in Req : /\ rq[r].open /\ rq[r].isolated
                          /\ rq[r].written_through = rq[r].start - 1}

\* A reservation that was not counted as isolated extends an interval or
\* begins at byte 0, and the counted ones pay for the intervals they begin.
FragmentInv ==
    /\ \A r \in Req : rq[r].open /\ ~rq[r].isolated
                        => rq[r].start = 0 \/ rq[r].start - 1 \in transmitted
    /\ Cardinality(RunStarts) + Cardinality(Beginners) <= MaxIntervals

LEMMA FiniteCoverage ==
    ASSUME TypeInv, NEW S \in SUBSET transmitted
    PROVE  IsFiniteSet(S) /\ Cardinality(S) \in Nat
<1>1. IsFiniteSet(Bytes)
    BY SizeType, FS_Interval DEF Bytes
<1>2. S \subseteq Bytes
    BY DEF TypeInv, TypeOK, TablesOK
<1> QED BY <1>1, <1>2, FS_Subset, FS_CardinalityType

LEMMA OneMore ==
    ASSUME NEW S, NEW x, IsFiniteSet(S)
    PROVE  /\ IsFiniteSet(S \cup {x}) /\ Cardinality(S \cup {x}) \in Nat
           /\ Cardinality(S \cup {x}) <= Cardinality(S) + 1
<1>1. Cardinality(S) \in Nat
    BY FS_CardinalityType
<1>2. IsFiniteSet(S \cup {x})
      /\ Cardinality(S \cup {x}) = IF x \in S THEN Cardinality(S) ELSE Cardinality(S) + 1
    BY FS_AddElement
<1> QED BY <1>1, <1>2

\* Fewer run starts and fewer beginners need no more of the limit.
LEMMA FewerFragments ==
    ASSUME TypeInv, FragmentInv, RunStarts' \subseteq RunStarts, Beginners' \subseteq Beginners
    PROVE  Cardinality(RunStarts') + Cardinality(Beginners') <= MaxIntervals
<1>1. /\ IsFiniteSet(RunStarts) /\ Cardinality(RunStarts) \in Nat
      /\ IsFiniteSet(Beginners) /\ Cardinality(Beginners) \in Nat
    BY FiniteCoverage, FiniteRequests DEF RunStarts, Beginners
<1>2. /\ Cardinality(RunStarts') <= Cardinality(RunStarts)
      /\ Cardinality(Beginners') <= Cardinality(Beginners)
    BY <1>1, FS_Subset
<1>3. Cardinality(RunStarts') \in Nat /\ Cardinality(Beginners') \in Nat
    BY <1>1, FS_Subset, FS_CardinalityType
<1> QED BY <1>1, <1>2, <1>3, ConstantsAssumption DEF FragmentInv

LEMMA ReserveFragments ==
    ASSUME TypeInv, FragmentInv, NEW r \in Req, NEW j \in JTI, NEW start \in Bytes,
           NEW end \in Bytes, Reserve(r, j, start, end)
    PROVE  FragmentInv'
<1> DEFINE isolated == start > 0 /\ start - 1 \notin transmitted
<1>1. PICK last \in start .. end :
        /\ isolated => Intervals(transmitted) + OpenIsolated + 1 <= MaxIntervals
        /\ rq' = [rq EXCEPT ![r] =
                    [jti |-> j, start |-> start, end |-> last,
                     written_through |-> start - 1, open |-> TRUE,
                     isolated |-> isolated]]
    BY DEF Reserve
<1>2. /\ transmitted' = transmitted /\ rq'[r].start = start /\ rq'[r].isolated = isolated
      /\ \A q \in Req \ {r} : rq'[q] = rq[q]
    BY <1>1 DEF Reserve, TypeInv, TypeOK, RequestsOK
<1> HIDE DEF isolated
<1>3. RunStarts' = RunStarts
    BY <1>2 DEF RunStarts
<1>4. \A q \in Req : (rq[q].open /\ ~rq[q].isolated
                        => rq[q].start = 0 \/ rq[q].start - 1 \in transmitted)'
  <2>1. ~isolated => start = 0 \/ start - 1 \in transmitted
      BY BytesType DEF isolated
  <2> QED BY <1>2, <2>1 DEF FragmentInv
<1>5. CASE ~isolated
  <2>1. Beginners' \subseteq Beginners
      BY <1>2, <1>5 DEF Beginners
  <2> QED BY <1>3, <1>4, <2>1, FewerFragments DEF FragmentInv
<1>6. CASE isolated
  <2> DEFINE Starts == {b \in transmitted : b - 1 \notin transmitted}
             Open == {q \in Req : rq[q].open /\ rq[q].isolated}
  <2>1. Beginners' \subseteq Open \cup {r} /\ RunStarts \subseteq Starts
      BY <1>2 DEF Beginners, RunStarts
  <2>2. /\ IsFiniteSet(Starts) /\ Cardinality(Starts) \in Nat
        /\ IsFiniteSet(Open) /\ Cardinality(Open) \in Nat
      BY FiniteCoverage, FiniteRequests
  <2>3. Cardinality(Starts) + Cardinality(Open) + 1 <= MaxIntervals
      BY <1>1, <1>6 DEF Intervals, OpenIsolated
  <2> HIDE DEF Starts, Open
  <2>4. IsFiniteSet(Open \cup {r}) /\ Cardinality(Open \cup {r}) <= Cardinality(Open) + 1
      BY <2>2, OneMore
  <2>5. Cardinality(Open \cup {r}) \in Nat
      BY <2>2, OneMore
  <2>6. /\ Cardinality(Beginners') <= Cardinality(Open \cup {r})
        /\ Cardinality(RunStarts) <= Cardinality(Starts)
        /\ Cardinality(Beginners') \in Nat /\ Cardinality(RunStarts) \in Nat
      BY <2>1, <2>2, <2>4, FS_Subset, FS_CardinalityType
  <2>7. Cardinality(RunStarts') + Cardinality(Beginners') <= MaxIntervals
      BY <1>3, <2>2, <2>3, <2>4, <2>5, <2>6, ConstantsAssumption
  <2> QED BY <1>4, <2>7 DEF FragmentInv
<1> QED BY <1>5, <1>6

\* A checkpoint begins an interval only for a beginner, which it uses up.
LEMMA CheckpointFragments ==
    ASSUME TypeInv, CoverageInv, FragmentInv, NEW r \in Req, Checkpoint(r) \/ FinishChunk(r)
    PROVE  FragmentInv'
<1> DEFINE w == rq[r].written_through
           start == rq[r].start
<1>1. /\ Progress(r, sentTo[r]) /\ rq[r].open
      /\ rq' = [rq EXCEPT ![r].written_through = sentTo[r]]
    BY ProgressType DEF Checkpoint, FinishChunk, Progress
<1>2. /\ w \in Int /\ start \in Nat /\ sentTo[r] \in Int /\ start - 1 <= w /\ w <= sentTo[r]
      /\ start .. w \subseteq transmitted /\ transmitted \subseteq Nat
    BY BytesType DEF TypeInv, TypeOK, TablesOK, RequestsOK, Request, RowsOK, RowOK, CoverageInv
<1>3. /\ rq'[r].written_through = sentTo[r]
      /\ \A q \in Req : /\ rq'[q].start = rq[q].start /\ rq'[q].open = rq[q].open
                        /\ rq'[q].isolated = rq[q].isolated
                        /\ q # r => rq'[q].written_through = rq[q].written_through
    BY <1>1 DEF TypeInv, TypeOK, RequestsOK, Request
<1>4. transmitted' = transmitted \cup (w + 1 .. sentTo[r])
  <2>1. CASE sentTo[r] > w
      BY <1>1, <2>1 DEF Progress
  <2>2. CASE ~(sentTo[r] > w)
    <3>1. w + 1 .. sentTo[r] = {}
        BY <1>2, <2>2
    <3> QED BY <1>1, <2>2, <3>1 DEF Progress
  <2> QED BY <2>1, <2>2
<1>5. \A q \in Req : (rq[q].open /\ ~rq[q].isolated
                        => rq[q].start = 0 \/ rq[q].start - 1 \in transmitted)'
    BY <1>3, <1>4 DEF FragmentInv
<1>6. ASSUME NEW b \in RunStarts', b \notin RunStarts
      PROVE  r \in Beginners /\ r \notin Beginners' /\ b = start
  <2>1. b \in transmitted' /\ b > 0 /\ b - 1 \notin transmitted' /\ b \notin transmitted
      BY <1>4, <1>6 DEF RunStarts
  <2>2. b = w + 1 /\ sentTo[r] > w
      BY <1>2, <1>4, <2>1
  <2>3. w \notin transmitted
      BY <1>2, <1>4, <2>1, <2>2
  <2>4. w = start - 1
      BY <1>2, <2>3
  <2>5. rq[r].isolated
      BY <1>1, <2>1, <2>2, <2>3, <2>4, <1>2 DEF FragmentInv
  <2> QED BY <1>1, <1>2, <1>3, <2>2, <2>4, <2>5 DEF Beginners
<1>7. Beginners' \subseteq Beginners
    BY <1>1, <1>2, <1>3 DEF Beginners
<1>8. CASE RunStarts' \subseteq RunStarts
    BY <1>5, <1>7, <1>8, FewerFragments DEF FragmentInv
<1>9. CASE ~(RunStarts' \subseteq RunStarts)
  <2>1. r \in Beginners /\ r \notin Beginners' /\ RunStarts' \subseteq RunStarts \cup {start}
      BY <1>6, <1>9
  <2>2. /\ IsFiniteSet(RunStarts) /\ Cardinality(RunStarts) \in Nat
        /\ IsFiniteSet(Beginners) /\ Cardinality(Beginners) \in Nat
      BY FiniteCoverage, FiniteRequests DEF RunStarts, Beginners
  <2>3. Cardinality(Beginners \ {r}) = Cardinality(Beginners) - 1 /\ IsFiniteSet(Beginners \ {r})
      BY <2>1, <2>2, FS_RemoveElement
  <2>4. /\ IsFiniteSet(RunStarts \cup {start})
        /\ Cardinality(RunStarts \cup {start}) <= Cardinality(RunStarts) + 1
      BY <2>2, OneMore
  <2>5. Beginners' \subseteq Beginners \ {r}
      BY <1>7, <2>1
  <2>6. /\ Cardinality(Beginners') <= Cardinality(Beginners) - 1
        /\ Cardinality(Beginners') \in Nat
      BY <2>3, <2>5, FS_Subset, FS_CardinalityType
  <2>7. /\ Cardinality(RunStarts') <= Cardinality(RunStarts \cup {start})
        /\ Cardinality(RunStarts') \in Nat /\ Cardinality(RunStarts \cup {start}) \in Nat
      BY <2>1, <2>4, FS_Subset, FS_CardinalityType
  <2>8. Cardinality(RunStarts') + Cardinality(Beginners') <= MaxIntervals
      BY <2>2, <2>4, <2>6, <2>7, ConstantsAssumption DEF FragmentInv
  <2> QED BY <1>5, <2>8 DEF FragmentInv
<1> QED BY <1>8, <1>9

LEMMA FragmentStep == TypeInv /\ CoverageInv /\ FragmentInv /\ [Next]_vars => FragmentInv'
<1> SUFFICES ASSUME TypeInv, CoverageInv, FragmentInv, [Next]_vars PROVE FragmentInv'
    OBVIOUS
<1>1. ASSUME UNCHANGED <<rq, transmitted>> PROVE FragmentInv'
    BY <1>1 DEF FragmentInv, RunStarts, Beginners
<1>2. ASSUME NEW R \in SUBSET Req, NEW o \in Outcomes, NEW keep, NEW crash,
             Settles(R, keep, crash, o)
      PROVE  FragmentInv'
  <2>1. /\ transmitted' = transmitted
        /\ \A q \in Req : /\ rq'[q].start = rq[q].start /\ (rq'[q].open => rq[q].open)
                          /\ rq'[q].isolated = rq[q].isolated
                          /\ rq'[q].written_through = rq[q].written_through
      BY <1>2 DEF Settles, SettleTx, TypeInv, TypeOK, RequestsOK, Request
  <2>2. RunStarts' \subseteq RunStarts /\ Beginners' \subseteq Beginners
      BY <2>1 DEF RunStarts, Beginners
  <2> QED BY <2>1, <2>2, FewerFragments DEF FragmentInv
<1> QED BY <1>1, <1>2, LedgerSteps, ReserveFragments, CheckpointFragments, EmptyReceipts DEF Quiet

\* However many isolated reservations are admitted side by side, coverage never
\* has more than MaxIntervals + 1 intervals: every interval but the one at byte
\* 0 was begun by a reservation counted against the bound (Reserve, Progress;
\* TestExtendingShortWriteCapsAt1025).
THEOREM FragmentsBounded == Spec => []CoverageBounded
<1>1. Init => FragmentInv
  <2> SUFFICES ASSUME Init PROVE FragmentInv
      OBVIOUS
  <2>1. RunStarts = {} /\ Beginners = {}
      BY DEF Init, NoRequest, RunStarts, Beginners
  <2> QED BY <2>1, FS_EmptySet, ConstantsAssumption DEF FragmentInv, Init, NoRequest
<1>2. TypeInv /\ FragmentInv => CoverageBounded
  <2> SUFFICES ASSUME TypeInv, FragmentInv PROVE Intervals(transmitted) <= MaxIntervals + 1
      BY DEF CoverageBounded
  <2> DEFINE Starts == {b \in transmitted : b - 1 \notin transmitted}
  <2>1. Starts \subseteq RunStarts \cup {0}
    <3>1. \A b \in transmitted : b \in Nat
        BY BytesType DEF TypeInv, TypeOK, TablesOK
    <3> QED BY <3>1 DEF RunStarts
  <2>2. /\ IsFiniteSet(RunStarts) /\ Cardinality(RunStarts) \in Nat
        /\ Cardinality(Beginners) \in Nat
      BY FiniteCoverage, FiniteRequests DEF RunStarts, Beginners
  <2>3. /\ IsFiniteSet(RunStarts \cup {0})
        /\ Cardinality(RunStarts \cup {0}) <= Cardinality(RunStarts) + 1
      BY <2>2, OneMore
  <2>4. Cardinality(Starts) <= Cardinality(RunStarts \cup {0}) /\ Cardinality(Starts) \in Nat
        /\ Cardinality(RunStarts \cup {0}) \in Nat
      BY <2>1, <2>3, FS_Subset, FS_CardinalityType
  <2> QED BY <2>2, <2>3, <2>4, ConstantsAssumption DEF FragmentInv, Intervals
<1> QED BY <1>1, <1>2, FragmentStep, TypeInvariance, CoverageInvariance, PTL DEF Spec

-----------------------------------------------------------------------------
(* The refinement of DeliveryContract.                                      *)

Times == [b \in Bytes |-> Cardinality(SentBy(b))]

\* Steps that change neither coverage, completion nor what was sent.
SameView == UNCHANGED <<transmitted, completed>> /\ Times' = Times

LEMMA SameViewStutters == ASSUME SameView PROVE UNCHANGED Contract!vars
BY DEF SameView, Times, Contract!vars

LEMMA SentUnchanged ==
    ASSUME UNCHANGED sentTo, \A r \in Req : rq'[r].start = rq[r].start
    PROVE  Times' = Times
<1>1. \A b \in Bytes : SentBy(b)' = SentBy(b)
    BY DEF SentBy
<1> QED BY <1>1 DEF Times

LEMMA InitRefines == Init => Contract!Init
<1> SUFFICES ASSUME Init PROVE Contract!Init
    OBVIOUS
<1>1. ASSUME NEW b \in Bytes PROVE Cardinality(SentBy(b)) = 0
  <2>1. SentBy(b) = {}
      BY DEF Init, NoRequest, SentBy
  <2> QED BY <2>1, FS_EmptySet
<1> QED BY <1>1 DEF Init, Contract!Init

LEMMA ReserveRefines ==
    ASSUME TypeInv, NEW r \in Req, NEW j \in JTI, NEW start \in Bytes, NEW end \in Bytes,
           Reserve(r, j, start, end)
    PROVE  SameView
<1>1. \E last \in start .. end :
         rq' = [rq EXCEPT ![r] =
                    [jti |-> j, start |-> start, end |-> last,
                     written_through |-> start - 1, open |-> TRUE,
                     isolated |-> (start > 0 /\ start - 1 \notin transmitted)]]
         /\ sentTo' = [sentTo EXCEPT ![r] = start - 1]
    BY DEF Reserve
<1>2. /\ rq'[r].start = start /\ sentTo'[r] = start - 1
      /\ \A q \in Req \ {r} : rq'[q] = rq[q] /\ sentTo'[q] = sentTo[q]
    BY <1>1 DEF TypeInv, TypeOK, RequestsOK
<1>3. rq[r].start = 0 /\ sentTo[r] = -1 /\ start \in Nat
    BY BytesType DEF Reserve, TypeInv, RowsOK, RowOK, NoRequest
<1>4. \A b \in Bytes : SentBy(b)' = SentBy(b)
    BY <1>2, <1>3 DEF SentBy
<1> QED BY <1>4 DEF Reserve, SameView, Times

\* One network write is one Send of the bytes written.
LEMMA SendRefines ==
    ASSUME TypeInv, ServesAccounted, NoThirdServe', WriterInv,
           NEW r \in Req, NEW n \in 0 .. Window, SendBytes(r, n)
    PROVE  \E S \in SUBSET Bytes : Contract!Send(S)
<1> DEFINE S == sentTo[r] + 1 .. sentTo[r] + n
<1>1. /\ sentTo' = [sentTo EXCEPT ![r] = @ + n] /\ UNCHANGED <<rq, transmitted, completed>>
      /\ ~completed
    BY DEF SendBytes, tables, WriterInv
<1>2. /\ sentTo \in [Req -> Int] /\ n \in Nat /\ rq[r].start \in Nat
      /\ sentTo[r] >= rq[r].start - 1
    BY ConstantsAssumption DEF TypeInv, TypeOK, RequestsOK, Request, RowsOK, RowOK
<1>3. sentTo'[r] = sentTo[r] + n /\ sentTo'[r] < SizeOf[Ordered]
  <2>1. TypeInv'
      BY SendBytesTypeInv
  <2>2. /\ sentTo'[r] <= hold'[r] /\ hold'[r] <= rq'[r].end /\ rq'[r].end < SizeOf[Ordered]
        /\ hold'[r] \in Int /\ rq'[r].end \in Int /\ sentTo'[r] \in Int
      BY <2>1, SizeType DEF TypeInv, TypeOK, RequestsOK, Request, RowsOK, RowOK
  <2> QED BY <1>1, <1>2, <2>2, SizeType
<1>4. S \in SUBSET Bytes
    BY <1>2, <1>3, SizeType DEF Bytes
<1>5. ASSUME NEW b \in Bytes
      PROVE  /\ IsFiniteSet(SentBy(b)) /\ Cardinality(SentBy(b)) \in Nat
             /\ Cardinality(SentBy(b)')
                  = IF b \in S THEN Cardinality(SentBy(b)) + 1 ELSE Cardinality(SentBy(b))
  <2>1. IsFiniteSet(SentBy(b)) /\ Cardinality(SentBy(b)) \in Nat
      BY FiniteRequests DEF SentBy
  <2>2. \A q \in Req \ {r} : (b \in rq[q].start .. sentTo[q])' <=> (b \in rq[q].start .. sentTo[q])
      BY <1>1, <1>2
  <2>3. b \in Int
      BY BytesType
  <2>4. CASE b \in S
    <3>1. r \notin SentBy(b)
        BY <1>2, <2>3, <2>4 DEF SentBy
    <3>2. SentBy(b)' = SentBy(b) \cup {r}
        BY <1>1, <1>2, <1>3, <2>2, <2>3, <2>4 DEF SentBy
    <3>3. Cardinality(SentBy(b) \cup {r}) = Cardinality(SentBy(b)) + 1
        BY <2>1, <3>1, FS_AddElement
    <3> QED BY <2>1, <2>4, <3>2, <3>3
  <2>5. CASE b \notin S
    <3>1. (b \in rq[r].start .. sentTo[r])' <=> (b \in rq[r].start .. sentTo[r])
        BY <1>1, <1>2, <1>3, <2>3, <2>5
    <3>2. SentBy(b)' = SentBy(b)
        BY <2>2, <3>1 DEF SentBy
    <3> QED BY <2>1, <2>5, <3>2
  <2> QED BY <2>4, <2>5
<1>6. ASSUME NEW b \in S PROVE Cardinality(SentBy(b)) < MaxServe
  <2>1. b \in Bytes
      BY <1>4
  <2>2. Cardinality(SentBy(b)') <= MaxServe
      BY <2>1 DEF NoThirdServe
  <2> HIDE DEF S
  <2> QED BY <1>5, <1>6, <2>1, <2>2, ConstantsAssumption
<1> HIDE DEF S
<1>7. Contract!Send(S)
    BY <1>1, <1>4, <1>5, <1>6 DEF Contract!Send
<1> QED BY <1>4, <1>7

\* One checkpoint is one Report of the bytes it covers.
LEMMA ReportRefines ==
    ASSUME TypeInv, WriterInv, TransmittedWasSent', NEW r \in Req,
           Checkpoint(r) \/ FinishChunk(r)
    PROVE  \E S \in SUBSET Bytes : Contract!Report(S)
<1>1. /\ Progress(r, sentTo[r]) /\ UNCHANGED <<sentTo, completed>> /\ ~completed
    BY DEF Checkpoint, FinishChunk, WriterInv
<1>2. \A q \in Req : rq'[q].start = rq[q].start
  <2>1. rq' = [rq EXCEPT ![r].written_through = sentTo[r]]
      BY <1>1, ProgressType
  <2> QED BY <2>1 DEF TypeInv, TypeOK, RequestsOK, Request
<1>3. transmitted' \in SUBSET Bytes /\ transmitted \subseteq transmitted'
  <2>1. transmitted' \in SUBSET Bytes
      BY <1>1, ProgressType
  <2>2. transmitted \subseteq transmitted'
      BY <1>1 DEF Progress
  <2> QED BY <2>1, <2>2
<1>4. \A b \in Bytes : SentBy(b)' = SentBy(b)
    BY <1>1, <1>2 DEF SentBy
<1>5. ASSUME NEW b \in transmitted' PROVE Cardinality(SentBy(b)) > 0
  <2>1. b \in Bytes /\ SentBy(b) # {}
      BY <1>3, <1>4 DEF TransmittedWasSent
  <2>2. IsFiniteSet(SentBy(b)) /\ Cardinality(SentBy(b)) \in Nat
      BY FiniteRequests DEF SentBy
  <2>3. Cardinality(SentBy(b)) # 0
      BY <2>1, <2>2, FS_EmptySet
  <2> QED BY <2>2, <2>3
<1>6. Contract!Report(transmitted')
    BY <1>1, <1>3, <1>4, <1>5 DEF Contract!Report
<1> QED BY <1>3, <1>6

\* A settlement is a stutter, or the Complete step when it completes the order.
LEMMA SettleRefines ==
    ASSUME StableSize, TypeInv, NEW R, NEW keep, NEW crash, NEW o,
           SettleTx(R, keep, crash, o), UNCHANGED sentTo
    PROVE  SameView \/ Contract!Complete
<1>1. \A q \in Req : rq'[q].start = rq[q].start
    BY DEF SettleTx, TypeInv, TypeOK, RequestsOK, Request
<1>2. Times' = Times /\ UNCHANGED transmitted
    BY <1>1, SentUnchanged DEF SettleTx
<1>3. CASE UNCHANGED completed
    BY <1>2, <1>3 DEF SameView
<1>4. CASE completed' = TRUE /\ Full(transmitted, file)
  <2>1. transmitted = Bytes
    <3>1. /\ transmitted \subseteq Bytes /\ file \in Content
          /\ 0 .. SizeOf[file] - 1 \subseteq transmitted
        BY <1>4 DEF Full, TypeInv, TypeOK, TablesOK
    <3>2. SizeOf[Ordered] = 0 => Bytes = {}
        BY DEF Bytes
    <3> QED BY <3>1, <3>2 DEF StableSize, Bytes
  <2> QED BY <1>2, <1>4, <2>1 DEF Contract!Complete, Times
<1>5. UNCHANGED completed \/ (completed' = TRUE /\ Full(transmitted, file))
    BY DEF SettleTx
<1> QED BY <1>3, <1>4, <1>5

LEMMA StepRefines ==
    ASSUME StableSize, TypeInv, ServesAccounted, WriterInv,
           NoThirdServe', TransmittedWasSent', [Next]_vars
    PROVE  [Contract!Next]_(Contract!vars)
<1>1. SUFFICES SameView \/ Contract!Next
    BY SameViewStutters
<1>2. ASSUME UNCHANGED <<transmitted, completed, rq, sentTo>> PROVE SameView
    BY <1>2, SentUnchanged DEF SameView
<1>3. ASSUME NEW r \in Req, Handler(r) PROVE SameView \/ Contract!Next
  <2>1. CASE \E n \in 0 .. Window : SendBytes(r, n)
      BY <2>1, SendRefines DEF Contract!Next
  <2>2. CASE Checkpoint(r) \/ FinishChunk(r)
      BY <2>2, ReportRefines DEF Contract!Next
  <2>3. CASE SettleOutcome(r) \/ RecoverRequest(r)
    <3>1. \E R, keep, crash, o : SettleTx(R, keep, crash, o) /\ UNCHANGED sentTo
        BY <2>3 DEF SettleOutcome, RecoverRequest
    <3> QED BY <3>1, SettleRefines DEF Contract!Next
  <2>4. CASE \/ \E goal \in Bytes : BeginChunk(r, goal)
             \/ RefuseChunk(r) \/ SendExpired(r) \/ ProgressFails(r)
             \/ \E o \in Outcomes : StopDownload(r, o)
             \/ SettleFails(r) \/ RecoverRequestFails(r)
    <3>1. UNCHANGED <<transmitted, completed, rq, sentTo>>
        BY <2>4 DEF BeginChunk, RefuseChunk, SendExpired, ProgressFails, StopDownload,
                    SettleFails, RecoverRequestFails, tables
    <3> QED BY <1>2, <3>1
  <2> QED BY <1>3, <2>1, <2>2, <2>3, <2>4 DEF Handler
<1>4. ASSUME NEW j \in JTI, FinishEmpty(j) PROVE Contract!Next
  <2>1. Bytes = {} /\ UNCHANGED <<transmitted, rq, sentTo>> /\ completed' = TRUE
      BY <1>4 DEF FinishEmpty, MayFinishEmpty, Bytes
  <2>2. Times' = Times /\ transmitted = Bytes
      BY <2>1, SentUnchanged DEF TypeInv, TypeOK, TablesOK
  <2>3. Contract!Complete
      BY <2>1, <2>2 DEF Contract!Complete, Times
  <2> QED BY <2>3 DEF Contract!Next
<1>5. CASE Recover
  <2>1. \E R, keep, crash, o : SettleTx(R, keep, crash, o) /\ UNCHANGED sentTo
      BY <1>5 DEF Recover
  <2> QED BY <2>1, SettleRefines DEF Contract!Next
<1>6. ASSUME \/ \E j \in Revocable : Revoke(j)
             \/ \E s \in OfferStates : PutOffer(s)
             \/ \E c \in Content : PutFile(c)
             \/ CloseExpired \/ Tick \/ Crash \/ UNCHANGED vars
      PROVE  SameView
  <2>1. UNCHANGED <<transmitted, completed, rq, sentTo>>
      BY <1>6 DEF Revoke, PutOffer, PutFile, CloseExpired, Tick, Crash, vars, tables
  <2> QED BY <1>2, <2>1
<1> QED BY <1>3, <1>4, <1>5, <1>6, ReserveRefines DEF Next

\* While the file keeps its size, reservations, windows, settlements
\* and crash recovery together deliver the contract: at most MaxServe sends of
\* a byte, reports of sent bytes only, one completion, silence after it
\* (Reserve, WriteChunk, settle, FinishEmpty, Recover).
THEOREM LedgerRefinesContract ==
    ASSUME StableSize
    PROVE  Spec => RefinesContract
<1> QED BY InitRefines, StepRefines, TypeInvariance, ServesExact, ServeCap,
           CoverageSent, WriterInvariance, PTL DEF Spec, RefinesContract, Contract!Spec
=============================================================================
