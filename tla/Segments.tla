------------------------------ MODULE Segments ------------------------------
(***************************************************************************)
(* The segment lists behind tables serves and transmitted: the algorithms  *)
(* of internal/ledger/ledger.go, run over arbitrary sequences of their     *)
(* calls and compared with the plain function and set they stand for.      *)
(* TransferLedger uses those plain readings.                               *)
(***************************************************************************)
EXTENDS Integers, Sequences, FiniteSets, SequencesExt

CONSTANTS Size,     \* bytes of the file, at least one
          MaxServe  \* serves allowed per byte: 2

VARIABLES ss,     \* rows of serves, ORDER BY start
          tr,     \* rows of transmitted, ORDER BY start
          count,  \* reference: serves of each byte
          sent    \* reference: bytes transmitted

vars == <<ss, tr, count, sent>>

Offsets == 0 .. Size - 1
Segment == [a : Offsets, b : Offsets, c : 1 .. MaxServe]

-----------------------------------------------------------------------------
Within(x, lo) == x.a <= lo /\ lo <= x.b

\* The count of the first segment containing lo, 0 outside all of them.
CountAt(s, lo) ==
    LET i == SelectInSeq(s, LAMBDA x : Within(x, lo))
    IN  IF i = 0 THEN 0 ELSE s[i].c

\* Append piece x, growing the last segment when it continues it.
JoinAnyCount(out, x) ==
    IF x.c <= 0 THEN out
    ELSE IF out # <<>> /\ Last(out).b + 1 = x.a
         THEN [out EXCEPT ![Len(out)].b = x.b]
         ELSE Append(out, x)
JoinNever(out, x) == IF x.c <= 0 THEN out ELSE Append(out, x)
Join(out, x) ==
    IF x.c <= 0 THEN out
    ELSE IF out # <<>> /\ Last(out).b + 1 = x.a /\ Last(out).c = x.c
         THEN [out EXCEPT ![Len(out)].b = x.b]
         ELSE Append(out, x)

\* Add delta on lo..hi: cut at every boundary, recount, merge.
Transform(s, lo, hi, delta) ==
    IF lo > hi THEN s
    ELSE LET points == SetToSortSeq({lo, hi + 1} \cup UNION {{x.a, x.b + 1} : x \in ToSet(s)}, <)
             piece(i) == [a |-> points[i], b |-> points[i + 1] - 1,
                          c |-> CountAt(s, points[i])
                                  + IF lo <= points[i] /\ points[i] <= hi THEN delta ELSE 0]
         IN  FoldLeft(Join, <<>>, [i \in 1 .. Len(points) - 1 |-> piece(i)])

\* Merge neighbours of equal count.
Merge(out, x) ==
    IF out # <<>> /\ x.a <= Last(out).b + 1 /\ x.c = Last(out).c
    THEN [out EXCEPT ![Len(out)].b = IF @ < x.b THEN x.b ELSE @]
    ELSE Append(out, x)
Normalize(s) == FoldLeft(Merge, <<>>, s)

CoveredEnds(s, lo, hi) == (\E x \in ToSet(s) : Within(x, lo)) /\ (\E x \in ToSet(s) : Within(x, hi))
Covered(s, lo, hi) == \E x \in ToSet(s) : x.a <= lo /\ x.b >= hi

\* The end of the covered prefix; a gap stops the scan.
NextByte(next, x) == IF x.a <= next /\ x.b >= next THEN x.b + 1 ELSE next
FirstUntransmittedFirst(s, size) == IF s = <<>> THEN 0 ELSE s[1].b + 1
FirstUntransmitted(s, size) ==
    LET next == FoldLeft(NextByte, 0, s) IN IF next < size THEN next ELSE size

AddLength(n, x) == n + x.b - x.a + 1
CountBytesOpenEnd(s) == FoldLeft(LAMBDA n, x : n + x.b - x.a, 0, s)
CountBytes(s) == FoldLeft(AddLength, 0, s)

\* receiptTx: bytes at the serve cap that no response transmitted.
OverlapBytes(x, y) ==
    LET lo == IF x.a > y.a THEN x.a ELSE y.a
        hi == IF x.b < y.b THEN x.b ELSE y.b
    IN  IF hi >= lo THEN hi - lo + 1 ELSE 0
MaxServesReachedAll(s, t) ==
    FoldLeft(LAMBDA n, x : n + IF x.c = MaxServe THEN x.b - x.a + 1 ELSE 0, 0, s)
MaxServesReached(s, t) ==
    FoldLeft(LAMBDA n, x : n + IF x.c # MaxServe THEN 0
                 ELSE x.b - x.a + 1 - FoldLeft(LAMBDA m, y : m + OverlapBytes(x, y), 0, t),
             0, s)

-----------------------------------------------------------------------------
Init == ss = <<>> /\ tr = <<>> /\ count = [b \in Offsets |-> 0] /\ sent = {}

\* Reserve charges lo..hi, all of it below the cap.
Charge(lo, hi) ==
    /\ \A b \in lo .. hi : count[b] < MaxServe
    /\ ss' = Transform(ss, lo, hi, 1)
    /\ count' = [b \in Offsets |-> IF b \in lo .. hi THEN count[b] + 1 ELSE count[b]]
    /\ UNCHANGED <<tr, sent>>

\* settle releases the unwritten end of a reservation.
Release(lo, hi) ==
    /\ ss' = Transform(ss, lo, hi, -1)
    /\ count' = [b \in Offsets |-> IF b \in lo .. hi /\ count[b] > 0 THEN count[b] - 1 ELSE count[b]]
    /\ UNCHANGED <<tr, sent>>

\* Progress adds old+1..writtenThrough to the coverage.
Progress(lo, hi) ==
    /\ LET t == Transform(tr, lo, hi, 1)
       IN  tr' = Normalize([i \in 1 .. Len(t) |-> [t[i] EXCEPT !.c = 1]])
    /\ sent' = sent \cup (lo .. hi)
    /\ UNCHANGED <<ss, count>>

Next == \E lo, hi \in Offsets :
            /\ lo <= hi
            /\ Charge(lo, hi) \/ Release(lo, hi) \/ Progress(lo, hi)

Spec == Init /\ [][Next]_vars

-----------------------------------------------------------------------------
\* The lists denote exactly the counts and the bytes (transform, normalize).
ListsDenote ==
    \A b \in Offsets : /\ CountAt(ss, b) = count[b]
                       /\ CountAt(tr, b) = IF b \in sent THEN 1 ELSE 0

\* Rows are sorted, disjoint, within the file and maximal, so that their
\* number is the number of runs that Reserve bounds with len(tr).
Sorted(s) == \A i \in 1 .. Len(s) - 1 :
                /\ s[i].b < s[i + 1].a
                /\ s[i].b + 1 = s[i + 1].a => s[i].c # s[i + 1].c
RowsCanonical ==
    /\ ss \in Seq(Segment) /\ tr \in Seq(Segment)
    /\ \A x \in ToSet(ss) \cup ToSet(tr) : x.a <= x.b
    /\ Sorted(ss) /\ Sorted(tr)
    /\ Len(tr) = Cardinality({b \in sent : b - 1 \notin sent})

\* What the ledger reads off the lists is true of the bytes: ranges that are
\* covered entirely (covered), the first missing byte that Prepare answers
\* (firstUntransmitted), the length of the coverage, which queueTx compares
\* with the size before it signs a complete receipt (countBytes), and the
\* exhausted bytes of a receipt that were not delivered (receiptTx).
ReadingsExact ==
    LET next == FirstUntransmitted(tr, Size)
    IN  /\ \A lo, hi \in Offsets : lo <= hi => (Covered(tr, lo, hi) <=> lo .. hi \subseteq sent)
        /\ 0 .. next - 1 \subseteq sent /\ next \notin sent
        /\ CountBytes(tr) = Cardinality(sent)
        /\ MaxServesReached(ss, tr)
             = Cardinality({b \in Offsets : count[b] = MaxServe /\ b \notin sent})
=============================================================================
