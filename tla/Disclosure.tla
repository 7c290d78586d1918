------------------------------- MODULE Disclosure -------------------------------
(***************************************************************************)
(* What a report says of counts: a count of 1 .. Floor - 1 members or rows *)
(* is never published, nor to be found by subtraction                      *)
(* (verification/scanner.go: low, rateUnits, ambiguousRate, finish;        *)
(* verification/occupancy.go: countBand, population, partCount, partition).*)
(* The operators are the functions of the code; Floor is 10 there, and     *)
(* Units, the resolution of a rate, a million.  An input is a call of      *)
(* partition, by the census field it is for, or a count and its whole.     *)
(***************************************************************************)
EXTENDS Integers, Sequences, FiniteSets, FiniteSetsExt, SequencesExt, TLC

CONSTANTS Classes,      \* sequence of class names in their order, "other" among them
          Floor, Units, MaxCount, MaxRows

ReadStates == <<"fully_read", "partly_read", "unread">>
Hidden == "suppressed"

VARIABLE input

\* The calls of partition.  The population is the sum of the counts, but for
\* the reasons of unread members: fully read ones have none; and for the reasons
\* of unread archive entries, whose population is the archives, from Floor on.
Vectors(names) == [ToSet(names) -> 0 .. MaxCount]
Total(cells) == MapThenSumSet(LAMBDA k : cells[k], DOMAIN cells)
Fits(field, counts, pop) ==
    CASE field \in {"classes", "read_state"} -> pop = Total(counts)
      [] field = "reasons" -> pop >= Total(counts)
      [] field = "interior" -> pop >= Floor
Call(field, counts, pop) == [kind |-> field, counts |-> counts, pop |-> pop]

Init ==
    \/ \E c \in Vectors(Classes) : input = Call("classes", c, Total(c))
    \/ \E c \in Vectors(ReadStates) : input = Call("read_state", c, Total(c))
    \/ \E c \in Vectors(Classes), rest \in 0 .. Floor : input = Call("reasons", c, Total(c) + rest)
    \/ \E c \in Vectors(Classes), pop \in {Floor, MaxCount} : input = Call("interior", c, pop)
    \/ \E n \in 1 .. MaxRows : \E c \in 0 .. n : input = [kind |-> "part", count |-> c, whole |-> n]
Next == UNCHANGED input
Spec == Init /\ [][Next]_input

Small(n) == 0 < n /\ n < Floor
AnySmall(cells) == \E k \in DOMAIN cells : Small(cells[k])
Without(cells, ks) == [k \in DOMAIN cells \ ks |-> cells[k]]
With(cells, k, n) == [j \in DOMAIN cells \cup {k} |-> IF j = k THEN n ELSE cells[j]]
ValueOf(cells, k) == IF k \in DOMAIN cells THEN cells[k] ELSE 0

-----------------------------------------------------------------------------
(* occupancy.go *)

countBand(n) ==
    IF n = 0 THEN "0" ELSE IF n < Floor THEN "1-9"
    ELSE IF n < Floor * Floor THEN "10-99"
    ELSE IF n < Floor * Floor * Floor THEN "100-999" ELSE "1000+"
population(n) == IF n < Floor THEN <<"band", countBand(n)>> ELSE <<"exact", n>>
partCount(part, whole) ==
    IF part >= Floor /\ whole - part >= Floor THEN <<"exact", part>> ELSE <<"band", countBand(part)>>

\* The cells of the read states: a small one merges those of the files that
\* were read, and a small rest merges everything.
ReadStateCells(cells) ==
    LET read == ValueOf(cells, "fully_read") + ValueOf(cells, "partly_read")
        unread == ValueOf(cells, "unread")
    IN  IF ~AnySmall(cells) THEN cells
        ELSE IF unread < Floor \/ read < Floor THEN "other" :> (read + unread)
        ELSE "other" :> read @@ "unread" :> unread

\* The smallest cell, the first in the order of names among equals.
Smallest(cells) ==
    CHOOSE k \in DOMAIN cells : \A j \in DOMAIN cells :
        \/ cells[k] < cells[j]
        \/ cells[k] = cells[j] /\ SelectInSeq(Classes, LAMBDA x : x = k) <= SelectInSeq(Classes, LAMBDA x : x = j)

\* Small cells go to "other", which takes the smallest of the rest with it
\* until it is no longer small itself: one turn of the loop per class.
AbsorbNothing(acc, turn) == acc
Absorb(acc, turn) ==
    IF acc.other >= Floor \/ acc.cells = <<>> THEN acc
    ELSE LET k == Smallest(acc.cells)
         IN  [other |-> acc.other + acc.cells[k], cells |-> Without(acc.cells, {k})]

ClassCells(cells) ==
    LET low == {k \in DOMAIN cells : cells[k] < Floor}
        other == Total([k \in low |-> cells[k]])
        acc == FoldLeft(Absorb, [other |-> other, cells |-> Without(cells, low)], Classes)
    IN  IF other = 0 THEN cells
        ELSE With(acc.cells, "other", ValueOf(acc.cells, "other") + acc.other)

partition(counts, pop, readState) ==
    LET present == Without(counts, {k \in DOMAIN counts : counts[k] = 0})
        cells == IF readState THEN ReadStateCells(present) ELSE ClassCells(present)
        shown == pop >= Floor /\ Cardinality(DOMAIN cells) > 1
    IN  <<population(pop), IF shown THEN {<<k, cells[k]>> : k \in DOMAIN cells} ELSE {}>>

-----------------------------------------------------------------------------
(* scanner.go *)

\* Units times c over n, rounded to the nearest, a tie to the even one.
rateUnits(c, n) ==
    LET q == (c * Units) \div n
        r == 2 * ((c * Units) % n)
    IN  IF r > n \/ (r = n /\ q % 2 # 0) THEN q + 1 ELSE q

\* The binary search of ambiguousRate: the first count of at least this rate.
First(target, n) ==
    LET search[lo \in 0 .. n, hi \in 0 .. n] ==
            LET m == lo + (hi - lo) \div 2
            IN  IF lo >= hi THEN lo
                ELSE IF rateUnits(m, n) < target THEN search[m + 1, hi] ELSE search[lo, m]
    IN  search[0, n]

Most(a, b) == IF a > b THEN a ELSE b
Least(a, b) == IF a < b THEN a ELSE b

ambiguousRate(c, n) ==
    LET v == rateUnits(c, n)
        left == First(v, n)
        right == IF v = Units THEN n ELSE First(v + 1, n) - 1
    IN  \/ Most(left, 1) <= Least(right, Floor - 1)
        \/ Most(left, n - (Floor - 1)) <= Least(right, n - 1)

\* finish: the null rate of a column, or "suppressed".
NullRate(nulls, rows) ==
    IF rows >= Floor /\ ~Small(nulls) /\ ~Small(rows - nulls) /\ ~ambiguousRate(nulls, rows)
    THEN <<"rate", rateUnits(nulls, rows)>> ELSE Hidden

-----------------------------------------------------------------------------
(* Properties *)

\* Other inputs of the same field that give the same output, for whoever knows
\* the algorithm.  A population from Floor on is itself published.
Alternatives(c) ==
    LET Output(counts, pop) == partition(counts, pop, input.kind = "read_state")
    IN  { p \in {input.pop} \cup 0 .. Floor - 1 :
             Fits(input.kind, c, p) /\ Output(c, p) = Output(input.counts, input.pop) }
AnyCounts == [DOMAIN input.counts -> 0 .. MaxCount + Floor]

\* Whoever knows the algorithm cannot tell a small count from what is
\* published: some other counts, with a different value there, give the same
\* output.  A published null rate is not that of any small number of nulls or
\* of values; a small part of a published whole could be another part
\* (occupancy.go: partition, partCount; scanner.go: finish).
SmallCountsHidden ==
    IF input.kind = "part"
    THEN LET c == input.count  n == input.whole  rate == NullRate(c, n)
         IN  /\ rate # Hidden =>
                   \A d \in 0 .. n : rateUnits(d, n) = rate[2] => ~Small(d) /\ ~Small(n - d)
             /\ n >= Floor /\ Small(c) =>
                   \E d \in 0 .. n : d # c /\ partCount(d, n) = partCount(c, n)
    ELSE \A k \in DOMAIN input.counts : Small(input.counts[k]) =>
             \E c \in AnyCounts : c[k] # input.counts[k] /\ Alternatives(c) # {}

\* "It never publishes a small complement" (occupancy.go:142): a small number of
\* members without a reason, the rest of the published population, cannot be
\* told from the cells either.
ComplementHidden ==
    input.kind = "reasons" /\ Small(input.pop - Total(input.counts)) =>
        \E c \in AnyCounts : \E p \in Alternatives(c) :
            p - Total(c) # input.pop - Total(input.counts)
=============================================================================
