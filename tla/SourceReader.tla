----------------------------- MODULE SourceReader -----------------------------
(***************************************************************************)
(* One object of a cloud source as the scanner reads it: as a stream, or   *)
(* through ReadAt and a window of read-ahead, from a bucket whose owner    *)
(* may overwrite or delete the object at any time (awsverification/s3.go   *)
(* and aws.go; cloudflareverification/source.go, reader.go,                *)
(* bridge_http.go).                                                        *)
(*                                                                         *)
(* A byte is the pair of the generation of the object it belongs to and    *)
(* its position.  The mutex of a reader is held during a whole ReadAt, so  *)
(* one call is in progress at a time, but the bucket changes between its   *)
(* requests.  Object metadata that never changes for one generation (size, *)
(* KMS key) is left out.                                                   *)
(***************************************************************************)
EXTENDS Integers, Sequences

CONSTANTS Size,      \* length of the object that was signed
          Window,    \* read-ahead: 4 MiB for S3, 1 MiB for R2
          Sources,   \* subset of {"version", "etag", "bridge"}
          Pin,       \* the generation that was signed
          LastGen, MaxCalls \* bounds of the model

VARIABLES source, gen, exists, \* the provider, and its object
          opened,              \* OpenAt has returned a reader
          cache, start,        \* its window: bytes, and position of the first
          call,                \* the operation in progress, or the last one
          got,                 \* the bytes that operation gave
          calls

vars == <<source, gen, exists, opened, cache, start, call, got, calls>>

Smaller(a, b) == IF a < b THEN a ELSE b
Bytes(g, from, n) == [k \in 1 .. n |-> <<g, from + k - 1>>]
NoBody == [range |-> 0, bytes |-> <<>>, broken |-> FALSE]
Call(op, off, asked, body) ==
    [op |-> op, off |-> off, asked |-> asked, body |-> body, how |-> "running"]
NoCall == [Call("none", 0, 0, NoBody) EXCEPT !.how = "failed"]

Init ==
    /\ source \in Sources /\ gen = Pin /\ exists = TRUE /\ opened = FALSE
    /\ cache = <<>> /\ start = 0
    /\ call = NoCall /\ got = <<>> /\ calls = 0

-----------------------------------------------------------------------------
(* The provider *)

\* A request that names the version, or the tag the object has to match.  A
\* version stays what it is; it can only be deleted.
Served == exists /\ (source = "version" \/ gen = Pin)

\* What arrives for a request of n bytes: the connection may break.  What the
\* bridge forwards may be shorter or longer than asked, or of another range.
Bodies(from, n) ==
    LET body(range, bytes, broken) == [range |-> range, bytes |-> bytes, broken |-> broken]
        held == IF source = "version" THEN Pin ELSE gen
        prefix(k) == Bytes(held, from, k)
    IN  {body(from, prefix(n), FALSE)} \cup {body(from, prefix(k), TRUE) : k \in 0 .. n - 1}
        \cup (IF source # "bridge" THEN {}
              ELSE {body(from, prefix(k), FALSE) : k \in (0 .. n - 1) \cup {n + 1}}
                   \cup {body(from + 1, Bytes(held, from + 1, n), FALSE)})

\* request: the HEAD that precedes every Open and OpenAt.
Checked == Served

\* get, Get: the bridge has to answer with the range, tag and size asked for.
Get(r, from) == Served /\ r.range = from

-----------------------------------------------------------------------------
(* The scanner *)

Running == call.how = "running"
Finish(how) == call' = [call EXCEPT !.how = how, !.body = NoBody]
Pos == call.off + Len(got)
Left == call.asked - Len(got)

OpenAt ==
    /\ ~Running /\ ~opened /\ Checked
    /\ opened' = TRUE
    /\ UNCHANGED <<source, gen, exists, cache, start, call, got, calls>>

ReadAt(off, n) ==
    /\ opened /\ ~Running /\ calls < MaxCalls
    /\ calls' = calls + 1
    /\ call' = Call("at", off, n, NoBody) /\ got' = <<>>
    /\ UNCHANGED <<source, gen, exists, opened, cache, start>>

InWindow(off) == start <= off /\ off < start + Len(cache)

\* The copy of a turn of the loop of ReadAt.
Copy ==
    LET n == Smaller(Left, start + Len(cache) - Pos)
    IN  /\ Running /\ call.op = "at" /\ Left > 0 /\ InWindow(Pos)
        /\ got' = got \o SubSeq(cache, Pos - start + 1, Pos - start + n)
        /\ UNCHANGED <<source, gen, exists, opened, cache, start, call, calls>>

AfterFailureKept(bytes) ==
    [k \in DOMAIN cache |-> IF k \in DOMAIN bytes THEN bytes[k] ELSE cache[k]]

\* The window after a refill whose body was refused: the S3 reader drops it,
\* the R2 reader emptied it before it asked.
AfterFailure(bytes) == <<>>

\* ReadAt: one GET from the position wanted, its length and its end checked.
Refill ==
    LET n == Smaller(Smaller(Window, Size), Size - Pos)
    IN  /\ Running /\ call.op = "at" /\ Left > 0 /\ Pos < Size /\ ~InWindow(Pos)
        /\ \E r \in Bodies(Pos, n) :
              IF Get(r, Pos) /\ ~r.broken /\ Len(r.bytes) = n
              THEN cache' = r.bytes /\ start' = Pos /\ UNCHANGED call
              ELSE /\ Finish("failed")
                   /\ cache' = IF Get(r, Pos) THEN AfterFailure(r.bytes)
                               ELSE IF source = "bridge" THEN <<>> ELSE cache
                   /\ UNCHANGED start
        /\ UNCHANGED <<source, gen, exists, opened, got, calls>>

\* ReadAt returns: the destination is full, or the object has no more.
Returned ==
    /\ Running /\ call.op = "at" /\ (Left = 0 \/ Pos >= Size)
    /\ Finish(IF Left = 0 THEN "full" ELSE "eof")
    /\ UNCHANGED <<source, gen, exists, opened, cache, start, got, calls>>

\* Open: a HEAD, then a GET of the whole object.
Open ==
    /\ ~Running /\ calls < MaxCalls /\ Checked
    /\ calls' = calls + 1
    /\ call' = Call("open", 0, Size, NoBody) /\ got' = <<>>
    /\ UNCHANGED <<source, gen, exists, opened, cache, start>>

Stream ==
    /\ Running /\ call.op = "open"
    /\ \E r \in Bodies(0, Size) :
          IF Get(r, 0) THEN call' = [call EXCEPT !.op = "stream", !.body = r] ELSE Finish("failed")
    /\ UNCHANGED <<source, gen, exists, opened, cache, start, got, calls>>

\* The end of a stream.  The transport of S3 knows how long the body is;
\* fullReader counts, and asks for one byte more than the object has.
EndOf(body) == IF ~body.broken /\ Len(body.bytes) = call.asked THEN "eof" ELSE "failed"

Read ==
    LET arrived == Smaller(Len(call.body.bytes), call.asked)
    IN  /\ Running /\ call.op = "stream"
        /\ IF Len(got) < arrived
           THEN got' = Append(got, call.body.bytes[Len(got) + 1]) /\ UNCHANGED call
           ELSE Finish(EndOf(call.body)) /\ UNCHANGED got
        /\ UNCHANGED <<source, gen, exists, opened, cache, start, calls>>

\* The scan is cancelled or reaches its deadline.
Cancel ==
    /\ Running
    /\ Finish("failed")
    /\ UNCHANGED <<source, gen, exists, opened, cache, start, got, calls>>

Close ==
    /\ opened /\ ~Running
    /\ opened' = FALSE /\ cache' = <<>> /\ start' = 0
    /\ UNCHANGED <<source, gen, exists, call, got, calls>>

\* The owner writes the key: a new version, or the object of an unversioned bucket.
Overwrite ==
    /\ gen < LastGen
    /\ gen' = gen + 1 /\ exists' = (source # "version" \/ exists)
    /\ UNCHANGED <<source, opened, cache, start, call, got, calls>>

\* The owner deletes the object, or the signed version.
Delete ==
    /\ exists /\ exists' = FALSE
    /\ UNCHANGED <<source, gen, opened, cache, start, call, got, calls>>

Next ==
    \/ OpenAt
    \/ \E off \in 0 .. Size, n \in 1 .. Size : ReadAt(off, n)
    \/ Copy \/ Refill \/ Returned \/ Open \/ Stream \/ Read \/ Cancel \/ Close
    \/ Overwrite \/ Delete

Spec == Init /\ [][Next]_vars

-----------------------------------------------------------------------------
(* Properties *)

\* Whatever happens to the bucket and to the connections, an operation gives
\* bytes of the signed object only, from the place asked for and in order, and
\* one that ends without an error has given all there are (reader.ReadAt,
\* fullReader.Read).
ReadsPinnedBytes ==
    /\ got = Bytes(Pin, call.off, Len(got))
    /\ call.how = "full" => Len(got) = call.asked
    /\ call.how = "eof" => call.off + Len(got) >= Size
=============================================================================
