------------------------------- MODULE ZipArchive -------------------------------
(***************************************************************************)
(* The census of one ZIP archive (verification/zip.go: planZip, readZip,   *)
(* zipFullHash).  The central directory chooses the entries to read and    *)
(* where each may lie, each is read with one request, and the archive is   *)
(* credited as a whole only when the bytes of all extents, kept back until *)
(* their turn, have been hashed in the order they lie in.                  *)
(*                                                                         *)
(* A byte is its position.  The directory is whatever its writer wrote:    *)
(* extents may overlap or lie out of order.  The deadline may pass and a   *)
(* request fail at any point.                                              *)
(***************************************************************************)
EXTENDS Integers, Sequences, FiniteSets, FiniteSetsExt, SequencesExt

CONSTANTS Directories,  \* sequences of entries [off, csize, usize, kind]
          CdOff,        \* where the central directory begins
          Header,       \* the least length of a local header: 30
          Allowance, Entries, Ratio  \* ArchiveAllowanceBytes, ArchiveCaps

VARIABLES files,     \* the entries in the order of the directory
          at,        \* "tail", "prefix", "entry", "commit" or "done"
          entry,     \* the index of the next entry
          complete,  \* a full hash is still possible
          hash,      \* zipFullHash: bytes hashed, extents kept back
          committed, \* the extents hashed into the commitment of the entries
          r,         \* the result so far
          expired

vars == <<files, at, entry, complete, hash, committed, r, expired>>

Smaller(a, b) == IF a < b THEN a ELSE b
Larger(a, b) == IF a > b THEN a ELSE b
Bytes(from, to) == [k \in 1 .. to - from |-> from + k - 1]
Sum(of(_), ks) == MapThenSumSet(of, ks)
ArchiveSize == CdOff + 1
NoHash == [bytes |-> <<>>, pending |-> {}]

Init ==
    /\ files \in Directories
    /\ at = "tail" /\ entry = 1 /\ complete = FALSE /\ hash = NoHash /\ committed = <<>>
    /\ r = [state |-> "unread", reason |-> "archive_corrupt", tag |-> "unread", opened |-> FALSE,
            processed |-> 0, readable |-> 0, unreadable |-> 0]
    /\ expired = FALSE

-----------------------------------------------------------------------------
(* planZip *)

All == DOMAIN files
Csize(i) == files[i].csize
Usize(i) == files[i].usize

\* The entries that are read: the first ones, while they fit by the sizes the
\* directory declares, and not more than the cap.
Planned(n) == Sum(Usize, 1 .. n)
Fits(n) == n <= Entries /\ Planned(n) <= Allowance
Selected == CHOOSE n \in 0 .. Len(files) : Fits(n) /\ (n = Len(files) \/ ~Fits(n + 1))
Stop == IF Selected >= Entries THEN "archive_over_cap" ELSE "budget_exhausted"

\* The extents in the order they lie in; a tie is broken either way.
Inside == {i \in All : files[i].off >= 0 /\ files[i].off <= CdOff - Header}
Following(i) == {j \in Inside \ {i} : files[j].off > files[i].off \/ (files[j].off = files[i].off /\ j > i)}
Neighbour(i) == CHOOSE j \in Following(i) :
    \A k \in Following(i) : files[j].off < files[k].off \/ (files[j].off = files[k].off /\ j <= k)
Bound(i) == IF i \in Inside /\ Following(i) # {} THEN files[Neighbour(i)].off ELSE CdOff
Overlaps(i) == Csize(i) > Larger(0, Bound(i) - files[i].off - Header) \/ Bound(i) - files[i].off < Header

\* Both sides of a provable overlap are out.
Valid(i) == i \in Inside /\ ~Overlaps(i)
            /\ ~ \E j \in Inside : Overlaps(j) /\ Following(j) # {} /\ Neighbour(j) = i
Decodable(i) == files[i].kind \notin {"encrypted", "unknown_method"}

-----------------------------------------------------------------------------
(* readZip *)

Stays == UNCHANGED <<files, expired>>
Goto(stage) == at' = stage /\ UNCHANGED entry
After(i) == entry' = i + 1 /\ UNCHANGED at

\* creditBad: what was read and what could not be stay within the archive.
creditBad(x, n) == x.unreadable + Smaller(n, ArchiveSize - x.readable - x.unreadable)

\* The tail: the request, the end record, the caps on the directory.
ReadTail ==
    LET compressed == Sum(Csize, All)
        expanded == Sum(Usize, All)
        overCap == expanded > Ratio * compressed
    IN  /\ at = "tail"
        /\ \/ /\ \E reason \in {"read_error", "archive_corrupt", "archive_over_cap"} :
                    (reason # "read_error" => ~expired) /\
                    r' = [r EXCEPT !.reason = IF expired THEN "budget_exhausted" ELSE reason,
                                   !.unreadable = IF expired THEN 0 ELSE ArchiveSize]
              /\ Goto("done") /\ UNCHANGED complete
           \/ /\ overCap /\ Goto("done") /\ UNCHANGED complete
              /\ r' = [r EXCEPT !.reason = "archive_over_cap", !.unreadable = ArchiveSize]
           \/ /\ ~overCap
              /\ Goto("prefix")
              /\ complete' = /\ Selected = Len(files) /\ \A i \in All : Valid(i) /\ Decodable(i)
                             /\ CdOff - compressed <= Allowance
              /\ r' = [r EXCEPT !.opened = TRUE, !.state = "partly_read", !.reason = ""]
        /\ Stays /\ UNCHANGED <<hash, committed>>

First == Min({CdOff} \cup {files[i].off : i \in All})

\* hashZipPrefix: what lies before the first entry.
Prefix ==
    /\ at = "prefix" /\ Goto("entry")
    /\ \/ complete /\ First > 0 /\ hash' = [hash EXCEPT !.bytes = Bytes(0, First)] /\ UNCHANGED <<complete, r>>
       \/ complete /\ First > 0 /\ complete' = FALSE /\ r' = [r EXCEPT !.reason = "read_error"] /\ UNCHANGED hash
       \/ (~complete \/ First = 0) /\ UNCHANGED <<complete, hash, r>>
    /\ Stays /\ UNCHANGED committed

HashNext(h) == Len(h.bytes)

WriteInOrder(h, off, to) == [h EXCEPT !.bytes = @ \o Bytes(off, to)]

\* zipFullHash.Write, of a whole extent: it is hashed when it is its turn, with
\* those that waited for it; else it is kept.
Write(h, off, to) ==
    LET feed(acc, turn) ==
            LET due == {x \in acc.pending : x[1] = HashNext(acc)}
            IN  IF due = {} THEN acc
                ELSE LET x == CHOOSE x \in due : TRUE
                     IN  [bytes |-> acc.bytes \o Bytes(x[1], x[2]), pending |-> acc.pending \ {x}]
    IN  FoldLeft(feed, [h EXCEPT !.pending = @ \cup {<<off, to>>}], files)

Current(i) == at = "entry" /\ entry = i /\ i <= Selected

\* An entry of the plan that is not tried: its place is in doubt, or it is
\* encrypted.
Skip(i) ==
    /\ Current(i) /\ ~expired /\ ~(Valid(i) /\ Decodable(i))
    /\ After(i) /\ complete' = FALSE /\ hash' = NoHash
    /\ r' = [r EXCEPT !.reason = IF Valid(i) /\ files[i].kind = "encrypted" THEN "archive_encrypted"
                                 ELSE "archive_corrupt", !.unreadable = creditBad(r, Csize(i))]
    /\ Stays /\ UNCHANGED committed

\* The request or the stream fails: nothing after it is tried.
Break(i) ==
    /\ Current(i)
    /\ expired \/ (Valid(i) /\ Decodable(i))
    /\ complete' = FALSE /\ hash' = NoHash /\ Goto("commit")
    /\ \E n \in 0 .. Usize(i) :
          r' = IF expired THEN [r EXCEPT !.reason = "budget_exhausted", !.processed = @ + n]
               ELSE [r EXCEPT !.reason = "read_error", !.processed = @ + n, !.unreadable = creditBad(r, Csize(i))]
    /\ Stays /\ UNCHANGED committed

\* readZipEntry: the header, the sizes and the checksum do not agree.
Corrupt(i) ==
    /\ Current(i) /\ ~expired /\ Valid(i) /\ files[i].kind = "corrupt"
    /\ After(i) /\ complete' = FALSE /\ hash' = NoHash
    /\ \E n \in 0 .. Usize(i) :
          r' = [r EXCEPT !.reason = "archive_corrupt", !.processed = @ + n, !.unreadable = creditBad(r, Csize(i))]
    /\ Stays /\ UNCHANGED committed

\* An entry decodes.  While the archive may be credited as a whole its extent
\* is read to its bound and hashed, unless memory to keep it is short.
Credit(i) ==
    LET length == Bound(i) - files[i].off
    IN  /\ Current(i) /\ ~expired /\ Valid(i) /\ files[i].kind = "ok"
        /\ After(i)
        /\ committed' = Append(committed, <<files[i].off, files[i].off + Header + Csize(i)>>)
        /\ \/ /\ complete
              /\ hash' = Write(hash, files[i].off, Bound(i)) /\ UNCHANGED complete
              /\ r' = [r EXCEPT !.processed = @ + Usize(i),
                                !.readable = @ + Smaller(Csize(i), ArchiveSize - r.readable - r.unreadable)]
           \/ /\ complete => HashNext(hash) # files[i].off
              /\ complete' = FALSE /\ hash' = NoHash
              /\ r' = [r EXCEPT !.reason = IF complete THEN "read_error" ELSE @,
                                !.processed = @ + Usize(i),
                                !.readable = @ + Smaller(Csize(i), ArchiveSize - r.readable - r.unreadable)]
        /\ Stays

\* The rest of a directory that was not selected.
StopHere ==
    /\ at = "entry" /\ entry = Selected + 1 /\ Selected < Len(files)
    /\ Goto("commit")
    /\ r' = [r EXCEPT !.reason = Stop,
                      !.unreadable = IF Stop = "archive_over_cap"
                                     THEN creditBad(r, Sum(Csize, entry .. Len(files))) ELSE @]
    /\ Stays /\ UNCHANGED <<complete, hash, committed>>

\* The commitment: of the whole archive, or of the entries that were credited.
Commit ==
    LET whole == complete /\ HashNext(hash) = CdOff
    IN  /\ at = "commit" \/ (at = "entry" /\ entry = Selected + 1 /\ Selected = Len(files))
        /\ Goto("done") /\ hash' = [hash EXCEPT !.pending = {}]
        /\ r' = [r EXCEPT !.state = IF whole THEN "fully_read" ELSE @,
                          !.tag = IF whole THEN "full" ELSE "zip_entries"]
        /\ Stays /\ UNCHANGED <<complete, committed>>

Deadline ==
    /\ at # "done" /\ ~expired /\ expired' = TRUE
    /\ UNCHANGED <<files, at, entry, complete, hash, committed, r>>

Next ==
    \/ ReadTail \/ Prefix \/ StopHere \/ Commit \/ Deadline
    \/ \E i \in All : Skip(i) \/ Break(i) \/ Corrupt(i) \/ Credit(i)

Spec == Init /\ [][Next]_vars

-----------------------------------------------------------------------------
(* Properties *)

\* Whatever the directory says: an archive is credited as a whole only when
\* every byte before the directory was hashed, once and in its order, and every
\* entry decoded; the extents the other commitment covers are disjoint; and
\* what is decoded, read and given up stays within the allowance and the size
\* (zip.go: planZip, zipFullHash.Write, creditBad).
ZipCreditExact ==
    /\ r.tag = "full" => /\ hash.bytes = Bytes(0, CdOff)
                         /\ Len(committed) = Len(files) /\ \A i \in All : files[i].kind = "ok"
    /\ \A j, k \in DOMAIN committed : j # k =>
          committed[j][2] <= committed[k][1] \/ committed[k][2] <= committed[j][1]
    /\ r.processed <= Allowance
    /\ r.readable + r.unreadable <= ArchiveSize
=================================================================================
