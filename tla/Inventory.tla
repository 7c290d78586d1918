------------------------------- MODULE Inventory -------------------------------
(***************************************************************************)
(* The inventory of the offered files: scans of directories that are       *)
(* written to meanwhile, the batches appended to the audit log, and what a *)
(* restart reads back from it (internal/inventory/inventory.go;            *)
(* internal/gateway/gateway.go: Open, Scan).                               *)
(*                                                                         *)
(* A file is its blocks and its modification time; each write draws a      *)
(* fresh value for both, so a block value stands for its hash.  The scan   *)
(* of a connection that was dropped may still run beside the scan of the   *)
(* next one.  Left out: generation numbers, names and media types; a batch *)
(* holds one record.  The times are those of a file system whose clock     *)
(* tells any two writes apart.                                             *)
(***************************************************************************)
EXTENDS Integers, Sequences, FiniteSets

CONSTANTS Files,      \* sequence: the files in the order of the walk
          Scans,      \* scans that may overlap
          None, MaxBlocks, MaxWrites, MaxScans

VARIABLES disk,      \* file -> [blocks, mtime], or None
          clock,
          previous,  \* g.previous: file -> [hash, mtime], or None
          rows,      \* table files: file -> [hash, present], or None
          active,    \* what replaying the log gives: file -> hash, or None
          scan,      \* each scan in progress
          started,
          disturbed  \* a scan overlapped another, or an append failed, since the start

vars == <<disk, clock, previous, rows, active, scan, started, disturbed>>

Names == {Files[i] : i \in DOMAIN Files}
Idle == [pc |-> "idle", left |-> <<>>, prior |-> None, mtime |-> 0, read |-> <<>>, out |-> <<>>]

Init ==
    /\ disk = [f \in Names |-> [blocks |-> <<0>>, mtime |-> 0]] /\ clock = 0
    /\ previous = [f \in Names |-> None] /\ rows = previous /\ active = previous
    /\ scan = [s \in Scans |-> Idle] /\ started = 0 /\ disturbed = FALSE

At(s, pc) == scan[s].pc = pc
Becomes(s, r) == scan' = [scan EXCEPT ![s] = r]
Disk == <<disk, clock>>
Kept == <<previous, rows, active>>

-----------------------------------------------------------------------------
(* A scan *)

\* Scan, scan: the records of before, and a walk over all files.
Start(s) ==
    /\ At(s, "idle") /\ started < MaxScans
    /\ started' = started + 1
    /\ disturbed' = (disturbed \/ \E t \in Scans : ~At(t, "idle"))
    /\ Becomes(s, [Idle EXCEPT !.pc = "walk", !.left = Files, !.prior = previous])
    /\ UNCHANGED <<Disk, Kept>>

Same(old, size, mtime) ==
    old # None /\ Len(old.hash) = size /\ old.mtime = mtime

Found(s, hash, mtime) ==
    [scan[s] EXCEPT !.pc = "walk", !.left = Tail(@), !.read = <<>>,
        !.out = Append(@, [file |-> scan[s].left[1], hash |-> hash, mtime |-> mtime, present |-> TRUE])]

\* The walk looks at the next file: a record whose size and time have not
\* changed is reused, any other file is read.
Walk(s) ==
    LET f == scan[s].left[1]
        old == scan[s].prior[f]
    IN  /\ At(s, "walk") /\ scan[s].left # <<>>
        /\ Becomes(s,
              IF disk[f] = None THEN [scan[s] EXCEPT !.left = Tail(@)]
              ELSE IF Same(old, Len(disk[f].blocks), disk[f].mtime) THEN Found(s, old.hash, old.mtime)
              ELSE [scan[s] EXCEPT !.pc = "read", !.mtime = disk[f].mtime])
        /\ UNCHANGED <<Disk, Kept, started, disturbed>>

MtimeAfterRead(s) == disk[scan[s].left[1]].mtime

\* r.Mtime: the time the walk saw, before the file was opened.
MtimeOf(s) == scan[s].mtime

\* readFileContext: one block, or the end of the file.  What is read of a file
\* that was deleted meanwhile does not matter: its time is never seen again.
ReadBlock(s) ==
    LET f == scan[s].left[1]
        k == Len(scan[s].read) + 1
    IN  /\ At(s, "read")
        /\ Becomes(s,
              IF disk[f] = None THEN IF k = 1 THEN Idle ELSE Found(s, scan[s].read, scan[s].mtime)
              ELSE IF k <= Len(disk[f].blocks) THEN [scan[s] EXCEPT !.read = Append(@, disk[f].blocks[k])]
              ELSE Found(s, scan[s].read, MtimeOf(s)))
        /\ UNCHANGED <<Disk, Kept, started, disturbed>>

\* Present files that were not seen are reported once more, as missing, in the
\* order of their keyed ids: any order of the files.
Deletions(s) ==
    LET seen == {scan[s].out[i].file : i \in DOMAIN scan[s].out}
        gone == {f \in Names : scan[s].prior[f] # None /\ f \notin seen}
        record(f) == [file |-> f, hash |-> scan[s].prior[f].hash, mtime |-> 0, present |-> FALSE]
    IN  {d \in [1 .. Cardinality(gone) -> {record(f) : f \in gone}] :
            \A f \in gone : \E i \in DOMAIN d : d[i] = record(f)}

Walked(s) ==
    /\ At(s, "walk") /\ scan[s].left = <<>>
    /\ \E d \in Deletions(s) :
          LET all == scan[s].out \o d
          IN  Becomes(s, [scan[s] EXCEPT !.pc = "put", !.out = all, !.left = all])
    /\ UNCHANGED <<Disk, Kept, started, disturbed>>

\* PutFile or MarkMissing for each record, then the batches.
Put(s) ==
    /\ At(s, "put")
    /\ IF scan[s].left = <<>>
       THEN Becomes(s, [scan[s] EXCEPT !.pc = "append", !.left = scan[s].out]) /\ UNCHANGED rows
       ELSE LET r == scan[s].left[1]
            IN  /\ rows' = [rows EXCEPT ![r.file] =
                               IF r.present THEN [hash |-> r.hash, present |-> TRUE]
                               ELSE IF @ = None THEN @ ELSE [@ EXCEPT !.present = FALSE]]
                /\ Becomes(s, [scan[s] EXCEPT !.left = Tail(@)])
    /\ UNCHANGED <<Disk, previous, active, started, disturbed>>

AppendRecord(s) ==
    LET r == scan[s].left[1]
    IN  /\ At(s, "append") /\ scan[s].left # <<>>
        /\ \/ /\ active' = [active EXCEPT ![r.file] = IF r.present THEN r.hash ELSE None]
              /\ Becomes(s, [scan[s] EXCEPT !.left = Tail(@)])
              /\ UNCHANGED disturbed
           \/ Becomes(s, Idle) /\ disturbed' = TRUE /\ UNCHANGED active
        /\ UNCHANGED <<Disk, previous, rows, started>>

\* Scan ends: its records are what the next one compares with.
Finish(s) ==
    LET mine(f) == {i \in DOMAIN scan[s].out : scan[s].out[i].file = f /\ scan[s].out[i].present}
        record(r) == [hash |-> r.hash, mtime |-> r.mtime]
    IN  /\ At(s, "append") /\ scan[s].left = <<>>
        /\ previous' = [f \in Names |-> IF mine(f) = {} THEN None
                                        ELSE record(scan[s].out[CHOOSE i \in mine(f) : TRUE])]
        /\ Becomes(s, Idle)
        /\ UNCHANGED <<Disk, rows, active, started, disturbed>>

\* The connection ends: its scan is cancelled unless it is appending already.
Cancel(s) ==
    /\ scan[s].pc \in {"walk", "read", "put"}
    /\ Becomes(s, Idle)
    /\ UNCHANGED <<Disk, Kept, started, disturbed>>

-----------------------------------------------------------------------------
(* The world *)

\* Someone writes block k of a file, or creates it, or appends to it.
Write(f, k) ==
    LET blocks == IF disk[f] = None THEN <<>> ELSE disk[f].blocks
    IN  /\ clock < MaxWrites /\ k \in 1 .. Len(blocks) + 1
        /\ clock' = clock + 1
        /\ disk' = [disk EXCEPT ![f] =
                       [blocks |-> SubSeq(blocks, 1, k - 1) \o <<clock + 1>> \o SubSeq(blocks, k + 1, Len(blocks)),
                        mtime |-> clock + 1]]
        /\ UNCHANGED <<Kept, scan, started, disturbed>>

Delete(f) ==
    /\ disk[f] # None
    /\ disk' = [disk EXCEPT ![f] = None]
    /\ UNCHANGED <<clock, Kept, scan, started, disturbed>>

\* Open: the records are replayed from the log, without their times.
Restart ==
    /\ previous' = [f \in Names |-> IF active[f] = None THEN None ELSE [hash |-> active[f], mtime |-> None]]
    /\ scan' = [s \in Scans |-> Idle] /\ disturbed' = FALSE
    /\ UNCHANGED <<Disk, rows, active, started>>

Next ==
    \/ \E s \in Scans : \/ Start(s) \/ Walk(s) \/ ReadBlock(s) \/ Walked(s) \/ Put(s)
                        \/ AppendRecord(s) \/ Finish(s) \/ Cancel(s)
    \/ \E f \in Names : Delete(f) \/ \E k \in 1 .. MaxBlocks : Write(f, k)
    \/ Restart

Spec == Init /\ [][Next]_vars

-----------------------------------------------------------------------------
(* Properties *)

\* A record that the next scan would reuse without reading the file has the
\* hash of its content, however the file was written to during a scan; and
\* unless scans overlapped or an append failed, what the backend was told is
\* there is what the gateway will report as missing when it goes
\* (inventory.go: scan; gateway.go: Scan, Open).
InventoryCurrent ==
    /\ \A f \in Names :
          disk[f] # None /\ Same(previous[f], Len(disk[f].blocks), disk[f].mtime)
             => previous[f].hash = disk[f].blocks
    /\ ~disturbed /\ (\A s \in Scans : At(s, "idle"))
          => \A f \in Names : (active[f] = None) = (previous[f] = None)
=============================================================================
