--------------------------------- MODULE Parts ---------------------------------
(***************************************************************************)
(* Parts of the system that meet no other part while they run: the state   *)
(* volume of a gateway, the secret of a hosted verifier, the readers of    *)
(* the cloud sources, the inventory, the column profile, the scan of       *)
(* tables, and a ledger whose reservations leave its coverage in           *)
(* fragments.  A behaviour is one of a single part, the one `part' names;  *)
(* the variables of every other part are None, except for p1 .. p18, which *)
(* parts that a module adds to these may use.  The names of StateVolume    *)
(* keep their form, the others are those of an instance.                   *)
(***************************************************************************)
EXTENDS StateVolume

CONSTANTS PartNames,                    \* the parts that may run
          Slots, FirstKeys, Tokens, MaxInvocations,         \* RunnerSecret
          Size, Window, Sources, Pin, LastGen, MaxCalls,    \* SourceReader
          Files, Scans, MaxBlocks, MaxWrites, MaxScans,     \* Inventory
          Cols, Rows, Infer, SchemaKind, Sample, Limits,    \* Profile
          Drops, Absent, Null, Bad, MaxRows,
          Listings, Cells, CellKind, Magic, FirstBlocks, Unknown,  \* Scanner
          Permission, Req, Ordered, PayloadSize, ServeLimit, Isolated \* TransferLedger

VARIABLES part,
          lease, fence, secrets, assigned, inv, drawn,      \* RunnerSecret
          invocations, keysUsed, runnersUsed, pinned,
          source, gen, exists, handle, cache, start,        \* SourceReader
          call, got, calls,
          disk, clock, previous, rows, active, scan,        \* Inventory
          started, disturbed,
          format, lines, group, counted, drop, limit,       \* Profile
          pos, acc, ended,
          listing, members, declared, at, pins, facts,      \* Scanner
          outcome, writes,
          p1, p2, p3, p4, p5, p6, p7, p8, p9,               \* TransferLedger
          p10, p11, p12, p13, p14, p15, p16, p17, p18

Secret == INSTANCE RunnerSecret WITH fresh <- drawn
Reader == INSTANCE SourceReader WITH opened <- handle
Records == INSTANCE Inventory
Described == INSTANCE Profile WITH file <- lines
TableScan == INSTANCE Scanner WITH disk <- members, Infer <- CellKind, Window <- FirstBlocks

\* One permission for a file of PayloadSize bytes, without faults and revocations;
\* its theorems come with the instance.
Frag == INSTANCE TransferLedgerProofs
    WITH JTI <- {Permission}, Content <- {Ordered},
         SizeOf <- [c \in {Ordered} |-> PayloadSize], SD <- [j \in {Permission} |-> 1],
         TD <- [j \in {Permission} |-> 1], Window <- 1, MaxServe <- ServeLimit,
         MaxIntervals <- Isolated, MaxAttempts <- 2, MaxClock <- 0,
         OfferStates <- {"offered"}, Revocable <- {}, Crashes <- FALSE,
         DBFaults <- FALSE, file <- p1, offer <- p2, perm <- p3, revocations <- p4,
         serves <- p5, transmitted <- p6, rq <- p7, completed <- p8, outbox <- p9,
         up <- p10, lock <- p11, pc <- p12, chunk <- p13, outcome <- p14,
         attempts <- p15, clock <- p16, sentTo <- p17, hold <- p18

\* None stands for what is not there, and for nothing else.
ASSUME VolumeAssumption ==
    /\ None \notin Nat \cup Runners
    /\ None \notin [runner : Runners \cup {None}, nonce : Nat \cup {None}, version : Versions \cup {None}]

ASSUME ReaderAssumption == Size \in Nat /\ Window \in Nat

ASSUME RecordsAssumption ==
    /\ None \notin Nat \cup Seq(Nat)
    /\ None \notin [blocks : Seq(Nat), mtime : Nat]
    /\ None \notin [hash : Seq(Nat), mtime : Nat \cup {None}]
    /\ Files \in Seq(Records!Names)

\* Null, Absent and None are no values, and a value has a type.
ASSUME DescribedAssumption ==
    /\ {Null, Absent, None} \cap Described!Values = {}
    /\ \A v \in Described!Values : Infer[v] # "none"
    /\ \A c \in Cols : SchemaKind[c] # "none"
    /\ IsFiniteSet(Cols) /\ Sample \in Nat /\ MaxRows \in Nat /\ Limits \subseteq Nat

\* A listing without members is refused before the scan (scanner.go:129).
ASSUME TableScanAssumption ==
    /\ \A l \in Listings : /\ DOMAIN l = 1 .. Len(l) /\ Len(l) \in Nat \ {0}
                           /\ \A i \in DOMAIN l : l[i].size \in Nat
    /\ \A c \in Cells : CellKind[c] # "none"
    /\ CellKind[Null] = "unknown" /\ FirstBlocks \in Nat

ASSUME FragmentsAssumption ==
    /\ IsFiniteSet(Req) /\ None \notin Req \cup {Permission}
    /\ PayloadSize \in Nat /\ ServeLimit \in Nat \ {0} /\ Isolated \in Nat

-----------------------------------------------------------------------------
NoVolume ==
    /\ visible = None /\ durable = None /\ staged = None /\ code = None /\ version = None
    /\ used = None /\ named = None /\ proc = None /\ fresh = None /\ loaded = None
    /\ opened = None /\ acked = None /\ crashes = None /\ starts = None
NoSecret ==
    /\ lease = None /\ fence = None /\ secrets = None /\ assigned = None /\ inv = None
    /\ drawn = None /\ invocations = None /\ keysUsed = None /\ runnersUsed = None /\ pinned = None
NoReader ==
    /\ source = None /\ gen = None /\ exists = None /\ handle = None /\ cache = None
    /\ start = None /\ call = None /\ got = None /\ calls = None
NoRecords ==
    /\ disk = None /\ clock = None /\ previous = None /\ rows = None /\ active = None
    /\ scan = None /\ started = None /\ disturbed = None
NoneDescribed ==
    /\ format = None /\ lines = None /\ group = None /\ counted = None /\ drop = None
    /\ limit = None /\ pos = None /\ acc = None /\ ended = None
NoTableScan ==
    /\ listing = None /\ members = None /\ declared = None /\ at = None /\ pins = None
    /\ facts = None /\ outcome = None /\ writes = None

ofSecret == <<lease, fence, secrets, assigned, inv, drawn, invocations, keysUsed, runnersUsed, pinned>>
ofReader == <<source, gen, exists, handle, cache, start, call, got, calls>>
ofRecords == <<disk, clock, previous, rows, active, scan, started, disturbed>>
ofDescribed == <<format, lines, group, counted, drop, limit, pos, acc, ended>>
ofTableScan == <<listing, members, declared, at, pins, facts, outcome, writes>>
ofFragments == <<p1, p2, p3, p4, p5, p6, p7, p8, p9, p10, p11, p12, p13, p14, p15, p16, p17, p18>>
partsVars == <<part, vars, ofSecret, ofReader, ofRecords, ofDescribed, ofTableScan, ofFragments>>

PartsInit ==
    /\ part \in PartNames
    /\ IF part = "volume" THEN Init ELSE NoVolume
    /\ IF part = "secret" THEN Secret!Init ELSE NoSecret
    /\ IF part = "reader" THEN Reader!Init ELSE NoReader
    /\ IF part = "inventory" THEN Records!Init ELSE NoRecords
    /\ IF part = "profile" THEN Described!Init ELSE NoneDescribed
    /\ IF part = "scanner" THEN TableScan!Init ELSE NoTableScan
    /\ IF part = "fragments" THEN Frag!Init ELSE TRUE

PartsNext ==
    /\ UNCHANGED part
    /\ IF part = "volume" THEN Next ELSE UNCHANGED vars
    /\ IF part = "secret" THEN Secret!Next ELSE UNCHANGED ofSecret
    /\ IF part = "reader" THEN Reader!Next ELSE UNCHANGED ofReader
    /\ IF part = "inventory" THEN Records!Next ELSE UNCHANGED ofRecords
    /\ IF part = "profile" THEN Described!Next ELSE UNCHANGED ofDescribed
    /\ IF part = "scanner" THEN TableScan!Next ELSE UNCHANGED ofTableScan
    /\ IF part = "fragments" THEN Frag!Next ELSE TRUE

PartsSpec == PartsInit /\ [][PartsNext]_partsVars

-----------------------------------------------------------------------------
(* The promises of the parts *)

\* StateVolume!VolumeKeepsIdentity and RunnerSecret!KeyHistoryKept: what names a
\* gateway or a runner survives crashes and overlapping starts (pairing.go,
\* keys.go; bootstrap.go: Bootstrap, Rotate).
IdentityKept ==
    /\ part = "volume" => VolumeKeepsIdentity
    /\ part = "secret" => Secret!KeyHistoryKept

\* SourceReader!ReadsPinnedBytes: nothing but bytes of the signed object
\* (s3.go: ReadAt; reader.go: ReadAt, fullReader.Read).
ReadsPinnedBytes == part = "reader" => Reader!ReadsPinnedBytes

\* Inventory!InventoryCurrent: the record of a file is of its content
\* (inventory.go: scan; gateway.go: Scan).
InventoryCurrent == part = "inventory" => Records!InventoryCurrent

\* Profile!DescribesEveryRow (profile.go: add, describe, jsonLines, parquetFile).
DescribesEveryRow == part = "profile" => Described!DescribesEveryRow

\* Scanner!FactsOfOneContent (scanner.go: prepare, scanTables).
FactsOfOneContent == part = "scanner" => TableScan!FactsOfOneContent

\* TransferLedger!CoverageBounded: reservations that are admitted together leave
\* no more isolated intervals than the bound and one (ledger.go: Reserve).
CoverageBounded == part = "fragments" => Frag!CoverageBounded
=============================================================================
