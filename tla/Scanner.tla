-------------------------------- MODULE Scanner --------------------------------
(***************************************************************************)
(* The scan of the tables of a listing (verification/scanner.go: prepare,  *)
(* hashBlocks, verifiedAt, openText, scanTables; verification/tabular.go:  *)
(* walkText, promote, inferText, scalar, textObject).                      *)
(*                                                                         *)
(* Every member is read twice: the first pass pins its blocks and infers   *)
(* the kind of its column, the second one computes the facts from blocks   *)
(* compared with the pinned ones.  The owner may write to a member at any  *)
(* time.  A block is 64 KiB of the code; here it is one cell, and a table  *)
(* has one column.  A digest is what it is the digest of.  The budget and  *)
(* the deadline may end the scan at any point.                             *)
(***************************************************************************)
EXTENDS Integers, Sequences, SequencesExt

CONSTANTS Listings,     \* what may be scanned: sequences of members in order,
                        \* [format, size, digests: what may be declared]
          Cells, Null,  \* values of a cell; what a missing value is written as
          Infer,        \* Infer[c]: kind of cell c (inferCell)
          Magic,          \* a cell whose block begins as an archive does ("PK")
          Window,       \* blocks of a delimited file its kind is inferred from
          Unknown,      \* the digest a cloud listing does not declare
          MaxWrites

Text == {"csv", "jsonl"}
Supported(f) == f \in Text \cup {"parquet"}

VARIABLES listing,  \* what is scanned
          disk,     \* what the members hold now
          declared, \* the digest of each member in the listing
          at,       \* the pass, the member and the file that is open
          pins,     \* what prepare has kept of the members
          facts,    \* of the members of the second pass, in order
          outcome,  \* "running", "published", or the reason of a refusal
          writes

vars == <<listing, disk, declared, at, pins, facts, outcome, writes>>

Members == DOMAIN listing
Format(i) == listing[i].format
Contents(i) == [1 .. listing[i].size -> Cells]
NoFile == [read |-> <<>>, kind |-> "unknown", error |-> FALSE, decoded |-> <<>>]
Opened(pass, i) == [pass |-> pass, member |-> i, file |-> NoFile]

Init ==
    /\ listing \in Listings
    /\ disk \in {d \in [Members -> UNION {Contents(i) : i \in Members}] :
                    \A i \in Members : d[i] \in Contents(i)}
    /\ declared \in {d \in [Members -> UNION {listing[i].digests : i \in Members}] :
                        \A i \in Members : d[i] \in listing[i].digests}
    /\ at = Opened("prepare", 1)
    /\ pins = <<>> /\ facts = <<>> /\ outcome = "running" /\ writes = 0

-----------------------------------------------------------------------------
(* The column of a table *)

\* promote: the kind of a column so far and of one more cell.
promote(a, z, json) ==
    IF a = "unknown" THEN z
    ELSE IF z \in {"unknown", a} THEN a
    ELSE IF {a, z} = {"integer", "float"} THEN "float"
    ELSE IF json THEN "none" ELSE "string"

\* inferText, for one cell.  After an error the rest of the member is read
\* for its digest only.
inferText(file, f, c) ==
    LET kind == IF f = "csv" /\ Len(file.read) > Window THEN file.kind
                ELSE promote(file.kind, Infer[c], f = "jsonl")
    IN  IF file.error \/ kind = "none" THEN [file EXCEPT !.error = TRUE]
        ELSE [file EXCEPT !.kind = kind]

\* scalar: the cell is missing, or is a value of the kind of its column.
scalar(f, kind, c) ==
    \/ c = Null
    \/ kind = "string" /\ (f = "csv" \/ Infer[c] = "string")
    \/ kind = "float" /\ Infer[c] \in {"integer", "float"}
    \/ kind = "integer" /\ Infer[c] = "integer"

-----------------------------------------------------------------------------
(* The two passes *)

member == at.member
content == disk[member]
Next1(file) == Len(file.read) + 1
Refuse(reason) == outcome' = reason /\ UNCHANGED <<at, pins, facts>>
Running(pass) == outcome = "running" /\ at.pass = pass

\* A member is text for prepare unless its first block marks an archive.
FormatOf(i, blocks) == IF blocks # <<>> /\ Head(blocks) = Magic THEN "unsupported" ELSE Format(i)

\* prepare, hashBlocks.Read: one more block of the first pass.
Prepare ==
    LET c == content[Next1(at.file)]
        file == [at.file EXCEPT !.read = Append(@, c)]
    IN  /\ Running("prepare") /\ Next1(at.file) <= Len(content)
        /\ IF Next1(at.file) > listing[member].size THEN Refuse("artifact_changed")
           ELSE /\ at' = [at EXCEPT !.file =
                              IF FormatOf(member, file.read) \in Text
                              THEN inferText(file, Format(member), c) ELSE file]
                /\ UNCHANGED <<pins, facts, outcome>>
        /\ UNCHANGED <<listing, disk, declared, writes>>

\* prepare: the end of the member.  A change is reported before an error of
\* the parser, which may be its consequence.
Prepared ==
    LET read == at.file.read
        pin == [blocks |-> read, kind |-> at.file.kind, format |-> FormatOf(member, read)]
    IN  /\ Running("prepare") /\ Next1(at.file) > Len(content)
        /\ IF Len(read) # listing[member].size \/ declared[member] \notin {Unknown, read}
           THEN Refuse("artifact_changed")
           ELSE IF at.file.error THEN Refuse("unsupported_type")
           ELSE /\ pins' = Append(pins, pin)
                /\ at' = IF member < Len(listing) THEN Opened("prepare", member + 1) ELSE Opened("scan", 1)
                /\ UNCHANGED <<facts, outcome>>
        /\ UNCHANGED <<listing, disk, declared, writes>>

VerifiedLast(k) == content[k] = pins[member].blocks[k] \/ k < listing[member].size

\* hashBlocks.Read and verifiedAt.ReadAt of the second pass.
Verified(k) == content[k] = pins[member].blocks[k]

\* parquetObject: the decoder reads any block, any number of times.  An error
\* of a read may reach the scan as one of the decoder.
Decode ==
    /\ Running("scan") /\ pins[member].format = "parquet" /\ at.file.read = <<>>
    /\ \E k \in 1 .. listing[member].size :
          IF k \in DOMAIN content /\ Verified(k)
          THEN /\ at' = [at EXCEPT !.file.decoded =
                            [j \in DOMAIN @ \cup {k} |-> IF j = k THEN content[k] ELSE @[j]]]
               /\ UNCHANGED <<pins, facts, outcome>>
          ELSE \E reason \in {"artifact_changed", "unsupported_type"} : Refuse(reason)
    /\ UNCHANGED <<listing, disk, declared, writes>>

AllDecoded == pins[member].format # "parquet" \/ DOMAIN at.file.decoded = 1 .. listing[member].size

\* textObject, the drain of a member that is skipped, and the last pass of
\* parquetObject: one more block, in order.
Read ==
    LET k == Next1(at.file)
        pin == pins[member]
    IN  /\ Running("scan") /\ AllDecoded /\ k <= Len(content)
        /\ IF k > listing[member].size \/ ~Verified(k) THEN Refuse("artifact_changed")
           ELSE IF pin.format \in Text /\ ~scalar(pin.format, pin.kind, content[k])
                THEN Refuse("unsupported_type")
           ELSE /\ at' = [at EXCEPT !.file.read = Append(@, content[k])]
                /\ UNCHANGED <<pins, facts, outcome>>
        /\ UNCHANGED <<listing, disk, declared, writes>>

\* scanTables: the end of a member, and of the scan.
Scanned ==
    LET pin == pins[member]
        fact == IF ~Supported(pin.format) THEN [kind |-> "skipped", rows |-> <<>>]
                ELSE IF pin.format = "parquet" THEN [kind |-> "parquet", rows |-> at.file.decoded]
                ELSE [kind |-> pin.kind, rows |-> at.file.read]
    IN  /\ Running("scan") /\ AllDecoded /\ Next1(at.file) > Len(content)
        /\ IF Len(at.file.read) # listing[member].size THEN Refuse("artifact_changed")
           ELSE /\ facts' = Append(facts, fact)
                /\ IF member < Len(listing) THEN at' = Opened("scan", member + 1) /\ UNCHANGED outcome
                   ELSE outcome' = "published" /\ UNCHANGED at
                /\ UNCHANGED pins
        /\ UNCHANGED <<listing, disk, declared, writes>>

\* A file that cannot be opened or read, the memory, the size of the facts,
\* the deadline.
Fail ==
    /\ outcome = "running"
    /\ \E reason \in {"artifact_changed", "resource_limit_exceeded",
                      "summary_budget_exceeded", "timeout"} : Refuse(reason)
    /\ UNCHANGED <<listing, disk, declared, writes>>

\* The owner writes a block, appends one, or drops the last one.
Write ==
    /\ outcome = "running" /\ writes < MaxWrites
    /\ writes' = writes + 1
    /\ \E i \in Members :
          \/ \E k \in DOMAIN disk[i], c \in Cells : disk' = [disk EXCEPT ![i][k] = c]
          \/ \E c \in Cells : disk' = [disk EXCEPT ![i] = Append(@, c)]
          \/ disk[i] # <<>> /\ disk' = [disk EXCEPT ![i] = Front(@)]
    /\ UNCHANGED <<listing, declared, at, pins, facts, outcome>>

Next == Prepare \/ Prepared \/ Decode \/ Read \/ Scanned \/ Fail \/ Write

Spec == Init /\ [][Next]_vars

-----------------------------------------------------------------------------
(* Properties *)

\* The kind of a column by what its cells are.
Kinds(i, blocks) ==
    {Infer[blocks[k]] : k \in {k \in DOMAIN blocks : Format(i) = "csv" => k <= Window}} \ {"unknown"}
KindOf(i, blocks) ==
    LET kinds == Kinds(i, blocks)
    IN  IF kinds = {} THEN "unknown"
        ELSE IF kinds = {"integer", "float"} THEN "float"
        ELSE IF \E k \in kinds : kinds = {k} THEN CHOOSE k \in kinds : TRUE
        ELSE IF Format(i) = "csv" THEN "string" ELSE "none"
Scannable(i, blocks) ==
    \A k \in DOMAIN blocks : scalar(Format(i), KindOf(i, blocks), blocks[k])

\* Published facts describe one content of every member, the declared one
\* when there is one, however the owner writes while the scan reads it twice;
\* and text is refused as unsupported only for what was declared, never for a
\* change ("shape errors drain to detect mutation", scanner.go:167).
FactsOfOneContent ==
    /\ outcome = "published" => \A i \in Members :
          LET blocks == pins[i].blocks
          IN  /\ declared[i] \in {Unknown, blocks}
              /\ facts[i] = IF ~Supported(FormatOf(i, blocks)) THEN [kind |-> "skipped", rows |-> <<>>]
                            ELSE IF Format(i) = "parquet" THEN [kind |-> "parquet", rows |-> blocks]
                            ELSE [kind |-> KindOf(i, blocks), rows |-> blocks]
    /\ outcome = "unsupported_type" => \E i \in Members :
          Format(i) = "parquet" \/ declared[i] = Unknown \/ ~Scannable(i, declared[i])
================================================================================
