------------------------------- MODULE MCParts -------------------------------
(***************************************************************************)
(* An instance of Parts for TLC, and of more parts that do not interact    *)
(* with others at run time: those have their variables among p1 .. p18.    *)
(* What a part does not use of these is None.                              *)
(***************************************************************************)
EXTENDS Parts, TLC

RequestSymmetry == Permutations(Req)

MCInfer == "1" :> "integer" @@ "1.5" :> "float" @@ "x" :> "string"
MCCellKind == "1" :> "integer" @@ "1.5" :> "float" @@ "PK" :> "string" @@ Null :> "unknown"
MCSchemaKind == "a" :> "integer" @@ "b" :> "string"
MCTokens == {[by |-> 0, key |-> 1], [by |-> 0, key |-> 2]}
MCFiles == <<"f", "g">>

\* Rows of a described file: a cell may be missing, and a row may not parse.
MCRows ==
    {"a" :> x @@ "b" :> y : x \in {"1", "1.5", "x", Null}, y \in {"1", Absent}}
    \cup {"a" :> Absent @@ "b" :> y : y \in {"1", Null, Absent}} \cup {Bad}

\* Listings of a table scan: each format, and a member that is not a table.
MCListings ==
    LET member(fmt, size, digests) == [format |-> fmt, size |-> size, digests |-> digests]
    IN  { <<member("csv", 2, {<<"1", "1">>, <<"1", "PK">>}), member("parquet", 2, {Unknown, <<"1", "PK">>})>>,
          <<member("jsonl", 2, {<<"1", "1.5">>, <<"1", "PK">>, Unknown}), member("png", 1, {Unknown})>> }

\* Members of a census: a file, an archive, one by its name only, and a ZIP.
MCMembers ==
    LET member(fmt, size, decoded, digest) ==
            [format |-> fmt, size |-> size, decoded |-> decoded, corrupt |-> FALSE, digest |-> digest]
    IN  <<member("plain", 1, 0, TRUE), member("tar.gz", 2, 2, FALSE), member("tar.gz", 3, 0, FALSE),
          member("zip", 1, 0, FALSE)>>

\* Directories of a ZIP: any two entries, three in any order and place, and one
\* entry more than are read.
MCDirectories ==
    LET entries(offs, csizes, usizes, kinds) == [off : offs, csize : csizes, usize : usizes, kind : kinds]
        any == entries(0 .. 5, 1 .. 2, 1 .. 3, {"ok", "corrupt", "encrypted"})
        good(offs) == entries(offs, {1}, {1}, {"ok"})
    IN  {<<>>} \cup {<<e>> : e \in any} \cup (any \X any)
        \cup (good(0 .. 5) \X good(0 .. 5) \X good(0 .. 5))
        \cup (good({0}) \X good({2}) \X good({4}) \X good(0 .. 5))

Tab == INSTANCE Segments
    WITH Size <- 4, MaxServe <- 2, ss <- p1, tr <- p2, count <- p3, sent <- p4

Shown == INSTANCE Disclosure
    WITH Classes <- <<"audio", "other", "text">>, Floor <- 3, Units <- 10,
         MaxCount <- 7, MaxRows <- 30, input <- p1

Rest == INSTANCE Census
    WITH Members <- MCMembers, Budget <- 7, Allowance <- 3, Ratio <- 2,
         Workers <- 2, Spools <- 1, Floor <- 2, MaxChanges <- 1, order <- p1,
         next <- p2, job <- p3, expired <- p4, failed <- p5, phase <- p6,
         looked <- p7, changed <- p8, before <- p9

Zips == INSTANCE ZipArchive
    WITH Directories <- MCDirectories, CdOff <- 6, Header <- 1, Allowance <- 3,
         Entries <- 3, Ratio <- 2, files <- p1, at <- p2, entry <- p3,
         complete <- p4, hash <- p5, committed <- p6, r <- p7, expired <- p8

-----------------------------------------------------------------------------
\* The variables from p1, p2, ... on: free for the parts that do not need them.
From15 == <<p15, p16, p17, p18>>
From10 == <<p10, p11, p12, p13, p14, From15>>
From9 == <<p9, From10>>
From5 == <<p5, p6, p7, p8, From9>>
From2 == <<p2, p3, p4, From5>>
From1 == <<p1, From2>>

Free10 == /\ p10 = None /\ p11 = None /\ p12 = None /\ p13 = None /\ p14 = None
          /\ p15 = None /\ p16 = None /\ p17 = None /\ p18 = None
Free9 == p9 = None /\ Free10
Free5 == p5 = None /\ p6 = None /\ p7 = None /\ p8 = None /\ Free9
Free2 == p2 = None /\ p3 = None /\ p4 = None /\ Free5

Here == {"volume", "secret", "reader", "inventory", "profile", "scanner"}

MCInit ==
    /\ PartsInit
    /\ \/ part \in Here /\ p1 = None /\ Free2
       \/ part = "segments" /\ Tab!Init /\ Free5
       \/ part = "disclosure" /\ Shown!Init /\ Free2
       \/ part = "census" /\ Rest!Init /\ Free10
       \/ part = "zip" /\ Zips!Init /\ Free9
       \/ part = "fragments"

MCNext ==
    /\ PartsNext
    /\ \/ part \in Here /\ UNCHANGED From1
       \/ part = "segments" /\ Tab!Next /\ UNCHANGED From5
       \/ part = "disclosure" /\ Shown!Next /\ UNCHANGED From2
       \/ part = "census" /\ Rest!Next /\ UNCHANGED From10
       \/ part = "zip" /\ Zips!Next /\ UNCHANGED From9
       \/ part = "fragments"

MCSpec == MCInit /\ [][MCNext]_partsVars

-----------------------------------------------------------------------------
\* Segments!ListsDenote, RowsCanonical and ReadingsExact: the rows of serves and
\* transmitted are what TransferLedger takes them for (ledger.go: transform,
\* normalize, covered, firstUntransmitted, countBytes).
SegmentsExact == part = "segments" => Tab!ListsDenote /\ Tab!RowsCanonical /\ Tab!ReadingsExact

\* Disclosure!SmallCountsHidden (occupancy.go: partition; scanner.go: finish).
SmallCountsHidden == part = "disclosure" => Shown!SmallCountsHidden

\* Disclosure!ComplementHidden (occupancy.go:142 and finish).
ComplementHidden == part = "disclosure" => Shown!ComplementHidden

\* Census!CensusHolds and ZipArchive!ZipCreditExact: what a census claims to have
\* read (census.go: scanCensus; zip.go: readZip, zipFullHash).
CensusExact ==
    /\ part = "census" => Rest!CensusHolds
    /\ part = "zip" => Zips!ZipCreditExact
=============================================================================
