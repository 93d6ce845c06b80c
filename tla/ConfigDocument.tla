--------------------------- MODULE ConfigDocument ---------------------------
(***************************************************************************)
(* config.toml, the desired-state document (crates/core/src/               *)
(* desired_state.rs), and the commands that read it: library bootstrap     *)
(* turns it into the Cluster once, seedbox bootstrap writes its TLS        *)
(* fingerprints and address back into it, seedbox upgrade asks its pin     *)
(* matrix.  The operator edits it at any moment, also into nonsense.       *)
(*                                                                         *)
(* A document that is TOML is a record of its settings; a size is a number *)
(* of GIB or MIB units in a word of MaxBytes.  SeedboxInstall has the      *)
(* other steps of bootstrap, LibraryCommands those of library bootstrap.   *)
(***************************************************************************)
EXTENDS Integers, Sequences, FiniteSets

CONSTANTS
    MaxBytes,      \* the largest Bytes (2^64 - 1)
    GIB, MIB,      \* bytes of a unit
    MaxRangeMib,   \* MAX_RANGE_LEN_MIB
    MaxStreams,    \* the largest range_concurrency
    Sizes, Streams,             \* numbers the operator writes
    RootLists, PinTables,       \* [[paths.roots]] and [pins] the operator writes
    Addresses,                  \* addresses of the box
    MaxEdits                    \* bound on the operator's edits

\* What an instance gives the constants.
ConfigAssumption ==
    /\ {MaxBytes, MaxRangeMib, MaxStreams, MaxEdits} \subseteq Nat
    /\ {GIB, MIB} \subseteq Nat \ {0}
    /\ MaxRangeMib * MIB <= MaxBytes
    /\ Sizes \subseteq Nat /\ Streams \subseteq Nat

Unset == -1
NoAddress == "unset"
NoCluster == [exists |-> FALSE]
NoPins == [lidarr |-> <<>>, matrix |-> <<>>]

\* What a [tls] table may hold: nothing, the bundle's values, a PEM body, or a
\* fingerprint that is not 64 lowercase hex characters.
TlsTables == {"absent", "good", "pem", "malformed"}

VARIABLES
    doc,       \* the document on disk
    boot,      \* the running seedbox bootstrap: its step and the text it read
    tls,       \* a complete TLS bundle is on disk
    cluster,   \* the Cluster the API holds
    upgraded,  \* the pins the last upgrade went ahead with
    edits
vars == <<doc, boot, tls, cluster, upgraded, edits>>

\* DesiredStateToml: `extra' is any key it does not know.
Sample == [version |-> 1, extra |-> FALSE, maxCopy |-> 1, minFree |-> 0, rangeLen |-> 1,
           streams |-> Unset, nvenc |-> 1, tls |-> "absent", address |-> NoAddress,
           roots |-> <<>>, pins |-> NoPins]

Init ==
    /\ doc = Sample
    /\ boot = [pc |-> "none", text |-> Sample]
    /\ tls = FALSE
    /\ cluster = NoCluster
    /\ upgraded = NoPins
    /\ edits = MaxEdits

-----------------------------------------------------------------------------
(* DesiredState::from_toml *)

\* gib, mib: the product, or SizeOverflow.
Sized(n, unit) == IF n * unit > MaxBytes THEN Unset ELSE n * unit

SizesFit(text) ==
    Unset \notin {Sized(text.maxCopy, GIB), Sized(text.minFree, GIB), Sized(text.rangeLen, MIB)}

\* The peek at schema_version, then the strict parse.
KnownShape(text) == text.version = 1 /\ ~text.extra

InBounds(text) ==
    /\ text.rangeLen \in 1..MaxRangeMib
    /\ text.streams # Unset => text.streams \in 1..MaxStreams
    /\ text.nvenc # 0

\* validate_tls, is_lowercase_sha256, looks_like_pem.
ValidTls(table) == table \in {"absent", "good"}

\* reject_duplicate_names over the root ids.
DistinctNames(roots) == \A i, j \in 1..Len(roots) : roots[i].id = roots[j].id => i = j

Accepts(text) ==
    /\ KnownShape(text)
    /\ InBounds(text)
    /\ ValidTls(text.tls)
    /\ DistinctNames(text.roots)
    /\ SizesFit(text)

\* cluster_from_config of the accepted settings.
ClusterFromConfig(text) ==
    [exists |-> TRUE,
     maxCopy |-> Sized(text.maxCopy, GIB), minFree |-> Sized(text.minFree, GIB),
     rangeLen |-> Sized(text.rangeLen, MIB), streams |-> text.streams,
     roots |-> text.roots, from |-> text]

\* HomeObject::validate of a Cluster.
Admits(spec) ==
    /\ spec.rangeLen \in 1..(MaxRangeMib * MIB)
    /\ spec.streams # Unset => spec.streams \in 1..MaxStreams
    /\ \A i \in 1..Len(spec.roots) : spec.roots[i].absolute /\ spec.roots[i].component
    /\ Cardinality({spec.roots[i].id : i \in 1..Len(spec.roots)}) = Len(spec.roots)

-----------------------------------------------------------------------------
(* The pin matrix *)

\* parse_semver of the dot-separated parts of a version, -1 for one that is not
\* a number: major, minor and an optional patch, or nothing.
ParseSemver(parts) ==
    IF Len(parts) \notin {2, 3} \/ \E i \in 1..Len(parts) : parts[i] = -1 THEN <<>>
    ELSE IF Len(parts) = 2 THEN Append(parts, 0) ELSE parts

\* The order of the triples.
Above(a, b) ==
    \/ a[1] > b[1]
    \/ a[1] = b[1] /\ a[2] > b[2]
    \/ a[1] = b[1] /\ a[2] = b[2] /\ a[3] > b[3]

\* The part of pin_matrix_refuse_live about one row; upgrade gives it neither
\* a live OS nor a live glibc, so every row counts.
RowRefuses(pins, row) ==
    LET pin == ParseSemver(pins.lidarr)
        limit == ParseSemver(row.refuseAbove)
    IN  \/ row.package # "lidarr"
        \/ pins.lidarr = <<>>
        \/ pin = <<>>
        \/ limit = <<>>
        \/ (pin # <<>> /\ limit # <<>> /\ Above(pin, limit))

PinMatrixRefuse(pins) == \E i \in 1..Len(pins.matrix) : RowRefuses(pins, pins.matrix[i])

-----------------------------------------------------------------------------
(* Commands *)

\* library bootstrap: an existing Cluster is kept as it is.
LibraryBootstrap ==
    /\ ~cluster.exists
    /\ Accepts(doc)
    /\ Admits(ClusterFromConfig(doc))
    /\ cluster' = ClusterFromConfig(doc)
    /\ UNCHANGED <<doc, boot, tls, upgraded, edits>>

\* seedbox bootstrap reads and parses the document,
BootstrapReads ==
    /\ boot.pc = "none"
    /\ Accepts(doc)
    /\ boot' = [pc |-> "write", text |-> doc]
    /\ UNCHANGED <<doc, tls, cluster, upgraded, edits>>

\* upsert_tls_table: the bundle's identity replaces the table.
UpsertTls(text) == [text EXCEPT !.tls = "good"]

\* upsert_seedbox_address.
UpsertAddress(text, address) == [text EXCEPT !.address = address]

\* then it mints or reuses the bundle, parses what it would write, and writes
\* the text back.
BootstrapWrites ==
    /\ boot.pc = "write"
    /\ \E address \in Addresses :
        LET identified == IF tls /\ boot.text.tls # "absent" THEN boot.text
                          ELSE UpsertTls(boot.text)
            written == UpsertAddress(identified, address)
        IN  Accepts(identified) /\ Accepts(written) /\ doc' = written
    /\ tls' = TRUE
    /\ boot' = [boot EXCEPT !.pc = "none"]
    /\ UNCHANGED <<cluster, upgraded, edits>>

\* The command fails or is killed before it wrote.
BootstrapEnds ==
    /\ boot.pc = "write"
    /\ boot' = [boot EXCEPT !.pc = "none"]
    /\ UNCHANGED <<doc, tls, cluster, upgraded, edits>>

\* seedbox upgrade goes ahead.
Upgrade ==
    /\ Accepts(doc)
    /\ ~PinMatrixRefuse(doc.pins)
    /\ upgraded' = doc.pins
    /\ UNCHANGED <<doc, boot, tls, cluster, edits>>

\* The operator changes one setting.
Edit ==
    /\ edits > 0 /\ edits' = edits - 1
    /\ \/ \E v \in {1, 2} : doc' = [doc EXCEPT !.version = v]
       \/ \E b \in BOOLEAN : doc' = [doc EXCEPT !.extra = b]
       \/ \E n \in Sizes : doc' \in {[doc EXCEPT !.maxCopy = n], [doc EXCEPT !.minFree = n],
                                     [doc EXCEPT !.rangeLen = n]}
       \/ \E n \in Streams \union {Unset} : doc' = [doc EXCEPT !.streams = n]
       \/ \E n \in {0, 1} : doc' = [doc EXCEPT !.nvenc = n]
       \/ \E t \in TlsTables : doc' = [doc EXCEPT !.tls = t]
       \/ \E r \in RootLists : doc' = [doc EXCEPT !.roots = r]
       \/ \E p \in PinTables : doc' = [doc EXCEPT !.pins = p]
    /\ UNCHANGED <<boot, tls, cluster, upgraded>>

Next ==
    \/ LibraryBootstrap
    \/ BootstrapReads
    \/ BootstrapWrites
    \/ BootstrapEnds
    \/ Upgrade
    \/ Edit

Spec == Init /\ [][Next]_vars

-----------------------------------------------------------------------------
(* Properties *)

\* The Cluster means what the operator wrote: its budgets are the written
\* number of GiB and not what is left of them in a word, every range of its
\* Jobs is one pull_file takes (1 to 64 MiB, 1 to 64 streams), and each root id
\* names one path.
ClusterMeansConfig ==
    cluster.exists =>
        /\ cluster.maxCopy = cluster.from.maxCopy * GIB
        /\ cluster.minFree = cluster.from.minFree * GIB
        /\ cluster.rangeLen = cluster.from.rangeLen * MIB
        /\ cluster.rangeLen \in 1..(MaxRangeMib * MIB)
        /\ cluster.streams = Unset \/ cluster.streams \in 1..MaxStreams
        /\ \A r, s \in {cluster.roots[i] : i \in 1..Len(cluster.roots)} : r.id = s.id => r = s

\* The numeral of a version with an optional patch.
Numeral(parts) == parts[1] * 10000 + parts[2] * 100 + (IF Len(parts) = 3 THEN parts[3] ELSE 0)

Numeric(parts) == Len(parts) \in {2, 3} /\ \A i \in 1..Len(parts) : parts[i] \in 0..99

\* An upgrade never goes ahead past a limit of the matrix, nor past a row or a
\* pin it cannot judge ("A pin above refuse_above is exit 5", docs/config.md).
UpgradeWithinMatrix ==
    \A i \in 1..Len(upgraded.matrix) :
        LET row == upgraded.matrix[i] IN
        /\ row.package = "lidarr"
        /\ Numeric(upgraded.lidarr) /\ Numeric(row.refuseAbove)
        /\ Numeral(upgraded.lidarr) <= Numeral(row.refuseAbove)

Others(text) == [text EXCEPT !.tls = "absent", !.address = NoAddress]

=============================================================================
