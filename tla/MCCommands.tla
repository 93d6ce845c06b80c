----------------------------- MODULE MCCommands -----------------------------
(***************************************************************************)
(* The commands an operator runs at home and the library they work on, in  *)
(* one run: state.db, library sync and its planner, reclaim, encode, the   *)
(* library commands, new-machine, the inbox, watch, config.toml, the       *)
(* progress line, timestamps, and the grammar of paths (which is extended: *)
(* no Hold and no listed file while another part runs).                    *)
(***************************************************************************)
EXTENDS Slots, PathSchema

CONSTANTS NoOne, NoConf, NoCopy, NoMax, p1, p2,
          op1, op2    \* operators

Symmetry == Permutations({op1, op2})

\* state.db: two processes open a file of an old version and die meanwhile.
OldPath == "oldA" :> "newA"
IndexRow(t, path, i, c) == [title |-> t, path |-> path, install |-> i, current |-> c]
OldRows ==
    {{}, {IndexRow("t1", "none", "d1", "d1")},
     {IndexRow("t1", "oldA", "d1", "d2"), IndexRow("t2", "rel", "d2", "d2")}}
D1 == INSTANCE StateDb WITH
    version <- s1, tables <- s2, titled <- s3, index <- s4, staged <- s5, jobs <- s6, proc <- s7,
    legacy <- s8, deaths <- s9, ops <- s10, Procs <- {p1, p2}, Titles <- {"t1", "t2"},
    Digests <- {"d1", "d2"}, Paths <- {"rel", "oldA", "newA"}, Moved <- OldPath,
    LegacyVersions <- {0, 1, 2, 4, 6}, LegacyRows <- OldRows, LegacyJobs <- TRUE,
    MaxJobs <- 1, MaxDeaths <- 2, MaxOps <- 0

\* state.db: one process opens a file of any version and uses it.
D2 == INSTANCE StateDb WITH
    version <- s1, tables <- s2, titled <- s3, index <- s4, staged <- s5, jobs <- s6, proc <- s7,
    legacy <- s8, deaths <- s9, ops <- s10, Procs <- {p1}, Titles <- {"t1", "t2"},
    Digests <- {"d1", "d2"}, Paths <- {"rel", "oldA", "newA"}, Moved <- OldPath,
    LegacyVersions <- 0 .. 7, LegacyRows <- OldRows, LegacyJobs <- TRUE,
    MaxJobs <- 1, MaxDeaths <- 2, MaxOps <- 2

\* state.db: two processes use a file of the current version.
D3 == INSTANCE StateDb WITH
    version <- s1, tables <- s2, titled <- s3, index <- s4, staged <- s5, jobs <- s6, proc <- s7,
    legacy <- s8, deaths <- s9, ops <- s10, Procs <- {p1, p2}, Titles <- {"t1", "t2"},
    Digests <- {"d1", "d2"}, Paths <- {"rel", "oldA", "newA"}, Moved <- OldPath,
    LegacyVersions <- {7}, LegacyRows <- OldRows, LegacyJobs <- FALSE,
    MaxJobs <- 3, MaxDeaths <- 1, MaxOps <- 3

\* The planner: two episodes of one show, a movie and a track, offered by up to
\* three remote files in every order and two approved holds.
PlanTitle == [e1 |-> "show", e2 |-> "show", m |-> "movie", t |-> "album"]
PlanKind == [show |-> "series", movie |-> "movie", album |-> "album"]
Offer(r, l, f) == [ref |-> r, len |-> l, media |-> TRUE, file |-> f]
Offers == {Offer("r1", 2, "e1"), Offer("r2", 1, "e2"), Offer("r3", 3, "m"), Offer("r4", 1, "m"),
           Offer("r5", 2, "t"), Offer("r6", 0, "t"), Offer("r7", 1, "needs-year"),
           [ref |-> "r8", len |-> 1, media |-> FALSE, file |-> "unparseable"]}
Listings == UNION {{s \in [1 .. n -> Offers] : IsInjective(s)} : n \in 0 .. 3}
Approved(r, f, placed) == [ref |-> r, file |-> f, size |-> 2, key |-> "album", placed |-> placed]
PlanRequests ==
    [listing : Listings, onDisk : {{}, {"m"}}, indexed : {{}, {"m", "e1"}}, wants : {{}, {"show"}},
     held : {{}, {"r1", "r5"}}, approved : {<<>>, <<Approved("r5", "t", TRUE), Approved("r9", "e2", FALSE)>>},
     maxCopy : {3, 5}, free : {4, 6}, minFree : {2}, lock : {FALSE},
     servarr : {TRUE}, frozen : {FALSE}, missing : {{"movie"}}]
    \cup
    [listing : {<<>>, <<Offer("r1", 2, "e1"), Offer("r3", 3, "m")>>, <<Offer("r6", 0, "t"), Offer("r1", 2, "e1")>>},
     onDisk : SUBSET {"m", "e1"}, indexed : SUBSET {"m", "e1"}, wants : {{}},
     held : {{}}, approved : {<<>>, <<Approved("r6", "t", TRUE), Approved("r9", "t", TRUE)>>},
     maxCopy : {9}, free : {9}, minFree : {0}, lock : BOOLEAN,
     servarr : BOOLEAN, frozen : BOOLEAN, missing : SUBSET {"movie", "show"}]
Q == INSTANCE PlanActions WITH
    Files <- {"e1", "e2", "m", "t"}, TitleOf <- PlanTitle, KindOf <- PlanKind

\* plan_actions over every request of a bounded set: one is chosen (s1) and planned once (s2).
NotPlanned == <<[type |-> "none"]>>
PlanInit == s1 \in PlanRequests /\ s2 = NotPlanned
PlanOnce == s2 = NotPlanned /\ s2' = Q!Plan(s1) /\ UNCHANGED s1

\* library sync: two episodes of a show that are upgraded on the seedbox.
L1 == INSTANCE LibrarySync WITH
    remote <- s1, library <- s2, index <- s3, jobs <- s4, stage <- s5, missing <- s6, config <- s7,
    run <- s8, count <- s9, Files <- {"e1", "e2"}, TitleOf <- PlanTitle, KindOf <- PlanKind,
    Order <- <<"e1", "e2">>, Servarr <- TRUE, MaxVersion <- 2, MaxCopy <- 1, MaxCrashes <- 1,
    MaxFails <- 1, MaxJobs <- 5

\* library sync: a movie beside an episode.
L2 == INSTANCE LibrarySync WITH
    remote <- s1, library <- s2, index <- s3, jobs <- s4, stage <- s5, missing <- s6, config <- s7,
    run <- s8, count <- s9, Files <- {"m", "e1"}, TitleOf <- PlanTitle, KindOf <- PlanKind,
    Order <- <<"m", "e1">>, Servarr <- TRUE, MaxVersion <- 1, MaxCopy <- 2, MaxCrashes <- 1,
    MaxFails <- 1, MaxJobs <- 6

\* library encode: a 10 bit HEVC movie that converts, and one with HDR metadata.
Ten == [codec |-> "hevc", bits |-> 0, pix |-> 10, height |-> 1080, formats |-> {"mov", "mp4"},
        transfer |-> "bt709", side |-> {}, tag |-> "hvc1"]
Eight == [Ten EXCEPT !.codec = "h264", !.pix = 8]
Streams == [hevc10 |-> Ten, hdr10 |-> [Ten EXCEPT !.side = {"mastering display"}],
            h264 |-> Eight, user |-> Ten, none |-> Eight]
Originals == [m1 |-> "hevc10", m2 |-> "hdr10"]
BothMovies == [m1 |-> "movie", m2 |-> "movie"]
N == INSTANCE EncodeLibrary WITH
    live <- s1, backup <- s2, converting <- s3, journal <- s4, row <- s5, cluster <- s6, cmd <- s7,
    left <- s8, touched <- s9, Files <- {"m1", "m2"}, Original <- Originals, KindOf <- BothMovies,
    RawOf <- Streams, NvencCap <- 1, MaxNvenc <- 2, MaxCrashes <- 2, MaxFaults <- 1, MaxTouch <- 2

\* reclaim: a season pack of two episodes, seeded from the allowlisted root itself.
E1 == [root |-> "shows", rel |-> <<"Show", "S01E01">>]
E2 == [root |-> "shows", rel |-> <<"Show", "S01E02">>]
Torrented == [root |-> "movies", rel |-> <<"incomplete", "Movie">>]
Usenet == [root |-> "usenet", rel |-> <<"Movie">>]
RootPaths == [shows |-> <<"data", "tv">>, movies |-> <<"data", "torrents">>, usenet |-> <<"nzb">>]
LocalCopy == [f \in {E1, E2, Torrented, Usenet} |-> IF f = E1 THEN "e1" ELSE IF f = E2 THEN "e2" ELSE "movie"]
Mtimes == [f \in {E1, E2, Torrented, Usenet} |-> IF f = E1 THEN 1 ELSE 2]
PackContent == [pack |-> [abs |-> TRUE, names |-> <<"data", "tv", "Show">>]]
PackSave == [pack |-> [abs |-> FALSE, names |-> <<>>]]
Facts == {[state |-> "uploading", ratio |-> 2, private |-> FALSE],
          [state |-> "pausedDL", ratio |-> 1, private |-> TRUE]}
UnderGoal == [state |-> "pausedDL", ratio |-> 0, private |-> TRUE]
R1 == INSTANCE Reclaim WITH
    box <- s1, tor <- s2, qbit <- s3, lib <- s4, proof <- s5, lock <- s6, run <- s7, served <- s8,
    sound <- s9, guarded <- s10, events <- s11, Files <- {E1, E2}, RootPath <- RootPaths,
    LocalOf <- LocalCopy, Mtime <- Mtimes, Torrents <- {"pack"}, Content <- PackContent,
    Save <- PackSave, TorrentFacts <- Facts \cup {UnderGoal}, Grabber <- "servarr", HasOps <- TRUE,
    InSchema <- {E1, E2}, MaxDeletes <- NoMax, Meddling <- "always", MaxCalls <- 2, MaxEvents <- 2

\* reclaim: a movie under two roots, without a grabber; others keep the lock.
R2 == INSTANCE Reclaim WITH
    box <- s1, tor <- s2, qbit <- s3, lib <- s4, proof <- s5, lock <- s6, run <- s7, served <- s8,
    sound <- s9, guarded <- s10, events <- s11, Files <- {E2, Usenet, Torrented}, RootPath <- RootPaths,
    LocalOf <- LocalCopy, Mtime <- Mtimes, Torrents <- {"pack"}, Content <- PackContent,
    Save <- PackSave, TorrentFacts <- Facts, Grabber <- "none", HasOps <- TRUE,
    InSchema <- {E2}, MaxDeletes <- 2, Meddling <- "idle", MaxCalls <- 2, MaxEvents <- 2

\* new-machine: three rows of two Titles; a second file of one is foreign to the bundle.
BundleOf ==
    [f \in {[title |-> "m", path |-> "a"], [title |-> "s", path |-> "a"], [title |-> "s", path |-> "b"]} |->
        [install |-> "x", current |-> IF f.title = "m" THEN "y" ELSE "x"]]
M == INSTANCE NewMachine WITH
    cluster <- s1, job <- s2, title <- s3, row <- s4, file <- s5, disk <- s6, imp <- s7,
    faults <- s8, events <- s9, Titles <- <<"m", "s">>, Paths <- {"a", "b"}, BundleRows <- BundleOf,
    BundleLock <- FALSE, BundleSecret <- TRUE, BundleTls <- {"ca", "key"}, OldTls <- {"ca", "extra"},
    Digests <- {"x", "y"}, Roots <- {"r", "n"}, NewRoot <- "n", MaxFaults <- 1, MaxEvents <- 3,
    None <- NoOne

\* The inbox: two holds of one title, two operators, two scans.
InboxOrder == <<"m1-x", "m1-y">>
InboxTitle == [n \in ToSet(InboxOrder) |-> "m1"]
InboxRelease == [n \in ToSet(InboxOrder) |-> IF n = "m1-y" THEN "y" ELSE "x"]
InboxMentions == <<{"m1-x", "m1-y"}, {"m1-y"}, {}>>
I == INSTANCE CliInbox WITH
    hold <- s1, bound <- s2, node <- s3, scan <- s4, shown <- s5, op <- s6, listed <- s7,
    last <- s8, scans <- s9, commands <- s10, Order <- InboxOrder, TitleOf <- InboxTitle,
    ReleaseOf <- InboxRelease, Mentions <- InboxMentions, Operators <- {op1, op2},
    Ways <- {"release", "title"}, MaxScans <- 2, MaxCommands <- 2, None <- NoOne

V == INSTANCE CliWatch WITH
    want <- s1, title <- s2, cmd <- s3, had <- s4, others <- s5, Operators <- {op1, op2},
    MaxOthers <- 3, None <- NoOne

\* The library commands on two placements.
Placements == {"mkv", "track"}
PlacedTitle == [mkv |-> "movie", track |-> "album"]
Itself == [p \in Placements |-> p]
PullOf(p, install, where, given, title) ==
    [kind |-> "pull", path |-> p, install |-> install, remote |-> where, given |-> given,
     title |-> title, kindOf |-> PlacedTitle[p]]
ManualPulls ==
    {PullOf("mkv", TRUE, "scene", g, "movie") : g \in {{"ext", "title", "year"}, {"ext"}}}
    \cup {PullOf("mkv", FALSE, "scene", {}, "movie"), PullOf("mkv", TRUE, "scene", {"ext", "title", "year"}, "other")}
    \cup {PullOf("track", TRUE, "schema", {}, t) : t \in {"album", "other"}}
    \cup {PullOf("track", TRUE, "scene", {"ext", "title", "year"}, "album")}
Reindex == [kind |-> "reindex"]
Relocate == [kind |-> "relocate", root |-> 2]
Bootstraps == {[kind |-> "bootstrap", root |-> r, reserve |-> 1] : r \in {1, 2}}

\* Manual pulls beside a Job.
C1 == INSTANCE LibraryCommands WITH
    cluster <- s1, laid <- s2, free <- s3, taken <- s4, disk <- s5, staged <- s6, proof <- s7,
    job <- s8, cmd <- s9, last <- s10, frozen <- s11, left <- s12, Paths <- Placements,
    TitleOf <- PlacedTitle, KeyOf <- Itself, Split <- {"track"}, Roots <- {1}, Unlinked <- 0,
    FileLen <- 2, Room <- 5, Reserves <- {1}, Absent <- FALSE, Present <- {}, Starts <- ManualPulls,
    Attempts <- 2, JobPaths <- {"track"}, MaxStarts <- 2, MaxFaults <- 1, MaxEdits <- 0,
    MaxWorld <- 1, Operator <- FALSE, None <- NoOne
\* A reindex while files come and go.
C2 == INSTANCE LibraryCommands WITH
    cluster <- s1, laid <- s2, free <- s3, taken <- s4, disk <- s5, staged <- s6, proof <- s7,
    job <- s8, cmd <- s9, last <- s10, frozen <- s11, left <- s12, Paths <- Placements,
    TitleOf <- PlacedTitle, KeyOf <- Itself, Split <- {"track"}, Roots <- {1, 2}, Unlinked <- 0,
    FileLen <- 1, Room <- 4, Reserves <- {1}, Absent <- FALSE, Present <- {"mkv"}, Starts <- {Reindex},
    Attempts <- 2, JobPaths <- {"track"}, MaxStarts <- 1, MaxFaults <- 1, MaxEdits <- 1,
    MaxWorld <- 2, Operator <- FALSE, None <- NoOne
\* Reindex and relocation, one after the other or beside another, with an operator's lock.
C3 == INSTANCE LibraryCommands WITH
    cluster <- s1, laid <- s2, free <- s3, taken <- s4, disk <- s5, staged <- s6, proof <- s7,
    job <- s8, cmd <- s9, last <- s10, frozen <- s11, left <- s12, Paths <- Placements,
    TitleOf <- PlacedTitle, KeyOf <- Itself, Split <- {"track"}, Roots <- {1, 2}, Unlinked <- 0,
    FileLen <- 1, Room <- 4, Reserves <- {1}, Absent <- FALSE, Present <- {"mkv"},
    Starts <- {Reindex, Relocate}, Attempts <- 2, JobPaths <- {"track"}, MaxStarts <- 2,
    MaxFaults <- 1, MaxEdits <- 2, MaxWorld <- 0, Operator <- FALSE, None <- NoOne
\* Bootstrap and relocation, from no Cluster at all.
C4 == INSTANCE LibraryCommands WITH
    cluster <- s1, laid <- s2, free <- s3, taken <- s4, disk <- s5, staged <- s6, proof <- s7,
    job <- s8, cmd <- s9, last <- s10, frozen <- s11, left <- s12, Paths <- Placements,
    TitleOf <- PlacedTitle, KeyOf <- Itself, Split <- {"track"}, Roots <- {1, 2}, Unlinked <- 0,
    FileLen <- 1, Room <- 4, Reserves <- {1}, Absent <- TRUE, Present <- {"mkv"},
    Starts <- {Relocate} \cup Bootstraps, Attempts <- 2, JobPaths <- {"track"}, MaxStarts <- 2,
    MaxFaults <- 1, MaxEdits <- 2, MaxWorld <- 0, Operator <- FALSE, None <- NoOne

O == INSTANCE OperationProgress WITH
    state <- s1, holder <- s2, main <- s3, painter <- s4, screen <- s5, MaxUpdates <- 3

\* config.toml in a word of 16 values, with units of 4 and 2.
RootEntry(id, absolute, component) == [id |-> id, absolute |-> absolute, component |-> component]
RootTables ==
    {<<>>, <<RootEntry("a", TRUE, TRUE)>>, <<RootEntry("a", TRUE, TRUE), RootEntry("b", TRUE, TRUE)>>,
     <<RootEntry("a", TRUE, TRUE), RootEntry("a", TRUE, TRUE)>>, <<RootEntry("a", FALSE, TRUE)>>,
     <<RootEntry("a/b", TRUE, FALSE)>>}
PinRow(package, limit) == [package |-> package, refuseAbove |-> limit]
Pins ==
    {[lidarr |-> v, matrix |-> mx] :
        v \in {<<>>, <<2>>, <<2, 1>>, <<2, 1, 3>>, <<2, 1, 4>>, <<3, 0>>, <<2, 1, 3, 0>>},
        mx \in {<<PinRow("lidarr", <<2, 1, 3>>)>>, <<PinRow("lidarr", <<2, -1>>)>>,
                <<PinRow("sonarr", <<2, 1, 3>>)>>,
                <<PinRow("lidarr", <<3, 0>>), PinRow("lidarr", <<2, 1>>)>>}}
F == INSTANCE ConfigDocument WITH
    doc <- s1, boot <- s2, tls <- s3, cluster <- s4, upgraded <- s5, edits <- s6,
    MaxBytes <- 15, GIB <- 4, MIB <- 2, MaxRangeMib <- 2, MaxStreams <- 2, Sizes <- {0, 3, 4},
    Streams <- {0, 2, 3}, RootLists <- RootTables, PinTables <- Pins, Addresses <- {"here"},
    MaxEdits <- 2

\* Two years around each turn the calendar takes.
Z == INSTANCE CivilDays WITH
    utc <- s1, elapsed <- s2, start <- s3, StartYears <- {1968, 1969, 1999, 2000, 2019, 2099},
    Days <- 800, Hours <- 6, Zones <- {-12, -6, 0, 6, 12}

ASSUME CommandAssumptions ==
    /\ C1!LibraryAssumption /\ C2!LibraryAssumption /\ C3!LibraryAssumption /\ C4!LibraryAssumption
    /\ O!ProgressAssumption /\ F!ConfigAssumption /\ Z!CivilAssumption /\ N!EncodeAssumption
    /\ R1!ReclaimAssumption /\ R2!ReclaimAssumption

\* The grammar: names of one or two words of every class, joined in every way, in each
\* place where it takes a name.
Classes == {"w", "PROPER", "1080p", "web", "7", "99", "!", "(2013)", "S01E07"}
Joints == {<<" ">>, <<"-">>, <<" ", "-", " ">>}
Names == {<<x>> : x \in Classes} \cup {<<x>> \o j \o <<y>> : x, y \in Classes, j \in Joints}
Movies == {Movie(t, y, "mkv") : t \in Names, y \in {1999, 12}}
Episodes ==
    {Episode(t, 1999, TagOf[g], n, "mkv") :
        t \in {<<"v">>, <<"S01E01">>, <<"v", " ", "1080p">>}, g \in {"S01E01", "S01E01-E07"},
        n \in Names \cup {<<>>}}
Tracks ==
    {Track(<<"v">>, t, 1999, d, n, name, "mkv") :
        t \in {<<"v">>, <<"v", " ", "(2013)">>}, d \in {None, 7}, n \in {None, 7, 150}, name \in Names}
    \cup {Track(name, <<"v">>, 1999, 1, 7, <<"w">>, "mkv") : name \in Names}
Other == Movie(<<"other">>, 1999, "mkv")
\* Two Holds of one album.
AlbumHolds ==
    {<<Track(<<"v">>, <<"v">>, 1999, d, n, x, "mkv"), Track(<<"v">>, <<"v">>, 2013, 1, k, y, "mkv")>> :
        d \in {1, 7}, n \in {None, 7}, k \in {7, 99}, x, y \in {<<"w">>, <<"7", " ", "w">>, <<"99", " ", "w">>}}

Folders == {t \o y : t \in {<<"w">>, <<"w", " ", "v">>, <<"w", " ", "-", " ", "v">>, <<"!">>, <<"w", ".", "PROPER">>},
                     y \in {<<".", "(1999)">>, <<" ", "(1999)">>, <<"(1999)">>, <<>>, <<".", "(0012)">>}}
MovieFiles == {t \o <<".", "mkv">> : t \in
                 {<<"w", ".", "(1999)">>, <<"w", " ", "v", ".", "(1999)", " ", "web">>, <<"w", " ", "v", " ", "(1999)">>}}
              \cup {<<"mkv">>, <<".", "mkv">>}
EpisodeFiles == {x \o <<t>> \o y \o <<".", "mkv">> :
    x \in {<<>>, <<"w", ".">>, <<"w", " ", "-", " ">>}, t \in {"S01E01", "S01E01-E07"},
    y \in {<<>>, <<".", "v">>, <<" ", "-", " ", "v", ".", "1080p", ".", "web">>, <<".", "web">>, <<"-", "v">>}}
TrackFiles == {x \o n \o t \o <<".", "mkv">> :
    x \in {<<>>, <<"w", ".", "(1999)", ".">>, <<"w", " ", "(1999)", " ", "-", " ">>},
    n \in {<<>>, <<"01", ".">>, <<"7", " ", "-", " ">>, <<"150", ".">>, <<"300", ".">>},
    t \in {<<"v">>, <<"v", ".", "web", ".", "1080p">>, <<"1080p">>, <<"web">>}}
\* Listed files of every depth, under roots with and without a kind.
ListedFiles ==
    {[hint |-> h, path |-> x] : h \in {"any", "movie"}, x \in
        {<<d, f>> : d \in Folders, f \in MovieFiles}
        \cup {<<k, <<"w", " ", "(1999)">>, f>> : k \in {<<"movies">>, <<"tv">>}, f \in MovieFiles}
        \cup {<<<<"_ops">>, <<bin>>, f>> : bin \in {"needs-split", "needs-year", "v"}, f \in MovieFiles}}
    \cup {[hint |-> h, path |-> x] : h \in {"any", "series"}, x \in
        {<<d, f>> : d \in {<<"w", " ", "(1999)">>, <<"w">>}, f \in EpisodeFiles}
        \cup {<<<<"w", ".", "(1999)">>, d, f>> :
                 d \in {<<"Season", ".", "01">>, <<"Season", " ", "7">>}, f \in EpisodeFiles}}
    \cup {[hint |-> h, path |-> x] : h \in {"any", "album"}, x \in
        {<<d, <<"w", " ", "(1999)">>, f>> : d \in {<<"v", " ", "w">>, <<"music">>, <<"!">>}, f \in TrackFiles}
        \cup {<<<<"v">>, <<"w", ".", "(1999)">>, d, f>> :
                 d \in {<<"Disc", ".", "07">>, <<"CD", "1">>, <<"CD", " ", "01">>, <<"v">>}, f \in TrackFiles}}

\* A Hold of every kind of name and two of one album, or a listed file.
NotListed == [hint |-> "any", path |-> <<<<"w">>>>]
GrammarCases ==
    [items : {<<i, Other>> : i \in Movies \cup Episodes \cup Tracks} \cup AlbumHolds, listed : {NotListed}]
    \cup [items : {<<>>}, listed : ListedFiles]

Resting ==
    /\ holds = <<>> /\ remote = Unused /\ want = "Open"
    /\ jobs = {} /\ library = {} /\ stuck = FALSE

CommandsInit ==
    \/ /\ Resting
       /\ \/ Chosen("migrate", 10) /\ D1!Init
          \/ Chosen("open", 10) /\ D2!Init
          \/ Chosen("calls", 10) /\ D3!Init
          \/ Chosen("planner", 2) /\ PlanInit
          \/ Chosen("show", 9) /\ L1!Init
          \/ Chosen("movie", 9) /\ L2!Init
          \/ Chosen("encode", 9) /\ N!Init
          \/ Chosen("pack", 11) /\ R1!Init
          \/ Chosen("locked", 11) /\ R2!Init
          \/ Chosen("import", 9) /\ M!ImportInit
          \/ Chosen("inbox", 10) /\ I!InboxInit
          \/ Chosen("watch", 5) /\ V!WatchInit
          \/ Chosen("pull", 12) /\ C1!LibraryInit
          \/ Chosen("reindex", 12) /\ C2!LibraryInit
          \/ Chosen("upkeep", 12) /\ C3!LibraryInit
          \/ Chosen("roots", 12) /\ C4!LibraryInit
          \/ Chosen("progress", 5) /\ O!Init
          \/ Chosen("config", 6) /\ F!Init
          \/ Chosen("civil", 3) /\ Z!Init
    \/ Chosen("grammar", 0) /\ FlowInit

CommandsNext ==
    \/ /\ UNCHANGED vars
       /\ \/ Moves("migrate", 10) /\ D1!Next
          \/ Moves("open", 10) /\ D2!Next
          \/ Moves("calls", 10) /\ D3!Next
          \/ Moves("planner", 2) /\ PlanOnce
          \/ Moves("show", 9) /\ L1!Next
          \/ Moves("movie", 9) /\ L2!Next
          \/ Moves("encode", 9) /\ N!Next
          \/ Moves("pack", 11) /\ R1!Next
          \/ Moves("locked", 11) /\ R2!Next
          \/ Moves("import", 9) /\ M!ImportNext
          \/ Moves("inbox", 10) /\ I!InboxNext
          \/ Moves("watch", 5) /\ V!WatchNext
          \/ Moves("pull", 12) /\ C1!LibraryNext
          \/ Moves("reindex", 12) /\ C2!LibraryNext
          \/ Moves("upkeep", 12) /\ C3!LibraryNext
          \/ Moves("roots", 12) /\ C4!LibraryNext
          \/ Moves("progress", 5) /\ O!Next
          \/ Moves("config", 6) /\ F!Next
          \/ Moves("civil", 3) /\ Z!Tick
    \/ Moves("grammar", 0) /\ FlowNext

CommandsSpec == CommandsInit /\ [][CommandsNext]_<<slots, vars>>

-----------------------------------------------------------------------------
(* What is promised of the parts.  Each conjunct is defined, with a comment, *)
(* in the part's module; the type invariants go with them.                   *)

\* The index tells what is installed.  Opening state.db loses no install proof,
\* whichever statement of the migration a process dies after (Store::open), a
\* store that opened can run every query (migrate), processes that race create_job
\* share one open Want, and a recorded digest is never replaced (record_install);
\* in library sync the file at a recorded path is the recorded one, a Want is
\* settled only by a file of its title, and the grabber stops looking only once
\* the proof is recorded (apply_plan).
IndexIsTrue ==
    /\ [](/\ part = "migrate" => D1!LegacyRowsSurvive
          /\ part = "open" => D2!VersionMatchesTables
          /\ part = "calls" => D3!StateTypeOK /\ D3!OneOpenWant
          /\ part = "show" => L1!LibraryTypeOK /\ L1!ProofMatchesDisk)
    /\ [][/\ part = "calls" => D3!KeepsDigests
          /\ part = "show" => L1!SettlesByFile
          /\ part = "movie" => L2!UnmonitorsProved]_slots

\* No copy is lost.  In encode the bytes of an untouched file are at every moment
\* the ones its proof names, or a synced journal entry leads from one to the
\* other, its original is live or backed up, and install_b3 is written once
\* (encode_one, recover, swap_with_backup); what reclaim unlinks on the seedbox had
\* an intact copy in the library during the run that asked for it, and still has it
\* if the library is only changed under the lock and apply still waits for the call
\* (one that was given up may unlink when the lock is free); a seeding or linked
\* file is spared by every call, and every candidate gets an outcome unless apply
\* itself dies (apply_reclaim, delete_remote).
CopiesAreKept ==
    /\ [](/\ part = "encode" => N!EncodeTypeOK /\ N!ProofOrJournal /\ N!OriginalKept
          /\ part = "pack" => R1!ReclaimTypeOK /\ R1!EveryCandidateAnswered
          /\ part = "locked" => R2!EveryCandidateAnswered)
    /\ [][/\ part = "encode" => N!KeepsInstallProof
          /\ part = "pack" => R1!DeletesProved /\ R1!SparesSeeders
          /\ part = "locked" => R2!KeepsLastCopy]_slots

\* A plan is fair and finds every file.  Copies stay inside max_copy and min_free,
\* each file is copied at most once and gets exactly one action, an album goes
\* first and nothing overtakes, and the grabber is stopped only for a title the
\* index has a row of and the disk a file (plan_actions); whatever a scene name
\* says, what is installed parses back to its own key, one file per key, and the
\* controllers and the library planner take an approved Hold for the same file of
\* the same title, though not always for the same path (pathschema.rs,
\* pathparse.rs).
PlansAreFair ==
    /\ part = "planner" /\ s2 # NotPlanned =>
         /\ Q!BudgetRespected(s1, s2) /\ Q!EachFileOnce(s1, s2) /\ Q!NothingVanishes(s1, s2)
         /\ Q!NoOvertaking(s1, s2) /\ Q!UnmonitorIsProved(s1, s2)
    /\ part = "grammar" => LibraryCanonical /\ OneFilePerKey /\ PlannersAgree /\ ListedKeepsItsKey

\* The library is changed by one command at a time and completely.  From the
\* replacement of the Cluster to the final lock of an import there is no Job, and
\* its success means the whole bundle is in place, rows added and none changed
\* (import, publish_rows); neither Jobs nor a manual pull take a filesystem below
\* the reserve, success of --install means a verified record, a reindex proves
\* every file nobody touched, a lock stays until the operator clears it unless he
\* set it during a maintenance or between bootstrap's read and write of the
\* Cluster, and no Job that has not ended points to a root that was left
\* (library.rs, home_library.rs).
LibraryIsGuarded ==
    /\ [](/\ part = "import" => M!ImportTypeOK /\ M!RestoredWithoutJobs /\ M!DoneIsWhole
          /\ part = "pull" => C1!ReserveKept /\ C1!SuccessMeansProof
          /\ part = "reindex" => C2!ReindexIsWhole
          /\ part = "upkeep" => C3!FreezeStays /\ C3!JobsFollowRoot
          /\ part = "roots" => C4!FreezeStays /\ C4!JobsFollowRoot)
    /\ [][part = "import" => M!KeepsRows /\ M!PublishesTruth]_slots

\* The operator's word counts.  A decision replaces the one the command has read,
\* is about the hold that was named, and stays while a Job is bound under it
\* (hold approve, hold reject, hold list); a watch that succeeds had its Want and
\* its Title (watch); the Cluster means what config.toml says and no upgrade goes
\* past the matrix (desired_state.rs, pin_matrix); a progress line never goes back
\* and the outcome is the last (OperationProgress); later timestamps read as later
\* in every zone (days_from_civil).
OperatorIsObeyed ==
    /\ [](/\ part = "inbox" =>
               I!InboxOnlyListed /\ I!NoLostDecision /\ I!ReleaseIsMeant /\ I!BoundStaysApproved
          /\ part = "watch" => V!WatchedIsDesired
          /\ part = "config" => F!ClusterMeansConfig /\ F!UpgradeWithinMatrix
          /\ part = "civil" => Z!ReadsTheInstant)
    /\ [][part = "progress" => O!KeepsOutcome /\ O!PaintsNewer]_slots

-----------------------------------------------------------------------------
(***************************************************************************)
(* What must happen in the end (MCCommandProgress.cfg), for the seedbox's  *)
(* workers and the commands an operator runs.  A process that can go on    *)
(* goes on; where a comment says so an operator repeats a command.         *)
(***************************************************************************)

\* library sync: failing transfers and upgrades, but no crash.
ShowOf == [e1 |-> "show", e2 |-> "show"]
Library == INSTANCE LibrarySync WITH
    remote <- s1, library <- s2, index <- s3, jobs <- s4, stage <- s5, missing <- s6, config <- s7,
    run <- s8, count <- s9, Files <- {"e1", "e2"}, TitleOf <- ShowOf, KindOf <- [show |-> "series"],
    Order <- <<"e1", "e2">>, Servarr <- TRUE, MaxVersion <- 2, MaxCopy <- 2, MaxCrashes <- 0,
    MaxFails <- 1, MaxJobs <- 5

\* library encode: API errors and failed conversions, but no crash and no user.
Encode == INSTANCE EncodeLibrary WITH
    live <- s1, backup <- s2, converting <- s3, journal <- s4, row <- s5, cluster <- s6, cmd <- s7,
    left <- s8, touched <- s9, Files <- {"m1", "m2"}, Original <- Originals,
    KindOf <- BothMovies, RawOf <- Streams, NvencCap <- 1, MaxNvenc <- 2,
    MaxCrashes <- 0, MaxFaults <- 2, MaxTouch <- 0

\* The edge: the panel rewrites one conf once.
Confs == {<<"pass", "host">>, <<"other", "pass">>}
Edge == INSTANCE EdgeRepair WITH
    conf <- s1, served <- s2, host <- s3, link <- s4, want <- s5, started <- s6, record <- s7,
    cmd <- s8, rewrites <- s9, faults <- s10, edits <- s11, Apps <- <<"sonarr", "prowlarr">>,
    Confs <- Confs, Keyless <- {}, MaxRewrites <- 1, MaxFaults <- 1, MaxEdits <- 0, Missing <- NoConf

\* new-machine: three rows of two Titles.
Import == INSTANCE NewMachine WITH
    cluster <- s1, job <- s2, title <- s3, row <- s4, file <- s5, disk <- s6, imp <- s7,
    faults <- s8, events <- s9, Titles <- <<"m", "s">>, Paths <- {"a", "b"}, BundleRows <- BundleOf,
    BundleLock <- FALSE, BundleSecret <- TRUE, BundleTls <- {"ca", "key"}, OldTls <- {"ca", "extra"},
    Digests <- {"x"}, Roots <- {"r", "n"}, NewRoot <- "n", MaxFaults <- 2, MaxEvents <- 0,
    None <- NoOne

\* The grabber: a pack of a series and a movie.
Pack == [title |-> "s", release |-> 1]
Film == [title |-> "m", release |-> 1]
Grab == INSTANCE Grabber WITH
    queue <- s1, next <- s2, came <- s3, removed <- s4, keyfile <- s5, up <- s6, hold <- s7,
    meant <- s8, monitored <- s9, copy <- s10, had <- s11, scan <- s12, events <- s13, faults <- s14,
    Apps <- <<"sonarr", "radarr">>, AppOf <- [s |-> "sonarr", m |-> "radarr"], Releases <- {Pack, Film},
    Packs <- {Pack}, Titles <- {"m"}, Series <- {"s"}, PageSize <- 2, MaxPages <- 2,
    KeysVanish <- FALSE, MaxEvents <- 2, MaxFaults <- 1, None <- NoOne

\* grab apply: one media app with an indexer, a client, formats and profiles.
Named == [name |-> "a", val |-> "x"]
Apply == INSTANCE GrabApply WITH
    res <- s1, ids <- s2, format <- s3, scores <- s4, delay <- s5, op <- s6, clean <- s7, settled <- s8,
    before <- s9, events <- s10, faults <- s11, Media <- <<"sonarr">>, Others <- <<>>, Servarr <- TRUE,
    WantIndexers <- [sonarr |-> {Named}, prowlarr |-> {}], WantClients <- {Named},
    WantFormats <- {"f"}, WantScores <- TRUE, WantDelay <- TRUE, Masked <- {}, Names <- {"a"},
    Values <- {"x", "y"}, Profiles <- {1}, MaxEvents <- 1, MaxFaults <- 1

Watch == INSTANCE CliWatch WITH
    want <- s1, title <- s2, cmd <- s3, had <- s4, others <- s5, Operators <- {op1, op2},
    MaxOthers <- 3, None <- NoOne

\* Two manual pulls, an operator who does as the error message says.
PullsOfBoth ==
    {[kind |-> "pull", path |-> p, install |-> TRUE, remote |-> "schema", given |-> {},
      title |-> PlacedTitle[p], kindOf |-> PlacedTitle[p]] : p \in {"mkv", "track"}}
Recover == INSTANCE LibraryCommands WITH
    cluster <- s1, laid <- s2, free <- s3, taken <- s4, disk <- s5, staged <- s6, proof <- s7,
    job <- s8, cmd <- s9, last <- s10, frozen <- s11, left <- s12, Paths <- {"mkv", "track"},
    TitleOf <- PlacedTitle, KeyOf <- Itself, Split <- {"track"},
    Roots <- {1}, Unlinked <- 0, FileLen <- 1, Room <- 5, Reserves <- {1}, Absent <- FALSE,
    Present <- {}, Starts <- PullsOfBoth, Attempts <- 2, JobPaths <- {}, MaxStarts <- 2,
    MaxFaults <- 2, MaxEdits <- 1, MaxWorld <- 0, Operator <- TRUE, None <- NoOne

Line == INSTANCE OperationProgress WITH
    state <- s1, holder <- s2, main <- s3, painter <- s4, screen <- s5, MaxUpdates <- 3

ASSUME ProgressAssumptions == Recover!LibraryAssumption /\ Line!ProgressAssumption /\ Encode!EncodeAssumption

\* The grammar: Holds whose names it keeps, beside a listed file, and listed files alone.
TameItems ==
    {<<i, Other>> : i \in
        {Movie(<<"w", "-", "v">>, 1999, "mkv"), Movie(<<"w", " ", "(2013)">>, 1999, "mkv"),
         Episode(<<"w">>, 1999, TagOf["S01E01-E07"], <<"w", " ", "web">>, "mkv"),
         Track(<<"w", " ", "PROPER">>, <<"v", " ", "(2013)">>, 1999, 7, 7, <<"7", " ", "w">>, "mkv")}}
TameMovieFiles == {<<"w", ".", "(1999)", ".", "mkv">>, <<"w", " ", "v", ".", "(1999)", " ", "web", ".", "mkv">>}
TameEpisodeFiles == {x \o <<t>> \o y \o <<".", "mkv">> :
    x \in {<<>>, <<"w", ".">>}, t \in {"S01E01", "S01E01-E07"}, y \in {<<>>, <<".", "v">>, <<".", "web">>}}
TameTrackFiles == {x \o n \o <<"v", ".", "mkv">> :
    x \in {<<>>, <<"w", ".", "(1999)", ".">>}, n \in {<<>>, <<"01", ".">>, <<"150", ".">>, <<"300", ".">>}}
TameListedFiles ==
    {[hint |-> "any", path |-> <<<<"w", " ", "(1999)">>, f>>] : f \in TameMovieFiles \cup TameEpisodeFiles}
    \cup {[hint |-> "album", path |-> <<<<"v">>, <<"w", ".", "(1999)">>, d, f>>] :
             d \in {<<"Disc", ".", "07">>, <<"v">>}, f \in TameTrackFiles}
TameCases ==
    [items : TameItems, listed : {[hint |-> "any", path |-> <<<<"w", " ", "(1999)">>, <<"w", ".", "(1999)", ".", "mkv">>>>]}]
    \cup [items : {<<>>}, listed : TameListedFiles]

ProgressInit ==
    \/ /\ Resting
       /\ \/ Chosen("library", 9) /\ Library!Init
          \/ Chosen("encode", 9) /\ Encode!Init
          \/ Chosen("edge", 11) /\ Edge!EdgeInit
          \/ Chosen("import", 9) /\ Import!ImportInit
          \/ Chosen("grabber", 14) /\ Grab!GrabberInit
          \/ Chosen("apply", 11) /\ Apply!ApplyInit
          \/ Chosen("watch", 5) /\ Watch!WatchInit
          \/ Chosen("recover", 12) /\ Recover!LibraryInit
          \/ Chosen("line", 5) /\ Line!Init
    \/ Chosen("grammar", 0) /\ FlowInit

ProgressNext ==
    \/ /\ UNCHANGED vars
       /\ \/ Moves("library", 9) /\ Library!Next
          \/ Moves("encode", 9) /\ Encode!Next
          \/ Moves("edge", 11) /\ Edge!EdgeNext
          \/ Moves("import", 9) /\ Import!ImportNext
          \/ Moves("grabber", 14) /\ Grab!GrabberNext
          \/ Moves("apply", 11) /\ Apply!ApplyNext
          \/ Moves("watch", 5) /\ Watch!WatchNext
          \/ Moves("recover", 12) /\ Recover!LibraryNext
          \/ Moves("line", 5) /\ Line!Next
    \/ Moves("grammar", 0) /\ FlowNext

\* The timer starts a run after the last one, and a run goes on.
LibraryFair ==
    /\ WF_slots(Moves("library", 9) /\ Library!ApplyStep)
    /\ []<>(part = "library" => s8.at # "idle")

\* The operator runs encode again as long as something is left, when it can start.
EncodeFair ==
    /\ WF_slots(Moves("encode", 9) /\ Encode!CommandStep)
    /\ SF_slots(Moves("encode", 9) /\ Encode!StartEncode({"m1", "m2"}))

\* The operator repeats the repair while the edge is frozen.
EdgeFair ==
    /\ WF_slots(Moves("edge", 11) /\ Edge!Repairing)
    /\ WF_slots(Moves("edge", 11) /\ Edge!RepairStep)

\* The operator repeats new-machine, watch and grab apply until they succeed.
ImportFair == WF_slots(Moves("import", 9) /\ Import!ImportStep)
WatchFair == \A o \in {op1, op2} : WF_slots(Moves("watch", 5) /\ Watch!Works(o))
ApplyFair == WF_slots(Moves("apply", 11) /\ Apply!ApplyStep)

\* The inventory worker's loop goes on.
GrabFair == WF_slots(Moves("grabber", 14) /\ Grab!ScanStep)

\* A command goes on; the operator clears a lock that was left, and reindexes.
RecoverFair ==
    /\ WF_slots(Moves("recover", 12) /\ Recover!Command)
    /\ WF_slots(Moves("recover", 12) /\ Recover!Unlock)
    /\ WF_slots(Moves("recover", 12) /\ Recover!Recover)

\* The painting thread goes on; it holds the mutex for one clone in 250 ms, so that a
\* command that asks for it gets it.
LineFair ==
    /\ WF_slots(Moves("line", 5) /\ Line!Painter)
    /\ SF_slots(Moves("line", 5) /\ Line!Stopping)

\* The controllers' loop and the worker go on; no operator has to act.
GrammarFair ==
    /\ WF_vars(Moves("grammar", 0) /\ Pass)
    /\ WF_vars(Moves("grammar", 0) /\ \E j \in jobs : Bind(j))
    /\ WF_vars(Moves("grammar", 0) /\ \E j \in jobs : Install(j))

ProgressSpec ==
    /\ ProgressInit /\ [][ProgressNext]_<<slots, vars>>
    /\ LibraryFair /\ EncodeFair /\ EdgeFair /\ ImportFair /\ WatchFair /\ ApplyFair /\ GrabFair
    /\ RecoverFair /\ LineFair /\ GrammarFair

\* A copy is not failed for ever: every file the seedbox lists reaches the library (apply_copy).
EverythingInstalls == \A f \in {"e1", "e2"} : <>(part = "library" => Library!Arrived(f))

\* Every convertible movie ends up converted, with its proof published and its journal
\* gone, through API errors and failed conversions (encode_library).
EncodeConverges == <>[](part = "encode" => Encode!AllConverted)

\* "run mediaops repair edge --repair --confirm": once the panel and the faults stop,
\* repairs end the freeze.
RepairEndsFreeze == []<>(part = "edge" => ~Edge!Frozen)

\* On a home nobody else works on, an import that is repeated after it died at any step
\* ends with success (new-machine).
RetryCompletes == <>(part = "import" => Import!At("done"))

\* A rejection that stands is acknowledged once the apps stay up, also when records of
\* one pack vanish under the deletion of the others, or an answer was lost (reject).
RejectionsLand ==
    \A k \in {Pack, Film} :
        <>[](part = "grabber" /\ Grab!Rejected(k)) => <>(part = "grabber" /\ Grab!Acknowledged(k))

\* A Title in the library that is still wanted ends unmonitored once the apps stay up.
PresentSettles ==
    <>[](part = "grabber" /\ Grab!Healthy /\ s10["m"] = "good") => []<>(part = "grabber" /\ "m" \notin s9)

\* Once nobody interferes and nothing fails, a repeated grab apply ends, unless the
\* operator left two resources of one name.
ApplyConverges ==
    <>[](part = "apply" /\ Apply!Distinct) => <>(part = "apply" /\ Apply!At("done"))

\* Every operator's watch succeeds in the end, whoever writes or dies in between.
WatchCompletes == \A o \in {op1, op2} : <>(part = "watch" => Watch!At(o, "done"))

\* "run library reindex to recover its proof": a file in the library gets one in the end.
ProofRecovered ==
    \A p \in {"mkv", "track"} :
        (part = "recover" /\ Recover!Unproved(p)) ~> ~(part = "recover" /\ Recover!Unproved(p))

\* stop returns, with the outcome on the screen: the command neither waits for a thread
\* that waits for its mutex nor loses the wake-up (OperationProgress::stop).
StopReturns == (part = "line" /\ s3.pc = "stop") ~> (part = "line" /\ Line!Returned)

\* A wanted file the grammar can name, and which no Hold is about, is in the library in
\* the end and its Want is satisfied.
WantedArrives == (part = "grammar" /\ Nameable) ~> (part = "grammar" /\ want = "Satisfied")

\* An approved Hold gets its Job and its file is there in the end.
ApprovedArrives ==
    \A k \in {1, 2} : (part = "grammar" /\ IsApproved(k)) ~> (part = "grammar" /\ Delivered(k))

\* What an operator or a worker keeps doing gets done: files install, encodes and
\* applies converge, repairs end the freeze, a repeated import or watch completes,
\* rejections land and present Titles settle, a lost proof is recovered, the
\* progress line returns, and wanted and approved files arrive.
CommandsComplete ==
    /\ EverythingInstalls /\ EncodeConverges /\ RepairEndsFreeze /\ RetryCompletes
    /\ RejectionsLand /\ PresentSettles /\ ApplyConverges
    /\ WatchCompletes /\ ProofRecovered /\ StopReturns
    /\ WantedArrives /\ ApprovedArrives

=============================================================================
