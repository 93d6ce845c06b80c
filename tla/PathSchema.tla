----------------------------- MODULE PathSchema -----------------------------
(***************************************************************************)
(* The grammar of library paths (core/pathschema.rs) and the path-derived  *)
(* identities (core/title_id.rs).  A text is a sequence of symbols: a      *)
(* symbol is a maximal run of characters of one class, or one separator.   *)
(* Two words never touch without a separator between them; a year may.     *)
(* Letter case is left out: every comparison the grammar makes ignores it. *)
(* A path is a sequence of components, each of them a text.                *)
(***************************************************************************)
EXTENDS Integers, SequencesExt, FiniteSetsExt

Separators == {".", "-", " "}

\* Digits only.  "150" fits a u8, "300" does not; both are too big for a track.
NumberOf == [s \in {"1", "01", "7", "07", "99", "150", "300"} |->
    CASE s \in {"1", "01"} -> 1 [] s \in {"7", "07"} -> 7 [] s = "99" -> 99
      [] s = "150" -> 150 [] OTHER -> 300]
Numbers == DOMAIN NumberOf

\* A number of at most two digits.
Short == Numbers \ {"150", "300"}

\* The form {n:02} of a number.
Two(n) == CHOOSE s \in {"01", "07", "99"} : NumberOf[s] = n

\* "(1999)": four digits in parentheses.
YearOf == [s \in {"(1999)", "(2013)", "(0012)"} |->
    CASE s = "(1999)" -> 1999 [] s = "(2013)" -> 2013 [] OTHER -> 12]
Years == DOMAIN YearOf

None == -1
U8 == 255

\* "S01E07" and "S01E01-E07".
Tag(s, e, end) == [season |-> s, episode |-> e, end |-> end]
TagOf == [s \in {"S01E01", "S01E07", "S07E01", "S01E01-E07"} |->
    CASE s = "S01E01" -> Tag(1, 1, None) [] s = "S01E07" -> Tag(1, 7, None)
      [] s = "S07E01" -> Tag(7, 1, None) [] OTHER -> Tag(1, 1, 7)]
Tags == DOMAIN TagOf

SceneTags == {"PROPER"}
Markers == {"1080p"}
StopTokens == Markers \cup {"web"}
\* Symbols without a letter or a digit, such as "!!!".
Bare == {"!"}

IsAlphanumeric(s) == s \notin Separators \cup Bare

\* The pieces of t between the separators in seps.
RECURSIVE Parts(_, _)
Parts(t, seps) ==
    LET cuts == {i \in DOMAIN t : t[i] \in seps} IN
    IF cuts = {} THEN <<t>>
    ELSE <<SubSeq(t, 1, Min(cuts) - 1)>> \o Parts(SubSeq(t, Min(cuts) + 1, Len(t)), seps)

NonEmpty(t) == t # <<>>

Join(tokens) ==
    FlattenSeq([k \in DOMAIN tokens |-> (IF k = 1 THEN <<>> ELSE <<".">>) \o tokens[k]])

RECURSIVE Trim(_, _)
Trim(t, seps) ==
    IF t = <<>> THEN t
    ELSE IF Head(t) \in seps THEN Trim(Tail(t), seps)
    ELSE IF Last(t) \in seps THEN Trim(Front(t), seps) ELSE t

RECURSIVE TrimEnd(_, _)
TrimEnd(t, seps) == IF t # <<>> /\ Last(t) \in seps THEN TrimEnd(Front(t), seps) ELSE t

\* " - " becomes " ", leftmost first and without overlap.
RECURSIVE WithoutDashes(_)
WithoutDashes(t) ==
    IF Len(t) < 3 THEN t
    ELSE IF SubSeq(t, 1, 3) = <<" ", "-", " ">> THEN <<" ">> \o WithoutDashes(SubSeq(t, 4, Len(t)))
    ELSE <<Head(t)>> \o WithoutDashes(Tail(t))

\* dotted: spaces become dots, runs of dots collapse, dots at the ends go.
Dotted(t) == Join(SelectSeq(Parts(WithoutDashes(t), {".", " "}), NonEmpty))

IsSceneTag(part) == Len(part) = 1 /\ part[1] \in SceneTags
HasSceneTag(parts) == \E k \in DOMAIN parts : IsSceneTag(parts[k])

\* strip_scene_tags: each surviving piece keeps the separator in front of it.
Surviving(parts, seps, kept) ==
    FlattenSeq([k \in DOMAIN parts |->
        IF k \notin kept THEN <<>>
        ELSE IF \A m \in kept : k <= m THEN parts[k] ELSE <<seps[k - 1]>> \o parts[k]])

StripParts(parts, seps) == Surviving(parts, seps, {k \in DOMAIN parts : ~IsSceneTag(parts[k])})

StripSceneTags(t) ==
    StripParts(Parts(t, {".", "-"}), SelectSeq(t, LAMBDA s : s \in {".", "-"}))

\* strip_trailing_year.
WithoutYear(trimmed) ==
    IF trimmed = <<>> THEN trimmed
    ELSE IF Last(trimmed) \in Years THEN TrimEnd(Front(trimmed), {".", " "}) ELSE trimmed

StripTrailingYear(t) == WithoutYear(TrimEnd(t, {" "}))

\* title_key: letters and digits only.
TitleKey(t) == SelectSeq(t, IsAlphanumeric)

(***************************************************************************)
(* Placements.  One record for the three kinds: title is the movie, the    *)
(* show or the album; name is the episode's or the track's title, empty    *)
(* when there is none.                                                     *)
(***************************************************************************)
Movie(title, year, ext) ==
    [kind |-> "movie", artist |-> <<>>, title |-> title, year |-> year, season |-> None,
     episode |-> None, end |-> None, disc |-> None, track |-> None, name |-> <<>>, ext |-> ext]

Episode(title, year, tag, name, ext) ==
    [Movie(title, year, ext) EXCEPT !.kind = "series", !.season = tag.season,
        !.episode = tag.episode, !.end = tag.end, !.name = name]

Track(artist, title, year, disc, track, name, ext) ==
    [Movie(title, year, ext) EXCEPT !.kind = "album", !.artist = artist, !.disc = disc,
        !.track = track, !.name = name]

\* file_key.
FileKey(p) ==
    CASE p.kind = "movie" -> <<"whole">>
      [] p.kind = "series" -> <<"episode", p.season, p.episode>>
      [] p.kind = "album" /\ p.track # None ->
            <<"track", IF p.disc = None THEN 1 ELSE p.disc, p.track>>
      [] OTHER -> <<"whole">>

\* movie_key, series_key and album_key: an album has no year.
KeyTitleId(p) ==
    IF p.kind = "album"
    THEN [kind |-> "album", key |-> <<TitleKey(p.artist), TitleKey(StripTrailingYear(p.title))>>, year |-> 0]
    ELSE [kind |-> p.kind, key |-> <<TitleKey(p.title)>>, year |-> p.year]

\* is_key_id: no segment may be empty.
IsKeyId(id) == \A k \in DOMAIN id.key : id.key[k] # <<>>

\* strip_placement.
StripPlacement(p) ==
    [p EXCEPT !.artist = StripSceneTags(@), !.title = StripSceneTags(@), !.name = StripSceneTags(@)]

\* normalize_placement.
NormalizePlacement(p) ==
    StripPlacement([p EXCEPT !.artist = Dotted(@), !.name = Dotted(@),
        !.title = Dotted(IF p.kind = "album" THEN StripTrailingYear(@) ELSE @)])

(***************************************************************************)
(* Rendering.                                                              *)
(***************************************************************************)
Ok(v) == [err |-> "ok", val |-> v]
Err(e) == [err |-> e, val |-> <<>>]
IsOk(r) == r.err = "ok"

\* validate_display_token.
ValidToken(t) ==
    /\ t # <<>>
    /\ \A i \in DOMAIN t : t[i] # " "
    /\ t \notin {<<".">>, <<".", ".">>}
    /\ ~HasSceneTag(Parts(t, {".", "-"}))

ValidYear(y) == y \in 1000..9999

\* validate_extension: letters and digits.
ValidExtension(e) == IsAlphanumeric(e) /\ e \notin Years \cup {"S01E01-E07"}

YearText(y) == CHOOSE s \in Years : YearOf[s] = y
TagText(p) == CHOOSE s \in Tags : TagOf[s] = Tag(p.season, p.episode, p.end)

\* The folder of a disc.
DiscFolder(disc) == IF disc = None THEN <<>> ELSE <<<<"Disc", ".", Two(disc)>>>>

\* render_placement.
RenderPlacement(p) ==
    LET folder == p.title \o <<".", YearText(p.year)>>
        ranged(n) == n = None \/ n \in 1..99
        titled(t) == IF t = <<>> THEN <<>> ELSE <<".">> \o t
        file(stem) == stem \o <<".", p.ext>>
    IN  IF ~ValidToken(p.title) \/ ~ValidYear(p.year) \/ ~ValidExtension(p.ext) THEN Err("invalid")
        ELSE CASE p.kind = "movie" -> Ok(<<<<"movies">>, folder, file(folder)>>)
               [] p.kind = "series" ->
                    IF p.season > 99 \/ p.episode > 999 \/ p.end > 999 THEN Err("range")
                    ELSE IF p.name # <<>> /\ ~ValidToken(p.name) THEN Err("invalid")
                    ELSE Ok(<<<<"series">>, folder, <<"Season", ".", Two(p.season)>>,
                              file(folder \o <<".", TagText(p)>> \o titled(p.name))>>)
               [] OTHER ->
                    IF ~ValidToken(p.artist) \/ ~ValidToken(p.name) THEN Err("invalid")
                    ELSE IF ~ranged(p.track) \/ ~ranged(p.disc) THEN Err("range")
                    ELSE Ok(<<<<"music">>, p.artist, folder>>
                            \o DiscFolder(p.disc)
                            \o <<file(folder \o (IF p.track = None THEN <<>> ELSE <<".", Two(p.track)>>)
                                      \o titled(p.name))>>)

\* render: the TitleId only has to agree on the kind.
Render(kind, p) == IF kind # p.kind THEN Err("kind") ELSE RenderPlacement(p)

(***************************************************************************)
(* Parsing.                                                                *)
(***************************************************************************)
\* kind_dir.
KindDir(c) ==
    CASE c = <<"movies">> -> "movie" [] c \in {<<"series">>, <<"tv">>} -> "series"
      [] c = <<"music">> -> "album" [] OTHER -> "none"

\* classify_reject_bin, needs-split first.
ClassifyRejectBin(path) ==
    LET in(bin) == \E k \in 1..(Len(path) - 1) :
            path[k] \in {<<"_ops">>, <<"_incoming">>} /\ path[k + 1] = <<bin>>
    IN  CASE in("needs-split") -> "needs-split" [] in("needs-year") -> "needs-year" [] OTHER -> "none"

\* split_stem_ext, at the last dot; the stem is dotted.
StemExt(stem, ext) ==
    IF stem = <<>> \/ Len(ext) # 1 THEN Err("invalid")
    ELSE IF ~ValidExtension(ext[1]) THEN Err("invalid")
    ELSE Ok([stem |-> Dotted(stem), ext |-> ext[1]])

SplitStemExt(file) ==
    LET dots == {i \in DOMAIN file : file[i] = "."} IN
    IF dots = {} THEN Err("invalid")
    ELSE StemExt(SubSeq(file, 1, Max(dots) - 1), SubSeq(file, Max(dots) + 1, Len(file)))

\* split_title_year of a dotted folder: the year is required.
TitleYear(title, year) ==
    IF ~ValidYear(year) \/ title = <<>> THEN Err("invalid") ELSE Ok([title |-> title, year |-> year])

SplitTitleYear(folder) ==
    IF folder = <<>> THEN Err("needs-year")
    ELSE IF Last(folder) \notin Years THEN Err("needs-year")
    ELSE TitleYear(WithoutYear(folder), YearOf[Last(folder)])

\* episode_tag: the first tag anywhere in the stem.
EpisodeTags(stem) == {i \in DOMAIN stem : stem[i] \in Tags}

\* season_dir and disc_dir, of a dotted component.
SeasonOf(d) ==
    IF Len(d) # 3 THEN None
    ELSE IF SubSeq(d, 1, 2) = <<"Season", ".">> /\ d[3] \in Short THEN NumberOf[d[3]] ELSE None

SeasonDir(c) == SeasonOf(Dotted(c))

DiscOf(d) ==
    CASE Len(d) = 3 /\ d[1] \in {"Disc", "CD"} /\ d[2] = "." /\ d[3] \in Short -> NumberOf[d[3]]
      [] Len(d) = 2 /\ d[1] = "CD" /\ d[2] \in Short -> NumberOf[d[2]]
      [] OTHER -> None

DiscDir(c) == DiscOf(Dotted(c))

\* is_release_marker and is_stop_token, of a token without its outer hyphens.
IsOneOf(token, set) == Len(token) = 1 /\ token[1] \in set
Among(tokens, set) == {k \in DOMAIN tokens : IsOneOf(Trim(tokens[k], {"-"}), set)}

\* cut_at_stop_token: cut at the first release word, only if there is a marker.
CutTokens(tokens, stops) ==
    Join(IF Among(tokens, Markers) = {} THEN tokens ELSE SubSeq(tokens, 1, Min(stops) - 1))

StopsOf(tokens) == CutTokens(tokens, Among(tokens, StopTokens))

CutAtStopToken(after) == StopsOf(SelectSeq(Parts(Trim(after, Separators), {"."}), NonEmpty))

\* starts_with_ci, then the rest.
StartsWith(t, prefix) == IsPrefix(prefix, t)
After(t, prefix) == SubSeq(t, Len(prefix) + 1, Len(t))

Prefix(folder) == folder.title \o <<".", YearText(folder.year)>>

\* parse_movie.
MovieOf(folder, file) ==
    IF ~IsOk(folder) THEN folder
    ELSE IF ~IsOk(file) THEN file
    ELSE IF /\ \/ file.val.stem = Prefix(folder.val)
               \/ StartsWith(file.val.stem, Prefix(folder.val) \o <<".">>)
            /\ ValidToken(folder.val.title)
    THEN Ok(Movie(folder.val.title, folder.val.year, file.val.ext))
    ELSE Err("invalid")

ParseMovie(comps) ==
    IF Len(comps) # 2 THEN Err("invalid")
    ELSE MovieOf(SplitTitleYear(Dotted(comps[1])), SplitStemExt(comps[2]))

\* parse_episode: the tag at position i of the stem.
EpisodeAt(folder, season, file, i) ==
    IF season \notin {None, TagOf[file.stem[i]].season} THEN Err("invalid")
    ELSE Ok(Episode(folder.title, folder.year, TagOf[file.stem[i]],
                    CutAtStopToken(SubSeq(file.stem, i + 1, Len(file.stem))), file.ext))

EpisodeOf(folder, season, file) ==
    IF ~IsOk(folder) THEN folder
    ELSE IF ~ValidToken(folder.val.title) THEN Err("invalid")
    ELSE IF ~IsOk(file) THEN file
    ELSE IF EpisodeTags(file.val.stem) = {} THEN Err("invalid")
    ELSE EpisodeAt(folder.val, season, file.val, Min(EpisodeTags(file.val.stem)))

ParseEpisode(comps) ==
    IF Len(comps) = 2 \/ (Len(comps) = 3 /\ SeasonDir(comps[2]) # None)
    THEN EpisodeOf(SplitTitleYear(Dotted(comps[1])),
                   IF Len(comps) = 3 THEN SeasonDir(comps[2]) ELSE None, SplitStemExt(Last(comps)))
    ELSE Err("invalid")

\* parse_track: the number, if there is one, and the title.
NamedTrack(artist, folder, disc, n, title, cut, ext) ==
    IF n > U8 \/ ~ValidToken(IF cut = <<>> THEN title ELSE cut) THEN Err("invalid")
    ELSE IF n # None /\ n \notin 1..99 THEN Err("range")
    ELSE Ok(Track(artist, folder.title, folder.year, disc, n, IF cut = <<>> THEN title ELSE cut, ext))

TitledTrack(artist, folder, disc, n, title, ext) ==
    NamedTrack(artist, folder, disc, n, title, CutAtStopToken(title), ext)

NumberedTrack(artist, folder, disc, rest, ext) ==
    LET numbered == Len(rest) > 1 /\ rest[1] \in Numbers /\ rest[2] = "." IN
    TitledTrack(artist, folder, disc, IF numbered THEN NumberOf[rest[1]] ELSE None,
                IF numbered THEN SubSeq(rest, 3, Len(rest)) ELSE rest, ext)

\* What follows the album in the name of a track.
Rest(stem, prefix) == IF StartsWith(stem, prefix) THEN After(stem, prefix) ELSE stem

TrackOf(artist, folder, disc, file) ==
    IF ~ValidToken(artist) THEN Err("invalid")
    ELSE IF ~IsOk(folder) THEN folder
    ELSE IF ~ValidToken(folder.val.title) THEN Err("invalid")
    ELSE IF ~IsOk(file) THEN file
    ELSE NumberedTrack(artist, folder.val, disc,
            Rest(file.val.stem, Prefix(folder.val) \o <<".">>), file.val.ext)

ParseTrack(comps) ==
    IF Len(comps) = 3 \/ (Len(comps) = 4 /\ DiscDir(comps[3]) # None)
    THEN TrackOf(Dotted(comps[1]), SplitTitleYear(Dotted(comps[2])),
                 IF Len(comps) = 4 THEN DiscDir(comps[3]) ELSE None, SplitStemExt(Last(comps)))
    ELSE Err("invalid")

\* What is in front of the last dot, or all of it.
Stem(file) ==
    LET dots == {i \in DOMAIN file : file[i] = "."}
    IN  IF dots = {} THEN file ELSE SubSeq(file, 1, Max(dots) - 1)

\* infer_kind: a tag or a season folder, else the depth.
InferKind(comps) ==
    IF comps = <<>> THEN "none"
    ELSE IF \/ EpisodeTags(Stem(Last(comps))) # {}
            \/ \E k \in DOMAIN comps : SeasonDir(comps[k]) # None THEN "series"
    ELSE CASE Len(comps) = 2 -> "movie" [] Len(comps) \in {3, 4} -> "album" [] OTHER -> "none"

\* The kind of a path and what is left of it: "library" wants the folder of a
\* kind, a kind or "any" is the hint of the allowlisted root.
KindAndRest(hint, path) ==
    LET first == IF path = <<>> THEN "none" ELSE KindDir(path[1])
        named == Len(path) > 2 /\ first # "none" /\ hint \in {first, "any"}
    IN  IF hint = "library" \/ named THEN <<first, IF path = <<>> THEN path ELSE Tail(path)>>
        ELSE <<IF hint = "any" THEN InferKind(path) ELSE hint, path>>

\* parse_inner.
Identified(placed) ==
    IF ~IsOk(placed) THEN placed
    ELSE IF ~IsKeyId(KeyTitleId(placed.val)) THEN Err("invalid")
    ELSE Ok([id |-> KeyTitleId(placed.val), p |-> placed.val])

ParseKind(kind, comps) ==
    IF \E k \in DOMAIN comps : HasSceneTag(Parts(comps[k], Separators)) THEN Err("scene")
    ELSE Identified(CASE kind = "movie" -> ParseMovie(comps)
                      [] kind = "series" -> ParseEpisode(comps)
                      [] OTHER -> ParseTrack(comps))

ParseNamed(named) == IF named[1] = "none" THEN Err("invalid") ELSE ParseKind(named[1], named[2])

ParseInner(hint, path) ==
    IF ClassifyRejectBin(path) # "none" THEN Err(ClassifyRejectBin(path))
    ELSE IF path = <<>> THEN Err("invalid")
    ELSE IF path[1][1] \in {"_ops", "_incoming"} THEN Err("invalid")
    ELSE ParseNamed(KindAndRest(hint, path))

\* parse_placement and parse_remote.
ParsePlacement(path) == ParseInner("library", path)
ParseRemote(kind, path) == ParseInner(kind, path)

\* preflight_approve_placement: the artist and an episode's title are stripped,
\* a leftover in any other token refuses.
Rendered(p, r) == IF IsOk(r) THEN Ok(p) ELSE r

Preflight(kind, p) ==
    LET tokens == {p.title} \cup (IF p.kind = "album" THEN {p.name} ELSE {}) IN
    IF \E t \in tokens : \E i \in DOMAIN t : t[i] = " " THEN Err("space")
    ELSE IF \E t \in tokens : StripSceneTags(t) # t THEN Err("scene")
    ELSE Rendered(StripPlacement(p), Render(kind, StripPlacement(p)))

\* validate_placement, given what the path parses to: the destination of a Job
\* or a file of a Title.
ValidDestination(id, path, parsed) ==
    /\ IsOk(parsed)
    /\ parsed.val.id = id
    /\ Render(id.kind, parsed.val.p) = Ok(path)

-----------------------------------------------------------------------------
(***************************************************************************)
(* What the grammar of paths decides: which file of which title a listed   *)
(* file or an approved Hold becomes, and whether it is already there.  The *)
(* inventory classifies a listed file with parse_remote, the grabber's     *)
(* queue gives a Hold its placement, an operator approves it, the          *)
(* controllers plan Jobs from both (api/controllers.rs), the pull worker   *)
(* installs, and what it installed is found again by parsing its path.     *)
(* The interleavings of a pass with other writers are JobControl's; here   *)
(* a pass is one step, and it ends at the first error.                     *)
(*                                                                         *)
(* What a path parses to depends on nothing but the path, so each record   *)
(* carries the result beside the path instead of parsing at every use.     *)
(***************************************************************************)

CONSTANTS
    Cases       \* [items, listed]: two blocked queue items, with the names as the
                \* grabber writes them, and a listed file [hint, path]

VARIABLES
    holds,      \* sequence of Holds, in the order of their names
    remote,     \* the wanted listed file
    want,       \* phase of the Want of that file's title
    jobs,       \* set of [name, id, dest, parsed, from, phase]
    library,    \* observed files of the Titles: set of [id, path, parsed]
    stuck       \* the last pass ended with an error

vars == <<holds, remote, want, jobs, library, stuck>>

ParseRendered(r) == IF IsOk(r) THEN ParsePlacement(r.val) ELSE r

\* placement_from_queue_item: names are dotted, and a first disc is none.
FromQueue(i) ==
    [i EXCEPT !.artist = Dotted(@), !.title = Dotted(@), !.name = Dotted(@),
              !.disc = IF @ > 1 THEN @ ELSE None]

\* An item without a title or an artist, or a track without a title, has no placement.
Placed(p) == p.title # <<>> /\ (p.kind = "album" => p.artist # <<>> /\ p.name # <<>>)

\* A Hold: its placement, what the path of that placement parses to, what the
\* preflight makes of it, what the library planner makes of it (sync/plan.rs),
\* and the path and the parse of the destination.
Target(h, dest) == [h EXCEPT !.dest = dest, !.parsed = ParseRendered(dest)]
Checked(h) == Target(h, IF IsOk(h.pre) THEN Render(h.p.kind, h.pre.val) ELSE h.pre)
HoldOf(p) ==
    Checked([p |-> p, own |-> ParseRendered(Render(p.kind, p)), pre |-> Preflight(p.kind, p),
             norm |-> ParseRendered(RenderPlacement(NormalizePlacement(p))), dest |-> Err("none"), parsed |-> Err("none"), decision |-> "pending"])

\* A listed file: its RemoteFile row, the controllers' own parse of it, and
\* the path and the parse of its destination.
Planned(r) == Target(r, IF IsOk(r.again) THEN Render(r.row.val.id.kind, r.again.val.p) ELSE r.again)
Reparsed(r) ==
    Planned([r EXCEPT !.again = IF IsOk(r.row) THEN ParseRemote(r.row.val.id.kind, r.path) ELSE r.row])
RemoteOf(l) ==
    Reparsed([path |-> l.path, row |-> ParseRemote(l.hint, l.path), again |-> Err("none"),
              dest |-> Err("none"), parsed |-> Err("none")])

FlowInit ==
    /\ \E c \in Cases :
           /\ holds = [k \in DOMAIN c.items |-> HoldOf(FromQueue(c.items[k]))]
           /\ remote = RemoteOf(c.listed)
    /\ want = "Open"
    /\ jobs = {} /\ library = {} /\ stuck = FALSE

\* has_placement.
Has(id, key) ==
    \E f \in library : FileKey(f.parsed.val.p) = key /\ id \in {f.id, f.parsed.val.id}

\* held_remote: some Hold, decided or not, is about the same file.
HeldRemote(r) ==
    \E k \in DOMAIN holds :
        /\ Placed(holds[k].p)
        /\ IF IsOk(holds[k].own) /\ IsOk(r.again)
           THEN /\ holds[k].own.val.id = r.row.val.id
                /\ FileKey(r.again.val.p) = FileKey(holds[k].p)
           ELSE FALSE

\* job_name.
JobName(id, p) == <<id, FileKey(p)>>

\* The admission of a decision: admission.rs, validate_patch.
Approve(k) ==
    /\ holds[k].decision = "pending"
    /\ Placed(holds[k].p) /\ IsOk(holds[k].pre)
    /\ holds' = [holds EXCEPT ![k].decision = "approved"]
    /\ UNCHANGED <<remote, want, jobs, library, stuck>>

\* The outcome of one candidate of a pass: a Job, nothing, or an error.
Nothing == [what |-> "nothing"]
Error == [what |-> "error"]
Job(id, p, c, from) ==
    [what |-> "job", job |-> [name |-> JobName(id, p), id |-> id, dest |-> c.dest.val,
                              parsed |-> c.parsed, from |-> from, phase |-> "Pending"]]

\* create_pull_job, with authorization_refusal and the Job's own validation.
Created(id, p, c, from, js) ==
    IF ~IsOk(c.dest) THEN Error
    ELSE IF \E j \in js : j.name = JobName(id, p) THEN Nothing
    ELSE IF ~IsOk(c.parsed) THEN Nothing
    ELSE IF Has(id, FileKey(c.parsed.val.p)) THEN Nothing
    ELSE IF ~ValidDestination(id, c.dest.val, c.parsed) THEN Error
    ELSE Job(id, p, c, from)

\* The listed file of a Want.
Wanted(js) ==
    IF ~IsOk(remote.again) THEN Nothing
    ELSE IF Has(remote.row.val.id, FileKey(remote.again.val.p)) \/ HeldRemote(remote) THEN Nothing
    ELSE Created(remote.row.val.id, remote.again.val.p, remote, 0, js)

\* An approved Hold.
Held(h, from, js) ==
    IF h.decision # "approved" THEN Nothing
    ELSE IF ~IsOk(h.parsed) THEN Error
    ELSE IF Has(h.parsed.val.id, FileKey(h.pre.val)) THEN Nothing
    ELSE Created(h.parsed.val.id, h.pre.val, h, from, js)

\* The Want's phase: every listed file of its title is there.
Phase ==
    IF ~IsOk(remote.again) THEN "Open"
    ELSE IF Has(remote.row.val.id, FileKey(remote.again.val.p)) THEN "Satisfied" ELSE "Open"

\* One pass of the controllers: the Want first, then the Holds, until one errs.
Consider(acc, c) ==
    CASE acc.err \/ c.what = "nothing" -> acc
      [] c.what = "error" -> [acc EXCEPT !.err = TRUE]
      [] OTHER -> [acc EXCEPT !.jobs = @ \cup {c.job}]

Pass ==
    /\ \E done \in {FoldLeft(LAMBDA acc, k :
                               Consider(acc, IF k = 0 THEN Wanted(acc.jobs) ELSE Held(holds[k], k, acc.jobs)),
                            [jobs |-> jobs, err |-> FALSE], [k \in 1..(Len(holds) + 1) |-> k - 1])} :
           jobs' = done.jobs /\ stuck' = done.err
    /\ want' = IF Wanted(jobs).what = "error" THEN want ELSE Phase
    /\ UNCHANGED <<holds, remote, library>>
    /\ <<jobs', stuck', want'>> # <<jobs, stuck, want>>

\* Binding looks again whether the placement is there: the Job is refused or runs.
Bind(j) ==
    /\ j.phase = "Pending"
    /\ \A o \in jobs : o.phase # "Running"
    /\ jobs' = (jobs \ {j}) \cup
        {[j EXCEPT !.phase = IF Has(j.id, FileKey(j.parsed.val.p)) THEN "Refused" ELSE "Running"]}
    /\ UNCHANGED <<holds, remote, want, library, stuck>>

\* The install gate parses the destination once more (check_title), and the
\* proof goes into the Title.
Install(j) ==
    /\ j.phase = "Running"
    /\ IF j.parsed.val.id = j.id
       THEN /\ library' = library \cup {[id |-> j.id, path |-> j.dest, parsed |-> j.parsed]}
            /\ jobs' = (jobs \ {j}) \cup {[j EXCEPT !.phase = "Installed"]}
       ELSE /\ jobs' = (jobs \ {j}) \cup {[j EXCEPT !.phase = "Failed"]}
            /\ UNCHANGED library
    /\ UNCHANGED <<holds, remote, want, stuck>>

\* An operator deletes a finished Job.
DeleteJob(j) ==
    /\ j.phase \in {"Installed", "Refused", "Failed"}
    /\ jobs' = jobs \ {j}
    /\ UNCHANGED <<holds, remote, want, library, stuck>>

FlowNext ==
    \/ \E k \in DOMAIN holds : Approve(k)
    \/ Pass
    \/ \E j \in jobs : Bind(j)
    \/ \E j \in jobs : Install(j)
    \/ \E j \in jobs : DeleteJob(j)

\* The controllers' loop and the worker go on; no operator has to act.
FlowFairness ==
    /\ WF_vars(Pass)
    /\ WF_vars(\E j \in jobs : Bind(j))
    /\ WF_vars(\E j \in jobs : Install(j))

FlowSpec == FlowInit /\ [][FlowNext]_vars /\ FlowFairness
-----------------------------------------------------------------------------
\* Every file in the library is at the one path its own title and numbers
\* render to, so a scan of the disk finds exactly what was installed: no space,
\* no scene tag, no second spelling.
LibraryCanonical ==
    \A f \in library :
        /\ ValidDestination(f.id, f.path, f.parsed)
        /\ \A k \in DOMAIN f.path : \A i \in DOMAIN f.path[k] :
                f.path[k][i] \notin {" "} \cup SceneTags

\* A title never has two files for one episode or one track, in whatever order
\* Holds are approved and Jobs planned, run, deleted and planned again.
OneFilePerKey ==
    \A f, g \in library :
        f.id = g.id /\ FileKey(f.parsed.val.p) = FileKey(g.parsed.val.p) => f = g

\* What a listed file is planned as, is what it is found as when installed:
\* title, season and episode, disc and track.
ListedKeepsItsKey ==
    \A j \in jobs : j.from = 0 =>
        j.parsed.val.id = remote.row.val.id /\ FileKey(j.parsed.val.p) = j.name[2]

\* The controllers (preflight) and the library planner (normalize_placement)
\* prepare the same placement in different ways: where both would pull it, it
\* is the same file of the same title.  The paths may differ: only the planner
\* drops a trailing year from the title of an album.
PlannersAgree ==
    \A k \in DOMAIN holds : IF ~IsOk(holds[k].parsed) \/ ~IsOk(holds[k].norm) THEN TRUE
        ELSE /\ holds[k].parsed.val.id = holds[k].norm.val.id
             /\ FileKey(holds[k].parsed.val.p) = FileKey(holds[k].norm.val.p)

\* What liveness is about: a listed file that the grammar can name and no Hold
\* claims, an approved Hold, and the arrival of its file.
Nameable == IsOk(remote.again) /\ ~HeldRemote(remote)
IsApproved(k) == k \in DOMAIN holds /\ holds[k].decision = "approved"
Delivered(k) == k \in DOMAIN holds /\ IsOk(holds[k].parsed) /\ \E f \in library : f.path = holds[k].dest.val
=============================================================================
