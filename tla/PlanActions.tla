---------------------------- MODULE PlanActions ----------------------------
(***************************************************************************)
(* The planner of crates/sync/src/plan.rs: plan_actions as an operator.    *)
(* Identity is per file: a file is one episode, track or movie of a title. *)
(* A remote entry is [ref, len, media, file]; file is a member of Files or *)
(* the reason the path grammar refuses it.                                 *)
(***************************************************************************)
EXTENDS Naturals, Sequences, SequencesExt, FiniteSets, FiniteSetsExt

CONSTANTS
    Files,       \* file identities (TitleId, FileKey)
    TitleOf,     \* [Files -> title]
    KindOf       \* [title -> {"album", "movie", "series"}]

Refusals == {"unparseable", "needs-year", "needs-split"}
Titles == {TitleOf[f] : f \in Files}

Skip(t, why) == [type |-> "skip", title |-> t, reason |-> why]
Copy(c) == [type |-> "copy", title |-> c.title, file |-> c.file, ref |-> c.ref, len |-> c.len]
Review(e) == [type |-> "review", ref |-> e.ref, reason |-> e.file]

\* What the loop over the listing and the one over the approved holds build.
NoPass == [never |-> <<>>, dups |-> <<>>, reviews |-> <<>>, cands |-> <<>>,
           planned |-> {}, skipped |-> {}]

\* Already present: on the disk, or proved by a title index row with a path.
Installed(req) == req.onDisk \cup req.indexed

Candidate(f, ref, len, i, wanted) ==
    [file |-> f, title |-> TitleOf[f], ref |-> ref, len |-> len, at |-> i, wanted |-> wanted]

Offered(req, pass, f) ==
    IF f \in Installed(req)
    THEN IF f \in pass.skipped
         THEN [new |-> FALSE,
               pass |-> [pass EXCEPT !.dups = Append(@, Skip(TitleOf[f], "duplicate_title"))]]
         ELSE [new |-> FALSE,
               pass |-> [pass EXCEPT !.never = Append(@, Skip(TitleOf[f], "upgrade_never")),
                                     !.skipped = @ \cup {f}]]
    ELSE IF f \in pass.planned
         THEN [new |-> FALSE,
               pass |-> [pass EXCEPT !.dups = Append(@, Skip(TitleOf[f], "duplicate_title"))]]
         ELSE [new |-> TRUE, pass |-> [pass EXCEPT !.planned = @ \cup {f}]]

ListingStep(req, pass, i) ==
    LET e == req.listing[i] IN
    CASE e.len = 0 \/ ~e.media \/ e.ref \in req.held -> pass
      [] e.file \in Refusals -> [pass EXCEPT !.reviews = Append(@, Review(e))]
      [] OTHER ->
           LET o == Offered(req, pass, e.file) IN
           IF o.new
           THEN [o.pass EXCEPT !.cands =
                   Append(@, Candidate(e.file, e.ref, e.len, i, TitleOf[e.file] \in req.wants))]
           ELSE o.pass

\* The length of an approved remote: the listing's, else what the hold said.
ApprovedLen(req, h) ==
    LET rows == {i \in DOMAIN req.listing : req.listing[i].ref = h.ref}
    IN  IF rows = {} THEN h.size ELSE req.listing[Min(rows)].len

\* for (offset, item) in req.approved. A hold without a remote or a placement,
\* or with one the grammar refuses, is passed over.
ApprovedStep(req, pass, j) ==
    LET h == req.approved[j] IN
    IF ~h.placed THEN pass
    ELSE LET o == Offered(req, pass, h.file)
             len == ApprovedLen(req, h)
         IN  IF o.new /\ len # 0
             THEN [o.pass EXCEPT !.cands =
                     Append(@, Candidate(h.file, h.ref, len, Len(req.listing) + j,
                                         {TitleOf[h.file], h.key} \cap req.wants # {}))]
             ELSE o.pass

Pass(req) ==
    LET listed == FoldLeftDomain(LAMBDA p, i : ListingStep(req, p, i), NoPass, req.listing)
    IN  FoldLeftDomain(LAMBDA p, j : ApprovedStep(req, p, j), listed, req.approved)

KindRank == [album |-> 0, movie |-> 1, series |-> 2]

\* candidates.sort_by_key: music first, then wanted ones, then listing order.
Before(c, d) ==
    LET key(x) == <<KindRank[KindOf[x.title]], IF x.wanted THEN 0 ELSE 1, x.at>>
        k == key(c)
        l == key(d)
    IN  \/ k[1] < l[1]
        \/ k[1] = l[1] /\ k[2] < l[2]
        \/ k[1] = l[1] /\ k[2] = l[2] /\ k[3] <= l[3]

Sorted(cands) == SetToSortSeq(Range(cands), Before)

\* Mutant: a smaller file may overtake one that met a limit.
SpendForgetsBlock(req, acc, c) ==
    IF c.len > acc.copy \/ c.len > acc.free \/ acc.free - c.len < req.minFree
    THEN [acc EXCEPT !.acts = Append(@, Skip(c.title, "watermark"))]
    ELSE [acc EXCEPT !.copy = @ - c.len, !.free = @ - c.len, !.acts = Append(@, Copy(c))]

Spend(req, acc, c) ==
    LET kind == KindOf[c.title]
        limit == CASE acc.why[kind] # "none" -> acc.why[kind]
                   [] c.len > acc.copy -> "max_copy"
                   [] c.len > acc.free \/ acc.free - c.len < req.minFree -> "watermark"
                   [] OTHER -> "none"
    IN  IF limit # "none"
        THEN [acc EXCEPT !.acts = Append(@, Skip(c.title, limit)), !.why[kind] = limit]
        ELSE [acc EXCEPT !.copy = @ - c.len, !.free = @ - c.len, !.acts = Append(@, Copy(c))]

\* Mutant: a file on the disk is enough.
UnmonitorWithoutRow(req) ==
    IF ~req.servarr THEN {}
    ELSE {t \in {TitleOf[f] : f \in req.onDisk} \cap req.missing : KindOf[t] # "series"}

Unmonitored(req) ==
    IF ~req.servarr THEN {}
    ELSE {t \in {TitleOf[f] : f \in req.indexed} \cap {TitleOf[f] : f \in req.onDisk}
                  \cap req.missing : KindOf[t] # "series"}

Plan(req) ==
    LET pass == Pass(req)
        cands == Sorted(pass.cands)
        spent == FoldLeft(LAMBDA acc, c : Spend(req, acc, c),
                          [copy |-> req.maxCopy, free |-> req.free, acts |-> <<>>,
                           why |-> [k \in DOMAIN KindRank |-> "none"]], cands)
        files == IF req.lock THEN [i \in DOMAIN cands |-> Skip(cands[i].title, "lock")]
                 ELSE spent.acts
        stop == SetToSeq({[type |-> "unmonitor", title |-> t] : t \in Unmonitored(req)})
        first == (IF req.frozen THEN <<[type |-> "edge_apply"]>> ELSE <<>>)
              \o (IF req.servarr THEN <<[type |-> "grab_apply"]>> ELSE <<>>)
    IN  first \o files \o pass.never \o pass.dups \o pass.reviews \o stop

---------------------------------------------------------------------------
(* What the caller of plan_actions relies on, of a request and its plan. *)

CopiesAt(acts) == {i \in DOMAIN acts : acts[i].type = "copy"}
Bytes(acts) == FoldLeft(LAMBDA n, a : IF a.type = "copy" THEN n + a.len ELSE n, 0, acts)

\* The copies of one plan, approved holds included, together stay inside
\* max_copy and leave min_free on the disk; a locked library plans none.
BudgetRespected(req, acts) ==
    /\ Bytes(acts) <= req.maxCopy
    /\ Bytes(acts) > 0 => req.free >= Bytes(acts) /\ req.free - Bytes(acts) >= req.minFree
    /\ req.lock => Bytes(acts) = 0

\* One remote per file: however often the listing and the approved holds offer
\* a file, it is copied at most once, never when it is installed, never when
\* its remote sits in the inbox undecided, and never as an empty file.
EachFileOnce(req, acts) ==
    \A i \in CopiesAt(acts) :
        /\ \A j \in CopiesAt(acts) : acts[i].file = acts[j].file => i = j
        /\ acts[i].file \notin req.onDisk \cup req.indexed
        /\ acts[i].len > 0
        /\ \/ acts[i].ref \notin req.held
           \/ \E j \in DOMAIN req.approved : req.approved[j].ref = acts[i].ref

\* Nothing vanishes: each media file of the listing that is not in the inbox
\* gets exactly one action, so an operator sees every file that is not copied.
NothingVanishes(req, acts) ==
    Cardinality({i \in DOMAIN acts : acts[i].type \in {"copy", "skip", "review"}})
          = Cardinality({i \in DOMAIN req.listing :
                req.listing[i].len > 0 /\ req.listing[i].media /\ req.listing[i].ref \notin req.held})
            + Cardinality({j \in DOMAIN req.approved : req.approved[j].placed
                /\ ~ (/\ ApprovedLen(req, req.approved[j]) = 0
                      /\ req.approved[j].file \notin req.onDisk \cup req.indexed
                      /\ ~ \E i \in DOMAIN req.listing :
                             /\ req.listing[i].file = req.approved[j].file
                             /\ req.listing[i].len > 0 /\ req.listing[i].media
                             /\ req.listing[i].ref \notin req.held
                      /\ ~ \E k \in 1 .. (j - 1) : req.approved[k].placed
                             /\ req.approved[k].file = req.approved[j].file)})

\* Order is fair: once a file meets a limit no later file of its kind is
\* copied, so a stream of small files cannot starve a large one, while the
\* other kinds still get what is left; and an album always goes first.
NoOvertaking(req, acts) ==
    \A i \in CopiesAt(acts) : \A j \in 1 .. (i - 1) :
        /\ acts[j].type = "skip" => KindOf[acts[j].title] # KindOf[acts[i].title]
        /\ acts[j].type \in {"skip", "copy"} =>
             KindRank[KindOf[acts[j].title]] <= KindRank[KindOf[acts[i].title]]

\* A grabber is told to stop only for a movie or an album of which the index has a
\* row with a path and the disk holds a file, lock or no lock; of an album these may
\* be two different tracks, since both are looked up by title.
UnmonitorIsProved(req, acts) ==
    \A i \in DOMAIN acts : acts[i].type = "unmonitor" =>
        /\ KindOf[acts[i].title] # "series"
        /\ \E f \in req.indexed : TitleOf[f] = acts[i].title
        /\ \E f \in req.onDisk : TitleOf[f] = acts[i].title

=============================================================================
