---------------------------- MODULE SeedboxWalker ----------------------------
(***************************************************************************)
(* The allowlist of the seedbox daemon and its walker: the roots it is     *)
(* started with, listing them while files come, go and move, and the refs  *)
(* that stand for files afterwards.  A path is a sequence of names; links  *)
(* are fixed, directories may become unreadable or go away.                *)
(***************************************************************************)
EXTENDS Integers, Sequences, SequencesExt, FiniteSets

CONSTANTS
    Dirs,        \* paths of the directories that may exist
    LinkTo,      \* path of a symbolic link -> the canonical path it leads to
    Places,      \* paths where a file may be
    FileIds,     \* the files
    ArgChoices,  \* the sequences of [id, path] the daemon may be started with
    Moving,      \* whether files are renamed
    MaxChanges,  \* bound: changes of the file system
    Absent

VARIABLES
    dir,      \* directory -> "there", "shut" (may be entered, not read) or "gone"
    at,       \* slot -> the file in it, or Absent
    args,     \* the --root arguments not yet added
    roots,    \* sequence of [id, original, canonical]
    daemon,   \* "starting", "serving" or "refused"
    walk,     \* Absent or the listing under way
    listing,  \* Absent or how the last listing ended
    changes

walkerVars == <<dir, at, args, roots, daemon, walk, listing, changes>>

Links == DOMAIN LinkTo
Parent(p) == Front(p)
Under(p, d) == IsPrefix(d, p)

---------------------------------------------------------------------------
(* The file system                                                         *)

\* fs::canonicalize: each link on the way is replaced by what it leads to.
Canonical(p) ==
    LET Step(acc, name) == IF Append(acc, name) \in Links THEN LinkTo[Append(acc, name)] ELSE Append(acc, name)
    IN  FoldLeft(Step, <<>>, p)

Ancestors(p) == {d \in Dirs : IsStrictPrefix(d, p)}
Reached(p) == \A d \in Ancestors(p) : dir[d] # "gone"
IsFile(p) == p \in Places /\ Reached(p) /\ (IF p \in Places THEN at[p] # Absent ELSE FALSE)
IsDir(p) == p \in Dirs /\ Reached(p) /\ (IF p \in Dirs THEN dir[p] # "gone" ELSE FALSE)
Exists(p) == IsFile(p) \/ IsDir(p) \/ (p \in Links /\ Reached(p))
Children(d) == {p \in Dirs \cup Links \cup Places : p # <<>> /\ Exists(p) /\ Parent(p) = d}

\* What a file system is: directories lead to everything, a path names one thing, and the
\* paths of directories and files are canonical.
WalkerAssumption ==
    /\ Dirs \cup Places \cup Links \subseteq Seq(STRING)
    /\ \A p \in Dirs \cup Places \cup Links : \A n \in 0 .. Len(p) - 1 : SubSeq(p, 1, n) \in Dirs
    /\ Dirs \cap Places = {} /\ Dirs \cap Links = {} /\ Places \cap Links = {}
    /\ \A p \in Dirs \cup Places : Canonical(p) = p
    /\ Absent \notin Dirs \cup Places
    /\ ArgChoices \subseteq Seq([id : STRING, path : Seq(STRING)])

---------------------------------------------------------------------------
(* The allowlist                                                           *)

Ref(id, rel) == [root |-> id, rel |-> rel]
Rel(p, d) == SubSeq(p, Len(d) + 1, Len(p))

\* is_torrent_skip, on the absolute path.
IsTorrentSkip(p) == \E i \in 1 .. Len(p) - 1 : p[i] = "torrents" /\ p[i + 1] = "incomplete"

\* Allowlist::add_root: why a root is not taken.
Refused(id, path) ==
    \/ id = "" \/ ~IsDir(Canonical(path))
    \/ \E i \in DOMAIN roots :
           \/ roots[i].id = id
           \/ Under(Canonical(path), roots[i].canonical) \/ Under(roots[i].canonical, Canonical(path))

\* Allowlist::absolute with join_unfollowed: Absent, or a path without links.
Absolute(ref) ==
    LET found == {i \in DOMAIN roots : roots[i].id = ref.root}
        p == IF found = {} THEN <<>> ELSE roots[CHOOSE i \in found : TRUE].canonical \o ref.rel
        base == Len(p) - Len(ref.rel)
    IN  IF /\ found # {}
           /\ \A n \in base + 1 .. Len(p) : Exists(SubSeq(p, 1, n)) /\ SubSeq(p, 1, n) \notin Links
           /\ ~IsTorrentSkip(p)
        THEN p ELSE Absent

\* Allowlist::entry: whether there is a file for the ref.
Entry(ref) == IF Absolute(ref) = Absent THEN FALSE ELSE IsFile(Absolute(ref))

\* Allowlist::resolve and ref_for_canonical.
Resolve(p) ==
    LET inside == \E i \in DOMAIN roots : Under(p, roots[i].canonical) \/ Under(p, roots[i].original)
        hits == {i \in DOMAIN roots : Under(Canonical(p), roots[i].canonical)}
    IN  IF ~inside \/ ~Exists(Canonical(p)) \/ hits = {} \/ IsTorrentSkip(Canonical(p)) THEN Absent
        ELSE LET i == CHOOSE j \in hits : \A k \in hits : j <= k
             IN  Ref(roots[i].id, Rel(Canonical(p), roots[i].canonical))

\* What a listing at this moment should have.
VisibleUnder(i) == {p \in Places : IsFile(p) /\ Under(p, roots[i].canonical) /\ ~IsTorrentSkip(p)}
Visible == UNION {VisibleUnder(i) : i \in DOMAIN roots}

---------------------------------------------------------------------------
(* Starting                                                                *)

WalkerInit ==
    /\ dir = [d \in Dirs |-> "there"]
    /\ at \in {f \in [Places -> FileIds \cup {Absent}] : \A p, q \in Places : p # q /\ f[p] # Absent => f[p] # f[q]}
    /\ args \in ArgChoices
    /\ roots = <<>> /\ daemon = "starting" /\ walk = Absent /\ listing = Absent /\ changes = 0

\* serve_seedbox: the roots in the order of the command line, then listening.
AddRoot ==
    /\ daemon = "starting" /\ args # <<>>
    /\ IF Refused(Head(args).id, Head(args).path)
       THEN daemon' = "refused" /\ UNCHANGED <<roots, args>>
       ELSE /\ roots' = Append(roots, [id |-> Head(args).id, original |-> Head(args).path,
                                       canonical |-> Canonical(Head(args).path)])
            /\ args' = Tail(args)
            /\ daemon' = IF Len(args) = 1 THEN "serving" ELSE daemon
    /\ UNCHANGED <<dir, at, walk, listing, changes>>

---------------------------------------------------------------------------
(* Listing                                                                 *)

\* Allowlist::list, or list_partial, over the roots in order; agenda is the recursion of
\* walk_dir, one set of open items per level.  The last four fields are ghosts: the
\* visible slots that have held one file since the start, those that held one at some
\* moment, the files visible at every moment, and the files that were looked at.
StartWalk ==
    /\ daemon = "serving" /\ walk = Absent /\ listing = Absent
    /\ \E partial \in BOOLEAN :
           walk' = [agenda |-> [i \in DOMAIN roots |->
                                  {[path |-> roots[i].canonical, id |-> roots[i].id, rel |-> <<>>, as |-> "dir"]}],
                    got |-> <<>>, partial |-> partial, skipped |-> {}, failed |-> FALSE,
                    steady |-> Visible, ever |-> Visible, afoot |-> {at[p] : p \in Visible}, saw |-> {}]
    /\ UNCHANGED <<dir, at, args, roots, daemon, listing, changes>>

\* What is left of the agenda after an item, with further items before it.
Onward(item, more) ==
    LET level == Head(walk.agenda) \ {item} IN
    [walk EXCEPT !.agenda = (IF more = {} THEN <<>> ELSE <<more>>)
                            \o (IF level = {} THEN <<>> ELSE <<level>>) \o Tail(@)]

\* Mutant of Note: a partial listing forgets what it skips.
NoteIfStrict(item) ==
    IF walk.partial THEN Onward(item, {})
    ELSE [walk EXCEPT !.failed = TRUE]

\* note: a strict listing fails, a partial one remembers the path.
Note(item) ==
    IF walk.partial THEN [Onward(item, {}) EXCEPT !.skipped = @ \cup {item.path}]
    ELSE [walk EXCEPT !.failed = TRUE]

\* walk_dir opens a directory: its entries come in any order.
ReadDir(item) ==
    IF ~IsDir(item.path) \/ (IF item.path \in Dirs THEN dir[item.path] = "shut" ELSE FALSE) THEN Note(item)
    ELSE Onward(item, {[path |-> p, id |-> item.id, rel |-> Append(item.rel, Last(p)), as |-> "entry"] :
                          p \in Children(item.path)})

Listed(item) == [Onward(item, {}) EXCEPT !.got = Append(@, Ref(item.id, item.rel)),
                                         !.saw = @ \cup {at[Canonical(item.path)]}]

\* walk_dir looks at an entry: never follows a link.
LookAt(item) ==
    IF IsTorrentSkip(item.path) THEN Onward(item, {})
    ELSE IF ~Exists(item.path) THEN Note(item)
    ELSE IF item.path \in Links THEN Onward(item, {})
    ELSE IF IsDir(item.path) THEN Onward(item, {[item EXCEPT !.as = "dir"]})
    ELSE Listed(item)

Walk ==
    /\ walk # Absent
    /\ ~walk.failed /\ walk.agenda # <<>>
    /\ \E item \in Head(walk.agenda) : walk' = IF item.as = "dir" THEN ReadDir(item) ELSE LookAt(item)
    /\ UNCHANGED <<dir, at, args, roots, daemon, listing, changes>>

EndWalk ==
    /\ walk # Absent
    /\ walk.failed \/ walk.agenda = <<>>
    /\ listing' = [ok |-> ~walk.failed, got |-> walk.got, partial |-> walk.partial, skipped |-> walk.skipped,
                   steady |-> walk.steady, ever |-> walk.ever, afoot |-> walk.afoot, saw |-> walk.saw]
    /\ walk' = Absent
    /\ UNCHANGED <<dir, at, args, roots, daemon, changes>>

---------------------------------------------------------------------------
(* The file system moves                                                   *)

\* The ghosts of the listing follow.
Watching ==
    walk' = IF walk = Absent THEN Absent
            ELSE [walk EXCEPT !.steady = {p \in @ : p \in Visible' /\ at'[p] = at[p]},
                              !.ever = @ \cup Visible',
                              !.afoot = @ \cap {at'[p] : p \in Visible'}]

Changes ==
    /\ daemon = "serving" /\ changes < MaxChanges
    /\ changes' = changes + 1
    /\ UNCHANGED <<args, roots, daemon, listing>>

Come ==
    /\ Changes
    /\ \E p \in Places, f \in FileIds :
           /\ Reached(p) /\ at[p] = Absent /\ \A q \in Places : at[q] # f
           /\ at' = [at EXCEPT ![p] = f]
    /\ dir' = dir /\ Watching

Go ==
    /\ Changes
    /\ \E p \in Places : at[p] # Absent /\ at' = [at EXCEPT ![p] = Absent]
    /\ dir' = dir /\ Watching

Rename ==
    /\ Moving /\ Changes
    /\ \E p, q \in Places :
           /\ at[p] # Absent /\ at[q] = Absent /\ Reached(q)
           /\ at' = [at EXCEPT ![p] = Absent, ![q] = at[p]]
    /\ dir' = dir /\ Watching

DirChanges ==
    /\ Changes
    /\ \E d \in Dirs, s \in {"there", "shut", "gone"} :
           /\ s # dir[d]
           /\ s = "gone" => Children(d) = {} /\ \A q \in Places : Under(q, d) => at[q] = Absent
           /\ dir[d] = "gone" => Reached(d)
           /\ dir' = [dir EXCEPT ![d] = s]
    /\ at' = at /\ Watching

WalkerNext == AddRoot \/ StartWalk \/ Walk \/ EndWalk \/ Come \/ Go \/ Rename \/ DirChanges

WalkerSpec == WalkerInit /\ [][WalkerNext]_walkerVars

---------------------------------------------------------------------------
(* Properties                                                              *)

PathOf(ref) ==
    LET found == {i \in DOMAIN roots : roots[i].id = ref.root} IN
    IF found = {} THEN Absent ELSE roots[CHOOSE i \in found : TRUE].canonical \o ref.rel

\* Type correctness of the roots and of the listing under way.
WalkerTypeOK ==
    /\ \A i \in DOMAIN roots : roots[i].canonical \in Dirs /\ Canonical(roots[i].canonical) = roots[i].canonical
    /\ IF walk = Absent THEN TRUE
       ELSE /\ \A i \in DOMAIN walk.agenda : walk.agenda[i] # {} /\
                  \A item \in walk.agenda[i] : item.as \in {"dir", "entry"} /\ PathOf(Ref(item.id, item.rel)) = item.path
            /\ walk.steady \subseteq walk.ever

\* "a caller never mistakes a partial listing for a complete one": a strict listing that
\* succeeds has every file that kept its place all the time, whatever was shut, came or
\* went meanwhile.
ListingComplete ==
    IF listing = Absent THEN TRUE
    ELSE listing.ok /\ ~listing.partial =>
             \A p \in listing.steady : \E i \in DOMAIN listing.got : PathOf(listing.got[i]) = p

\* Nothing is listed that was not a file in an allowlisted place at some moment of the
\* listing: no link is followed, no incomplete download shown.
OnlyRealFiles ==
    IF listing = Absent THEN TRUE
    ELSE \A i \in DOMAIN listing.got : PathOf(listing.got[i]) \in listing.ever

\* "what was skipped is returned, never swallowed": a partial listing lacks a file that
\* kept its place only under a path that it reports.
PartialReportsAll ==
    IF listing = Absent THEN TRUE
    ELSE listing.partial =>
             /\ listing.ok
             /\ \A p \in listing.steady :
                    \/ \E i \in DOMAIN listing.got : PathOf(listing.got[i]) = p
                    \/ \E s \in listing.skipped : Under(p, s)

\* resolve "cannot mint a ref for something list refuses to emit", and refs and paths
\* are one to one: a file that may be listed is found by its ref and by its path, and a
\* path that resolves to a file leads to one that may be listed (said between listings:
\* a listing changes neither).
RefsAgree ==
    daemon = "serving" /\ walk = Absent /\ listing = Absent =>
        /\ \A i \in DOMAIN roots : \A p \in VisibleUnder(i) :
               LET r == Ref(roots[i].id, Rel(p, roots[i].canonical)) IN
               Absolute(r) = p /\ Entry(r) /\ Resolve(p) = r
        /\ \A d \in Dirs \cup Links, p \in Places :
               LET q == Append(d, Last(p)) IN
               IF Resolve(q) = Absent THEN TRUE
               ELSE IsFile(Canonical(q)) => Canonical(q) \in Visible /\ Entry(Resolve(q))

\* What a listing says is what there is, for the walker and every path that stands for a
\* file (Allowlist::list, list_partial, resolve and entry).
ListingsAreWhole ==
    WalkerTypeOK /\ ListingComplete /\ OnlyRealFiles /\ PartialReportsAll /\ RefsAgree
=============================================================================
