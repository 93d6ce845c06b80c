----------------------------- MODULE StateRows -----------------------------
(***************************************************************************)
(* The rows of the home state.db and what one statement or transaction of  *)
(* crates/store does to them: the jobs table with the state machines of    *)
(* crates/core/src/jobs.rs, and the title index with its two digests.      *)
(* Pure operators; StateDb and LibrarySync supply the processes.           *)
(***************************************************************************)
EXTENDS Naturals, Sequences, FiniteSets

Kinds == {"want", "pull", "encode", "hold"}

\* Rows <<from, event, to>> of advance_want, advance_pull, advance_encode and
\* advance_hold; every pair that is not listed is IllegalTransition.
Lifecycle ==
    [want   |-> {<<"open", "satisfy", "satisfied">>, <<"open", "drop", "dropped">>},
     pull   |-> {<<"queued", "start", "pulling">>,
                 <<"pulling", "finish_ranges", "verifying">>,
                 <<"verifying", "install", "installed">>},
     encode |-> {<<"queued", "start", "encoding">>,
                 <<"encoding", "finish_encode", "replacing">>,
                 <<"replacing", "replace", "done">>},
     hold   |-> {<<"open", "approve", "approved">>, <<"open", "reject", "rejected">>}]

Initial(kind) == IF kind \in {"want", "hold"} THEN "open" ELSE "queued"

JobStates == {"open"} \cup
    UNION {{t[1] : t \in Lifecycle[k]} \cup {t[3] : t \in Lifecycle[k]} : k \in Kinds}
Events == UNION {{t[2] : t \in Lifecycle[k]} : k \in Kinds}

\* advance(): the next state as a singleton, or nothing for an illegal step.
Advance(job, event) ==
    {t[3] : t \in {u \in Lifecycle[job.kind] : u[1] = job.state /\ u[2] = event}}

RequiredParentKind == [pull |-> "want", encode |-> "pull"]

\* validate_parent inside create_job: 0 is "no parent".
ParentAllowed(jobs, kind, parent) ==
    \/ parent = 0
    \/ /\ kind \in DOMAIN RequiredParentKind
       /\ parent \in DOMAIN jobs
       /\ jobs[parent].kind = RequiredParentKind[kind]

OpenWants(jobs, title) ==
    {i \in DOMAIN jobs : jobs[i].kind = "want" /\ jobs[i].title = title /\ jobs[i].state = "open"}

\* create_job, one Immediate transaction: a Want for a title that already has
\* an open one is answered with the existing row.
CreateJob(jobs, kind, title, parent) ==
    IF kind = "want" /\ OpenWants(jobs, title) # {}
    THEN jobs
    ELSE Append(jobs, [title |-> title, kind |-> kind,
                       state |-> Initial(kind), parent |-> parent])

\* advance_job, one Immediate transaction with a compare-and-set on the state.
AdvanceJob(jobs, id, event) ==
    [jobs EXCEPT ![id].state = CHOOSE s \in Advance(jobs[id], event) : TRUE]

(***************************************************************************)
(* The title index: a set of rows [title, path, install, current]. The     *)
(* empty path marks a row written before schema version 5.                 *)
(***************************************************************************)
NoPath == "none"

RowsAt(index, path) == {r \in index : r.path = path /\ path # NoPath}

\* The partial unique index of schema version 7.
PathsUnique(index) ==
    \A r, s \in index : r # s /\ r.path # NoPath => r.path # s.path

\* The UPDATE of record_install that gives a pre-v5 row its path.
Backfillable(index, title, digest) ==
    {r \in index : r.title = title /\ r.path = NoPath /\ r.install = digest}

Backfill(index, title, digest, path) ==
    (index \ Backfillable(index, title, digest))
        \cup {[r EXCEPT !.path = path] : r \in Backfillable(index, title, digest)}

InsertRow(index, title, digest, path) ==
    index \cup {[title |-> title, path |-> path, install |-> digest, current |-> digest]}

\* record_replace: only current_b3 moves.
ReplaceRow(index, path, digest) ==
    {IF r.path = path THEN [r EXCEPT !.current = digest] ELSE r : r \in index}
=============================================================================
