---------------------------- MODULE LibrarySync ----------------------------
(***************************************************************************)
(* crates/sync: a run plans from what it reads (plan.rs) and applies the   *)
(* plan action by action (apply.rs), leaving jobs and title index rows in  *)
(* state.db, intents and staged files below _incoming/<title>/ and files   *)
(* in the library. A run may die between any two of those writes; the next *)
(* run starts over from what is on disk. sync::apply is a library function *)
(* whose callers hold the maintenance lock, so one run is active at a time.*)
(*                                                                         *)
(* A remote file has a version: an upgrade on the seedbox is a new RemoteRef.*)
(***************************************************************************)
EXTENDS PlanActions, StateRows

CONSTANTS
    Order,        \* the files in the order the seedbox lists them
    MaxVersion,   \* remote versions of one file
    MaxCopy,      \* copy budget of one run, every file being of length one
    MaxCrashes, MaxFails, MaxJobs,
    Servarr       \* grabber = servarr: plans begin with GrabApply

VARIABLES
    remote,   \* [file -> version on the seedbox, 0 for none]
    library,  \* [file -> version installed, 0 for none]
    index,    \* rows of title_index; a digest is a version, a path a file
    jobs,     \* rows of the jobs table
    stage,    \* [title -> staging directory]
    missing,  \* titles the grabber still looks for
    config,   \* version of the desired-state file
    run,      \* the run in progress; run.had is what its plan saw installed
    count     \* crashes and failures so far

vars == <<remote, library, index, jobs, stage, missing, config, run, count>>

NoIntent == [file |-> "none", v |-> 0]
Nothing == [form |-> "none", v |-> 0]
EmptyDir == [intent |-> NoIntent, files |-> [f \in Files |-> Nothing]]
NoRun == [at |-> "idle", plan |-> <<>>, i |-> 0, job |-> 0, want |-> 0, b3 |-> 0, config |-> 0, had |-> {}]

Init ==
    /\ remote = [f \in Files |-> 1]
    /\ library = [f \in Files |-> 0]
    /\ index = {}
    /\ jobs = <<>>
    /\ stage = [t \in Titles |-> EmptyDir]
    /\ missing = Titles
    /\ config = 0
    /\ run = NoRun
    /\ count = [crashes |-> 0, fails |-> 0]

diskVars == <<remote, library, index, jobs, stage, missing, config>>

\* The seedbox, the operator and the configuration.
Upgrade(f) ==
    /\ remote[f] < MaxVersion
    /\ remote' = [remote EXCEPT ![f] = @ + 1]
    /\ UNCHANGED <<library, index, jobs, stage, missing, config, run, count>>

EditConfig ==
    /\ config = 0
    /\ config' = 1
    /\ UNCHANGED <<remote, library, index, jobs, stage, missing, run, count>>

CreateWant(t) ==
    /\ Len(jobs) < MaxJobs
    /\ \A i \in DOMAIN jobs : jobs[i].kind = "want" => jobs[i].title # t
    /\ jobs' = CreateJob(jobs, "want", t, 0)
    /\ UNCHANGED <<remote, library, index, stage, missing, config, run, count>>

(***************************************************************************)
(* The run.                                                                *)
(***************************************************************************)
Listing ==
    LET here == SelectSeq(Order, LAMBDA f : remote[f] # 0)
    IN  [i \in DOMAIN here |-> [ref |-> <<here[i], remote[here[i]]>>, len |-> 1,
                                media |-> TRUE, file |-> here[i]]]

Request ==
    [listing |-> Listing, onDisk |-> {f \in Files : library[f] # 0},
     indexed |-> {r.path : r \in index}, wants |-> {t \in Titles : OpenWants(jobs, t) # {}},
     held |-> {}, approved |-> <<>>, maxCopy |-> MaxCopy, free |-> Len(Order), minFree |-> 0,
     lock |-> FALSE, servarr |-> Servarr, frozen |-> FALSE, missing |-> missing]

StartRun ==
    /\ run.at = "idle"
    /\ run' = [NoRun EXCEPT !.at = "planned", !.plan = Plan(Request), !.config = config,
                         !.had = Installed(Request)]
    /\ UNCHANGED <<diskVars, count>>

\* matches_snapshot: the plan is void when the configuration moved.
BeginApply ==
    /\ run.at = "planned"
    /\ run' = IF run.config = config THEN [run EXCEPT !.at = "next", !.i = 1] ELSE NoRun
    /\ UNCHANGED <<diskVars, count>>

Act == run.plan[run.i]
Dir == stage[Act.title]
Want == [file |-> Act.file, v |-> Act.ref[2]]
To(at) == [run EXCEPT !.at = at]
NextAction == [run EXCEPT !.at = "next", !.i = @ + 1, !.job = 0, !.want = 0]

Finish ==
    /\ run.at = "next"
    /\ run.i > Len(run.plan)
    /\ run' = NoRun
    /\ UNCHANGED <<diskVars, count>>

At(type) == run.at = "next" /\ run.i <= Len(run.plan) /\ Act.type = type

\* GrabApply ends the whole run when the seedbox refuses it.
GrabApply ==
    /\ At("grab_apply")
    /\ \/ run' = NextAction /\ UNCHANGED count
       \/ /\ count.fails < MaxFails
          /\ count' = [count EXCEPT !.fails = @ + 1]
          /\ run' = NoRun
    /\ UNCHANGED diskVars

\* Unmonitor failures are reported and never fatal.
Unmonitor ==
    /\ At("unmonitor")
    /\ run' = NextAction
    /\ \/ missing' = missing \ {Act.title} /\ UNCHANGED count
       \/ /\ count.fails < MaxFails
          /\ count' = [count EXCEPT !.fails = @ + 1]
          /\ UNCHANGED missing
    /\ UNCHANGED <<remote, library, index, jobs, stage, config>>

SkipFile ==
    /\ At("skip")
    /\ LET open == IF Act.reason = "upgrade_never" THEN OpenWants(jobs, Act.title) ELSE {}
       IN  jobs' = [i \in DOMAIN jobs |->
                      IF i \in open THEN [jobs[i] EXCEPT !.state = "satisfied"] ELSE jobs[i]]
    /\ run' = NextAction
    /\ UNCHANGED <<remote, library, index, stage, missing, config, count>>

(***************************************************************************)
(* apply_copy.                                                             *)
(***************************************************************************)
Inflight(t) == {i \in DOMAIN jobs : jobs[i].title = t /\ jobs[i].kind = "pull"
                                      /\ jobs[i].state # "installed"}

\* pull_matches: no intent counts as a match.
PullMatches == Dir.intent \in {NoIntent, Want}

\* The title's unfinished Pull is taken over, after its staging directory is
\* discarded when it was pulling something else; without one a Pull is created
\* under the open Want.
FindJob ==
    /\ At("copy")
    /\ LET mine == Inflight(Act.title)
           open == OpenWants(jobs, Act.title)
           want == IF open = {} THEN 0 ELSE Min(open)
       IN  \/ /\ mine # {}
              /\ run' = [run EXCEPT !.at = "intent", !.job = Min(mine), !.want = want]
              /\ stage' = IF PullMatches THEN stage ELSE [stage EXCEPT ![Act.title] = EmptyDir]
              /\ UNCHANGED jobs
           \/ /\ mine = {}
              /\ Len(jobs) < MaxJobs
              /\ jobs' = CreateJob(jobs, "pull", Act.title, want)
              /\ run' = [run EXCEPT !.at = "intent", !.job = Len(jobs'), !.want = want]
              /\ UNCHANGED stage
    /\ UNCHANGED <<remote, library, index, missing, config, count>>

JobState == jobs[run.job].state
Event(e) == jobs' = AdvanceJob(jobs, run.job, e)

\* The intent is written before the job starts and again before every pull.
WriteIntent ==
    /\ run.at = "intent"
    /\ stage' = IF JobState = "verifying" THEN stage
                ELSE [stage EXCEPT ![Act.title].intent = Want]
    /\ run' = To(CASE JobState = "queued" -> "start"
                   [] JobState = "pulling" -> "fetch"
                   [] OTHER -> "verify")
    /\ UNCHANGED <<remote, library, index, jobs, missing, config, count>>

StartPull ==
    /\ run.at = "start"
    /\ Event("start")
    /\ run' = To("intent")
    /\ UNCHANGED <<remote, library, index, stage, missing, config, count>>

\* pull_file (module Transfer): the staged file is whole and of one remote, or
\* the call fails and the ranges already fetched stay in the .partial.
Fetch ==
    /\ run.at = "fetch"
    /\ \/ /\ remote[Act.file] = Want.v
          /\ Dir.files[Act.file].v \in {0, Want.v}
          /\ stage' = [stage EXCEPT ![Act.title].files[Act.file] = [form |-> "staged", v |-> Want.v]]
          /\ run' = To("finish")
          /\ UNCHANGED count
       \/ /\ remote[Act.file] # Want.v \/ count.fails < MaxFails
          /\ count' = [count EXCEPT !.fails = IF remote[Act.file] = Want.v THEN @ + 1 ELSE @]
          /\ stage' = IF Dir.files[Act.file].form = "none" /\ remote[Act.file] = Want.v
                      THEN [stage EXCEPT ![Act.title].files[Act.file] = [form |-> "partial", v |-> Want.v]]
                      ELSE stage
          /\ run' = NextAction
    /\ UNCHANGED <<remote, library, index, jobs, missing, config>>

FinishRanges ==
    /\ run.at = "finish"
    /\ Event("finish_ranges")
    /\ run' = To("verify")
    /\ UNCHANGED <<remote, library, index, stage, missing, config, count>>

\* VerifiedStagingHandle::verify and install: the staged file must exist, and
\* a file already at the destination must be the same one.
VerifyAndInstall ==
    /\ run.at = "verify"
    /\ LET staged == Dir.files[Act.file]
       IN  IF staged.form = "staged" /\ library[Act.file] \in {0, staged.v}
           THEN /\ library' = [library EXCEPT ![Act.file] = staged.v]
                /\ stage' = [stage EXCEPT ![Act.title].files[Act.file] = Nothing]
                /\ run' = [To("installed") EXCEPT !.b3 = staged.v, !.had = @ \cup {Act.file}]
           ELSE /\ run' = NextAction
                /\ UNCHANGED <<library, stage>>
    /\ UNCHANGED <<remote, index, jobs, missing, config, count>>

AdvanceInstalled ==
    /\ run.at = "installed"
    /\ Event("install")
    /\ run' = To("record")
    /\ UNCHANGED <<remote, library, index, stage, missing, config, count>>

\* record_install: idempotent for the digest of an existing row, an error for
\* another digest.
RecordInstall ==
    /\ run.at = "record"
    /\ LET rows == RowsAt(index, Act.file)
           ok == \A r \in rows : r.install = run.b3
       IN  /\ index' = IF rows = {} THEN InsertRow(index, Act.title, run.b3, Act.file) ELSE index
           /\ run' = IF ~ok THEN NextAction ELSE To(IF run.want # 0 THEN "satisfy" ELSE "clean")
    /\ UNCHANGED <<remote, library, jobs, stage, missing, config, count>>

SatisfyWant ==
    /\ run.at = "satisfy"
    /\ jobs' = AdvanceJob(jobs, run.want, "satisfy")
    /\ run' = To("clean")
    /\ UNCHANGED <<remote, library, index, stage, missing, config, count>>

CleanUp ==
    /\ run.at = "clean"
    /\ stage' = [stage EXCEPT ![Act.title].intent = NoIntent]
    /\ run' = NextAction
    /\ UNCHANGED <<remote, library, index, jobs, missing, config, count>>

Crash ==
    /\ run.at # "idle"
    /\ count.crashes < MaxCrashes
    /\ run' = NoRun
    /\ count' = [count EXCEPT !.crashes = @ + 1]
    /\ UNCHANGED diskVars

\* The operator deletes a library file by hand to reclaim space.
DeleteByHand(f) ==
    /\ library[f] # 0
    /\ count.crashes < MaxCrashes
    /\ library' = [library EXCEPT ![f] = 0]
    /\ count' = [count EXCEPT !.crashes = @ + 1]
    /\ UNCHANGED <<remote, index, jobs, stage, missing, config, run>>

ApplyStep ==
    \/ BeginApply \/ Finish \/ GrabApply \/ Unmonitor \/ SkipFile
    \/ FindJob \/ WriteIntent \/ StartPull \/ Fetch \/ FinishRanges
    \/ VerifyAndInstall \/ AdvanceInstalled \/ RecordInstall \/ SatisfyWant \/ CleanUp

World ==
    \/ \E f \in Files : Upgrade(f) \/ DeleteByHand(f)
    \/ \E t \in Titles : CreateWant(t)
    \/ EditConfig \/ Crash

Next == StartRun \/ ApplyStep \/ World

Spec == Init /\ [][Next]_vars

(***************************************************************************)
(* Properties.                                                             *)
(***************************************************************************)
Versions == 0 .. MaxVersion

\* Types.
LibraryTypeOK ==
    /\ remote \in [Files -> Versions]
    /\ library \in [Files -> Versions]
    /\ \A i \in DOMAIN jobs : jobs[i].kind \in {"want", "pull"} /\ jobs[i].state \in JobStates
    /\ run.at \in {"idle", "planned", "next", "intent", "start", "fetch", "finish", "verify",
                   "installed", "record", "satisfy", "clean"}
    /\ run.at \notin {"idle", "planned", "next"} => run.job \in DOMAIN jobs

\* A title index row is a proof: whatever was upgraded on the seedbox, crashed
\* or retried since, the file on disk at a recorded path is the one recorded.
ProofMatchesDisk ==
    \A r \in index : library[r.path] # 0 => library[r.path] = r.install

\* A Want is settled only by a file of its title that this run found installed
\* or installed itself, whatever is deleted by hand meanwhile.
SettlesByFile ==
    \A i \in DOMAIN jobs :
      jobs[i].kind = "want" /\ jobs[i].state = "open" /\ jobs'[i].state = "satisfied" =>
        \E f \in run.had : TitleOf[f] = jobs[i].title

\* The grabber stops looking for a title only once the index has a row of it: an
\* installation that crashed or failed before its proof was recorded does not do.
UnmonitorsProved ==
    \A t \in missing \ missing' : \E r \in index : r.title = t

\* The timer starts a run an hour after the last one ended, and a run that is
\* going on ends.
LiveSpec == Spec /\ WF_vars(ApplyStep) /\ WF_vars(StartRun)

\* A copy is not failed for ever: once the seedbox answers and no run dies any
\* more, every file it lists reaches the library.
Arrived(f) == library[f] # 0 \/ RowsAt(index, f) # {}
EverythingInstalls == \A f \in Files : <>Arrived(f)
=============================================================================
