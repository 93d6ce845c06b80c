--------------------------- MODULE EncodeLibrary ---------------------------
(***************************************************************************)
(* mediaops encode run and mediaops library reindex: the commands that     *)
(* change a file of the library after its installation, or the proofs the  *)
(* Home API keeps about it.  An encode replaces the live file by its       *)
(* conversion, keeps the original as a backup, and publishes the new       *)
(* digest; a journal entry below _incoming/encode-proofs carries the       *)
(* digests across a crash.  The maintenance flock admits one command at a  *)
(* time.                                                                   *)
(*                                                                         *)
(* A digest is the content itself.                                         *)
(***************************************************************************)
EXTENDS Naturals, FiniteSets

CONSTANTS
    Files,      \* library paths, every one a title of its own
    Original,   \* [Files -> content installed]
    KindOf,     \* [Files -> {"movie", "series", "album"}]
    RawOf,      \* [content -> what ffprobe prints about it]
    NvencCap,   \* machine.nvenc_cap, 0 without hevc_nvenc
    MaxNvenc,   \* DesiredState max_nvenc
    MaxCrashes, MaxFaults, MaxTouch   \* bounds on the environment

None == "none"

\* What an instance gives the constants: every file was installed with some content.
EncodeAssumption ==
    /\ None \notin Files
    /\ Original = [f \in Files |-> Original[f]] /\ \A f \in Files : Original[f] # None

VARIABLES
    live, backup, converting, journal,   \* the disk: [Files -> content or entry]
    row,       \* Title.status.files of the Home API
    cluster,   \* Cluster.spec: lock and encodePause
    cmd,       \* the command that holds the flock
    left,      \* environment budgets
    touched    \* observer: files the user changed

disk == <<live, backup, converting, journal>>
vars == <<disk, row, cluster, cmd, left, touched>>

NoEntry == [state |-> "none", install |-> None, prev |-> None, cur |-> None]
Idle == [pc |-> "idle", file |-> None, todo |-> {}, was |-> FALSE, maint |-> FALSE,
         sel |-> FALSE, rows |-> <<>>]

Init ==
    /\ live = Original
    /\ backup = [f \in Files |-> None]
    /\ converting = [f \in Files |-> None]
    /\ journal = [f \in Files |-> NoEntry]
    /\ row = [f \in Files |-> [install |-> Original[f], current |-> Original[f], drifted |-> FALSE]]
    /\ cluster = [lock |-> FALSE, pause |-> FALSE]
    /\ cmd = Idle
    /\ left = [crash |-> MaxCrashes, fault |-> MaxFaults, touch |-> MaxTouch]
    /\ touched = {}

(***************************************************************************)
(* Probe and policy.                                                       *)
(***************************************************************************)
\* parse_ffprobe_json, is_hdr, is_dv.
ProbeMedia(raw) ==
    [codec |-> CASE raw.codec \in {"hevc", "h265"} -> "hevc"
                 [] raw.codec \in {"h264", "avc1"} -> "h264"
                 [] OTHER -> "other",
     depth |-> IF raw.bits # 0 THEN raw.bits ELSE raw.pix,
     height |-> raw.height,
     mp4 |-> raw.formats \cap {"mp4", "mov", "ismv"} # {},
     hdr |-> raw.transfer \in {"smpte2084", "arib-std-b67"} \/ "mastering display" \in raw.side,
     dv |-> raw.tag = "dvh1" \/ "dolby vision" \in raw.side]

Classify(kind, raw) ==
    LET media == ProbeMedia(raw)
    IN  CASE media.hdr \/ media.dv \/ media.height >= 2160 -> "refuse"
          [] kind = "movie" /\ media.codec = "hevc" /\ media.depth >= 10 /\ media.mp4 -> "nvenc"
          [] OTHER -> "keep"

\* session_cap, should_start_next.
SessionCap == IF NvencCap = 0 THEN 0
              ELSE IF MaxNvenc < NvencCap THEN MaxNvenc ELSE NvencCap

\* What ffmpeg makes of it.
Converted == "h264"

(***************************************************************************)
(* Steps of a command.                                                     *)
(***************************************************************************)
To(pc) == [cmd EXCEPT !.pc = pc]
At(pc) == cmd.pc = pc
Fault(kind) == left[kind] > 0 /\ left' = [left EXCEPT ![kind] = @ - 1]

\* An error ends the command; within maintenance the Cluster stays locked.
Fail == cmd' = Idle

Rows(includeDrifted) == {f \in Files : row[f].install # None /\ (includeDrifted \/ ~row[f].drifted)}

\* publish_rows of one file: refused unless the bytes are the ones claimed and
\* the install digest is the one known; an API error may hide a commit.
Publish(f, install, current, next) ==
    LET new == [row EXCEPT ![f] = [install |-> install, current |-> current, drifted |-> FALSE]]
        ok == live[f] = current /\ current # None /\ row[f].install \in {None, install}
    IN  \/ ok /\ row' = new /\ cmd' = next /\ UNCHANGED left
        \/ ~ok /\ Fail /\ UNCHANGED <<row, left>>
        \/ ok /\ Fault("fault") /\ row' \in {row, new} /\ Fail

StartEncode(selected) ==
    /\ At("idle")
    /\ cmd' = [Idle EXCEPT !.pc = "recover", !.todo = selected, !.sel = selected # Files,
                           !.rows = row]
    /\ UNCHANGED <<disk, row, cluster, left, touched>>

(***************************************************************************)
(* recover_encode_proofs.                                                  *)
(***************************************************************************)
Pending == {f \in Files : journal[f].state # "none"}

\* A half-written entry does not parse; one that contradicts the proof, or a
\* file that is neither version, is drift.
RecoverRefuses(f) ==
    LET e == journal[f] IN
    \/ e.state = "torn"
    \/ cmd.rows[f].install # e.install
    \/ cmd.rows[f].current \notin {e.prev, e.cur}
    \/ live[f] \notin {e.prev, e.cur}

Recover(f) ==
    /\ At("recover") /\ f \in Pending
    /\ \/ RecoverRefuses(f) /\ Fail /\ UNCHANGED <<row, left>>
       \/ /\ ~RecoverRefuses(f)
          /\ live[f] = journal[f].cur
          /\ Publish(f, journal[f].install, journal[f].cur, [To("drop") EXCEPT !.file = f])
       \/ /\ ~RecoverRefuses(f)
          /\ live[f] # journal[f].cur
          /\ cmd' = [To("drop") EXCEPT !.file = f]
          /\ UNCHANGED <<row, left>>
    /\ UNCHANGED <<disk, cluster, touched>>

DropRecovered ==
    /\ At("drop")
    /\ journal' = [journal EXCEPT ![cmd.file] = NoEntry]
    /\ cmd' = To("recover")
    /\ UNCHANGED <<live, backup, converting, row, cluster, left, touched>>

\* rows(false) of the movies, or of the title asked for; no capacity refuses
\* only the latter.
LoadRows ==
    /\ At("recover") /\ Pending = {}
    /\ LET rows == {f \in cmd.todo \cap Rows(FALSE) : cmd.sel \/ KindOf[f] = "movie"}
       IN  IF cmd.sel /\ (rows = {} \/ SessionCap = 0) THEN Fail
           ELSE cmd' = [To("next") EXCEPT !.todo = rows, !.rows = row]
    /\ UNCHANGED <<disk, row, cluster, left, touched>>

(***************************************************************************)
(* The loop over the rows.                                                 *)
(***************************************************************************)
Skip(f) == cmd' = [cmd EXCEPT !.todo = @ \ {f}]

ConsiderFile(f) ==
    /\ At("next") /\ f \in cmd.todo
    /\ LET decision == Classify(KindOf[f], RawOf[live[f]])
       IN  \/ (cluster.pause \/ SessionCap = 0) /\ Skip(f)
           \/ /\ ~cluster.pause /\ SessionCap > 0
              /\ IF live[f] # cmd.rows[f].current THEN Fail
                 ELSE CASE decision = "keep" -> Skip(f)
                        [] decision = "refuse" -> (IF cmd.sel THEN Fail ELSE Skip(f))
                        [] decision = "nvenc" ->
                             cmd' = [To(IF cmd.maint THEN "convert" ELSE "maintenance")
                                       EXCEPT !.file = f]
    /\ UNCHANGED <<disk, row, cluster, left, touched>>

\* begin_maintenance, see JobControl: bound Jobs give the lock back.
BeginMaintenance ==
    /\ At("maintenance")
    /\ \/ /\ cluster' = [cluster EXCEPT !.lock = TRUE]
          /\ cmd' = [To(IF cmd.file = None THEN "scan" ELSE "convert")
                       EXCEPT !.maint = TRUE, !.was = cluster.lock]
          /\ UNCHANGED left
       \/ Fault("fault") /\ Fail /\ cluster' \in {cluster, [cluster EXCEPT !.lock = TRUE]}
    /\ UNCHANGED <<disk, row, touched>>

Convert ==
    /\ At("convert")
    /\ \/ /\ converting' = [converting EXCEPT ![cmd.file] = Converted]
          /\ cmd' = To("journal")
          /\ UNCHANGED left
       \/ Fault("fault") /\ Fail /\ converting' = [converting EXCEPT ![cmd.file] = None]
    /\ UNCHANGED <<live, backup, journal, row, cluster, touched>>

\* persist_encode_proof: created, then written and synced.
CreateJournal ==
    /\ At("journal")
    /\ journal' = [journal EXCEPT ![cmd.file] = [NoEntry EXCEPT !.state = "torn"]]
    /\ cmd' = To("write")
    /\ UNCHANGED <<live, backup, converting, row, cluster, left, touched>>

WriteJournal ==
    /\ At("write")
    /\ journal' = [journal EXCEPT ![cmd.file] =
          [state |-> "synced", install |-> cmd.rows[cmd.file].install,
           prev |-> cmd.rows[cmd.file].current, cur |-> converting[cmd.file]]]
    /\ cmd' = To("backup")
    /\ UNCHANGED <<live, backup, converting, row, cluster, left, touched>>

BackUp ==
    /\ At("backup")
    /\ IF live[cmd.file] = None \/ backup[cmd.file] # None
       THEN Fail /\ UNCHANGED backup
       ELSE /\ backup' = [backup EXCEPT ![cmd.file] = live[cmd.file]]
            /\ cmd' = To("rename")
    /\ UNCHANGED <<live, converting, journal, row, cluster, left, touched>>

\* ... and the conversion renamed over it; a failing rename takes the backup
\* back.
Rename ==
    /\ At("rename")
    /\ \/ /\ live' = [live EXCEPT ![cmd.file] = converting[cmd.file]]
          /\ converting' = [converting EXCEPT ![cmd.file] = None]
          /\ cmd' = To("record")
          /\ UNCHANGED <<backup, left>>
       \/ /\ Fault("fault") /\ Fail
          /\ backup' = [backup EXCEPT ![cmd.file] = None]
          /\ UNCHANGED <<live, converting>>
    /\ UNCHANGED <<journal, row, cluster, touched>>

\* record_replace keeps the install digest of the row.
RecordReplace ==
    /\ At("record")
    /\ Publish(cmd.file, row[cmd.file].install, live[cmd.file], To("clear"))
    /\ UNCHANGED <<disk, cluster, touched>>

ClearJournal ==
    /\ At("clear")
    /\ journal' = [journal EXCEPT ![cmd.file] = NoEntry]
    /\ cmd' = [To("next") EXCEPT !.todo = @ \ {cmd.file}]
    /\ UNCHANGED <<live, backup, converting, row, cluster, left, touched>>

FinishCommand ==
    /\ At("next") /\ cmd.todo = {}
    /\ \/ /\ cluster' = IF cmd.maint THEN [cluster EXCEPT !.lock = cmd.was] ELSE cluster
          /\ UNCHANGED left
       \/ cmd.maint /\ Fault("fault") /\ UNCHANGED cluster
    /\ cmd' = Idle
    /\ UNCHANGED <<disk, row, touched>>

(***************************************************************************)
(* library reindex.                                                        *)
(***************************************************************************)
StartReindex ==
    /\ At("idle")
    /\ cmd' = To("maintenance")
    /\ UNCHANGED <<disk, row, cluster, left, touched>>

\* Every schema file is hashed; a known file must still be what its row says.
ReindexScan ==
    /\ At("scan")
    /\ LET there == {f \in Files : live[f] # None}
       IN  IF \E f \in there : row[f].install # None /\ row[f].current # live[f] THEN Fail
           ELSE cmd' = [To("publish") EXCEPT !.todo = there, !.rows =
                  [f \in Files |-> IF row[f].install # None THEN row[f]
                                   ELSE [install |-> live[f], current |-> live[f], drifted |-> FALSE]]]
    /\ UNCHANGED <<disk, row, cluster, left, touched>>

ReindexPublish(f) ==
    /\ At("publish") /\ f \in cmd.todo
    /\ LET todo == cmd.todo \ {f}
       IN  Publish(f, cmd.rows[f].install, cmd.rows[f].current,
                   [To(IF todo = {} THEN "next" ELSE "publish") EXCEPT !.todo = todo])
    /\ UNCHANGED <<disk, cluster, touched>>

ReindexNothing ==
    /\ At("publish") /\ cmd.todo = {}
    /\ cmd' = To("next")
    /\ UNCHANGED <<disk, row, cluster, left, touched>>

(***************************************************************************)
(* The environment: a crash, the user, the inventory's drift scan.         *)
(***************************************************************************)
Crash ==
    /\ ~At("idle") /\ Fault("crash")
    /\ Fail
    /\ UNCHANGED <<disk, row, cluster, touched>>

\* A reindexed library has files without a row.
ForgetRow(f) ==
    /\ row[f].install # None /\ journal[f] = NoEntry /\ At("idle") /\ Fault("touch")
    /\ row' = [row EXCEPT ![f] = [install |-> None, current |-> None, drifted |-> FALSE]]
    /\ touched' = touched \cup {f}
    /\ UNCHANGED <<disk, cluster, cmd>>

\* The user overwrites or deletes a file of the library.
UserChanges(f) ==
    /\ Fault("touch")
    /\ \E c \in {"user", None} : live' = [live EXCEPT ![f] = c]
    /\ touched' = touched \cup {f}
    /\ UNCHANGED <<backup, converting, journal, row, cluster, cmd>>

\* encode pause, and the operator clearing a lock left by a failed command.
TogglePause ==
    /\ Fault("touch")
    /\ cluster' = [cluster EXCEPT !.pause = ~@]
    /\ UNCHANGED <<disk, row, cmd, touched>>

ClearLock ==
    /\ At("idle") /\ cluster.lock
    /\ cluster' = [cluster EXCEPT !.lock = FALSE]
    /\ UNCHANGED <<disk, row, cmd, left, touched>>

ObserveDrift(f) ==
    /\ row[f].install # None /\ row[f].drifted # (live[f] # row[f].current)
    /\ row' = [row EXCEPT ![f].drifted = ~@]
    /\ UNCHANGED <<disk, cluster, cmd, left, touched>>

CommandStep ==
    \/ \E f \in Files : Recover(f) \/ ConsiderFile(f) \/ ReindexPublish(f)
    \/ DropRecovered \/ LoadRows \/ BeginMaintenance \/ Convert \/ CreateJournal \/ WriteJournal
    \/ BackUp \/ Rename \/ RecordReplace \/ ClearJournal \/ FinishCommand
    \/ ReindexScan \/ ReindexNothing

Environment ==
    \/ Crash \/ TogglePause \/ ClearLock
    \/ \E f \in Files : ForgetRow(f) \/ UserChanges(f) \/ ObserveDrift(f)

Next ==
    \/ \E f \in Files : StartEncode({f})
    \/ StartEncode(Files) \/ StartReindex
    \/ CommandStep \/ Environment

Spec == Init /\ [][Next]_vars

(***************************************************************************)
(* Properties.                                                             *)
(***************************************************************************)
Contents == {Original[f] : f \in Files} \cup {Converted, "user", None}

\* Types, and the steps that concern a file know which one.
EncodeTypeOK ==
    /\ live \in [Files -> Contents] /\ backup \in [Files -> Contents]
    /\ converting \in [Files -> {Converted, None}]
    /\ \A f \in Files : row[f].install \in Contents /\ row[f].current \in Contents
    /\ cmd.pc \in {"convert", "journal", "write", "backup", "rename", "record", "clear", "drop"}
         => cmd.file \in Files
    /\ cmd.pc \in {"journal", "write", "backup", "rename"}
         => cmd.maint /\ converting[cmd.file] = Converted

\* At every moment, crashes included, the bytes of a file nobody touched are
\* the ones its proof names, or a synced journal entry leads from one to the
\* other.
ProofOrJournal ==
    \A f \in Files \ touched :
        \/ live[f] = row[f].current
        \/ /\ journal[f].state = "synced"
           /\ journal[f].cur = live[f] /\ journal[f].prev = row[f].current

\* The original of an untouched file is never lost: it is live or backed up.
OriginalKept ==
    \A f \in Files \ touched : Original[f] \in {live[f], backup[f]}

\* install_b3 is written once; encoding and reindexing only move current_b3.
KeepsInstallProof ==
    \A f \in Files : row[f].install # None /\ row'[f].install # None
      => row'[f].install = row[f].install

\* The operator runs encode again as long as something is left.
LiveSpec == Spec /\ WF_vars(CommandStep) /\ SF_vars(StartEncode(Files))

\* API errors and failed conversions are survived: every convertible movie
\* ends up converted, with its proof published and its journal gone.
AllConverted ==
    \A f \in Files : KindOf[f] = "movie" /\ Classify("movie", RawOf[Original[f]]) = "nvenc" =>
        live[f] = Converted /\ row[f].current = Converted /\ journal[f] = NoEntry
EncodeConverges == <>[]AllConverted
=============================================================================
