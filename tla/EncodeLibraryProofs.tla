------------------------ MODULE EncodeLibraryProofs ------------------------
(***************************************************************************)
(* Proofs about encode run and library reindex, for any library, any       *)
(* probe results and any number of crashes, faults and edits.              *)
(***************************************************************************)
EXTENDS EncodeLibrary, TLAPS

Row == [install : Contents, current : Contents, drifted : BOOLEAN]
Entry == [state : {"none", "torn", "synced"}, install : Contents, prev : Contents, cur : Contents]
Snapshots == [Files -> Row] \cup {<<>>}
Pcs == {"idle", "recover", "drop", "next", "maintenance", "convert", "journal", "write", "backup", "rename",
        "record", "clear", "scan", "publish"}
Command == [pc : Pcs, file : Files \cup {None}, todo : SUBSET Files, was : BOOLEAN, maint : BOOLEAN,
            sel : BOOLEAN, rows : Snapshots]

\* The full types.
Types ==
    /\ live \in [Files -> Contents] /\ backup \in [Files -> Contents]
    /\ converting \in [Files -> {Converted, None}]
    /\ journal \in [Files -> Entry]
    /\ row \in [Files -> Row]
    /\ cluster \in [lock : BOOLEAN, pause : BOOLEAN]
    /\ cmd \in Command

\* Up to the rename the bytes are the ones the proof names; from the conversion
\* on the Cluster is locked.
Before == {"maintenance", "convert", "journal", "write", "backup", "rename"}
Holding == {"convert", "journal", "write", "backup", "rename", "record", "clear"}

\* What the steps of a command know.
CommandInv ==
    /\ At("idle") => cmd = Idle
    /\ cmd.pc \in Holding => cmd.maint
    /\ cmd.pc \in Holding \cup {"drop"} => cmd.file \in Files
    /\ cmd.pc \in {"journal", "write", "backup", "rename"} => converting[cmd.file] = Converted
    /\ cmd.todo # {} => cmd.rows \in [Files -> Row]
    /\ cmd.pc \in Before /\ cmd.file # None => cmd.file \in cmd.todo
    /\ At("scan") => cmd.file = None

\* The rows a command read are still the Home API's, but for the file whose
\* proof it is publishing.
Unchanged == IF cmd.pc \in {"record", "clear"} THEN cmd.todo \ {cmd.file} ELSE cmd.todo
RowsInv ==
    cmd.pc \in Before \cup {"next", "record", "clear"} =>
        \A f \in Unchanged \ touched : cmd.rows[f].current = row[f].current

\* The file at hand, as long as no user touches it.
FileInv ==
    cmd.file \in Files \ touched =>
        LET f == cmd.file IN
        /\ cmd.pc \in Before \cup {"drop", "clear"} => live[f] = row[f].current
        /\ cmd.pc \in {"backup", "rename"} =>
              /\ journal[f].state = "synced"
              /\ journal[f].prev = row[f].current /\ journal[f].cur = converting[f]
        /\ At("rename") => backup[f] = live[f]

\* The inductive invariant.
EncodeInv == Types /\ CommandInv /\ RowsInv /\ FileInv /\ ProofOrJournal /\ OriginalKept

\* The state without the command.
Outside ==
    /\ live \in [Files -> Contents] /\ backup \in [Files -> Contents]
    /\ converting \in [Files -> {Converted, None}]
    /\ journal \in [Files -> Entry]
    /\ row \in [Files -> Row]
    /\ cluster \in [lock : BOOLEAN, pause : BOOLEAN]
    /\ ProofOrJournal /\ OriginalKept

\* What the command relies on.
Inside == cmd \in Command /\ CommandInv /\ RowsInv /\ FileInv

-----------------------------------------------------------------------------
(* Facts about the parts *)

\* The invariant is what holds of the library's files and rows, and of the commands
\* working on them.
LEMMA Split ==
    /\ EncodeInv <=> Outside /\ Inside
    /\ EncodeInv' <=> Outside' /\ Inside'
BY DEF EncodeInv, Outside, Inside, Types

\* The values the actions write have the types of the variables they are written
\* to.
LEMMA ConstantTypes ==
    /\ None \in Contents /\ Converted \in Contents /\ "user" \in Contents
    /\ NoEntry \in Entry /\ Idle \in Command
<1>1. None \in Contents /\ Converted \in Contents /\ "user" \in Contents
  BY DEF Contents
<1>2. NoEntry \in Entry
  BY <1>1 DEF NoEntry, Entry
<1>3. <<>> \in Snapshots
  BY DEF Snapshots
<1>4. Idle \in Command
  BY <1>3 DEF Idle, Command, Pcs
<1> QED BY <1>1, <1>2, <1>4

\* A command that has ended, or died, relies on nothing.
LEMMA Ended ==
    ASSUME EncodeAssumption, cmd' = Idle, Outside'
    PROVE  EncodeInv'
<1>1. cmd' \in Command /\ cmd'.pc = "idle" /\ cmd'.file = None /\ cmd'.todo = {}
  BY ConstantTypes DEF Idle
<1>2. CommandInv'
  BY <1>1 DEF CommandInv, At, Holding, Before
<1>3. RowsInv' /\ FileInv'
  BY <1>1 DEF RowsInv, Before, FileInv, EncodeAssumption
<1> QED BY <1>1, <1>2, <1>3, Split DEF Inside

\* Steps that change neither files nor proofs nor what the user touched.
LEMMA OutsideFrame ==
    ASSUME Outside, UNCHANGED <<live, backup, converting, journal, row, cluster, touched>>
    PROVE  Outside'
BY DEF Outside, ProofOrJournal, OriginalKept

\* publish_rows writes the digest of the bytes that are there, or nothing.
LEMMA PublishFacts ==
    ASSUME Types, NEW f \in Files, NEW install \in Contents, NEW current \in Contents, NEW next,
           Publish(f, install, current, next)
    PROVE  /\ row' \in [Files -> Row]
           /\ \A g \in Files \ {f} : row'[g] = row[g]
           /\ row' = row \/ (row'[f].current = live[f] /\ row'[f].install = install
                             /\ row[f].install \in {None, install})
           /\ cmd' = Idle \/ (cmd' = next /\ row'[f].current = live[f] /\ live[f] # None)
<1> DEFINE new == [row EXCEPT ![f] = [install |-> install, current |-> current, drifted |-> FALSE]]
           ok == live[f] = current /\ current # None /\ row[f].install \in {None, install}
<1>1. /\ new \in [Files -> Row] /\ \A g \in Files \ {f} : new[g] = row[g]
      /\ new[f].current = current /\ new[f].install = install
  BY DEF Types, Row
<1>2. \/ ok /\ row' = new /\ cmd' = next
      \/ ~ok /\ cmd' = Idle /\ row' = row
      \/ ok /\ row' \in {row, new} /\ cmd' = Idle
  BY DEF Publish, Fail
<1>3. row \in [Files -> Row]
  BY DEF Types
<1> HIDE DEF new
<1> QED BY <1>1, <1>2, <1>3

\* So publishing keeps every file proved or journalled.
LEMMA PublishOutside ==
    ASSUME Outside, NEW f \in Files, row' \in [Files -> Row], \A g \in Files \ {f} : row'[g] = row[g],
           row' = row \/ row'[f].current = live[f],
           UNCHANGED <<live, backup, converting, journal, cluster, touched>>
    PROVE  Outside'
<1>1. ProofOrJournal'
  BY DEF Outside, ProofOrJournal
<1> QED BY <1>1 DEF Outside, OriginalKept

\* The initial library, with no command running.
LEMMA InitInv ==
    ASSUME EncodeAssumption, Init
    PROVE  EncodeInv
<1>1. \A f \in Files : Original[f] \in Contents
  BY DEF Contents
<1>2. Original \in [Files -> Contents]
  BY <1>1 DEF EncodeAssumption
<1>3. /\ live \in [Files -> Contents] /\ backup \in [Files -> Contents]
      /\ converting \in [Files -> {Converted, None}] /\ journal \in [Files -> Entry]
  BY <1>2, ConstantTypes DEF Init
<1>4. row \in [Files -> Row] /\ cluster \in [lock : BOOLEAN, pause : BOOLEAN]
  BY <1>1 DEF Init, Row
<1>5. ProofOrJournal /\ OriginalKept
  BY DEF Init, ProofOrJournal, OriginalKept
<1>6. cmd \in Command /\ cmd.pc = "idle" /\ cmd.file = None /\ cmd.todo = {} /\ cmd = Idle
  BY ConstantTypes DEF Init, Idle
<1>7. Inside
  BY <1>6 DEF Inside, CommandInv, At, Holding, Before, RowsInv, FileInv, EncodeAssumption
<1> QED BY <1>3, <1>4, <1>5, <1>7, Split DEF Outside

-----------------------------------------------------------------------------
(* Starting, recovering and choosing a file *)

\* An encode starts with the rows it read; nothing of the library changes.
LEMMA StartEncodeInv ==
    ASSUME EncodeAssumption, EncodeInv, NEW selected \in SUBSET Files, StartEncode(selected)
    PROVE  EncodeInv'
<1>1. row \in Snapshots /\ row \in [Files -> Row]
  BY DEF EncodeInv, Types, Snapshots
<1>2. /\ cmd' \in Command /\ cmd'.pc = "recover" /\ cmd'.file = None /\ cmd'.rows = row
  BY <1>1, ConstantTypes DEF StartEncode, Command, Idle, Pcs
<1>3. Outside'
  BY Split, OutsideFrame DEF StartEncode, disk
<1>4. Inside'
  BY <1>1, <1>2 DEF Inside, CommandInv, At, Holding, Before, RowsInv, FileInv, EncodeAssumption, StartEncode
<1> QED BY <1>3, <1>4, Split

\* A reindex starts; nothing of the library changes.
LEMMA StartReindexInv ==
    ASSUME EncodeAssumption, EncodeInv, StartReindex
    PROVE  EncodeInv'
<1>1. cmd = Idle /\ cmd \in Command
  BY DEF EncodeInv, CommandInv, StartReindex, Types
<1>2. cmd' \in Command /\ cmd'.pc = "maintenance" /\ cmd'.file = None /\ cmd'.todo = {}
  BY <1>1 DEF StartReindex, To, Idle, Command, Pcs
<1>3. Outside'
  BY Split, OutsideFrame DEF StartReindex, disk
<1>4. Inside'
  BY <1>2 DEF Inside, CommandInv, At, Holding, Before, RowsInv, FileInv, EncodeAssumption, Unchanged
<1> QED BY <1>3, <1>4, Split

\* Recovery completes the proof of a conversion the journal shows finished, or
\* leaves it to be dropped.
LEMMA RecoverInv ==
    ASSUME EncodeAssumption, EncodeInv, NEW f \in Files, Recover(f)
    PROVE  EncodeInv'
<1> DEFINE drop == [To("drop") EXCEPT !.file = f]
<1>1. Types /\ Outside /\ Inside /\ At("recover") /\ UNCHANGED <<live, backup, converting, journal, cluster, touched>>
  BY Split DEF EncodeInv, Recover, disk
<1>2. /\ drop \in Command /\ drop.pc = "drop" /\ drop.file = f /\ drop.todo = cmd.todo /\ drop.rows = cmd.rows
  BY <1>1 DEF Types, To, Command, Pcs
<1> HIDE DEF drop
<1>3. ASSUME cmd' = drop, Outside', f \notin touched => live[f] = row'[f].current PROVE EncodeInv'
  <2>1. CommandInv'
    BY <1>1, <1>2, <1>3 DEF Inside, CommandInv, At, Holding, Before
  <2>2. RowsInv' /\ FileInv'
    BY <1>1, <1>2, <1>3 DEF RowsInv, Before, FileInv, At
  <2> QED BY <1>2, <1>3, <2>1, <2>2, Split DEF Inside
<1>4. CASE RecoverRefuses(f) /\ Fail /\ UNCHANGED <<row, left>>
  BY <1>1, <1>4, OutsideFrame, Ended DEF Fail
<1>5. CASE /\ ~RecoverRefuses(f) /\ live[f] = journal[f].cur
           /\ Publish(f, journal[f].install, journal[f].cur, drop)
  <2>1. journal[f].install \in Contents /\ journal[f].cur \in Contents
    BY <1>1 DEF Types, Entry
  <2>2. /\ row' \in [Files -> Row] /\ \A g \in Files \ {f} : row'[g] = row[g]
        /\ row' = row \/ row'[f].current = live[f]
        /\ cmd' = Idle \/ (cmd' = drop /\ row'[f].current = live[f])
    BY <1>1, <1>5, <2>1, PublishFacts
  <2>3. Outside'
    BY <1>1, <2>2, PublishOutside
  <2> QED BY <1>3, <2>2, <2>3, Ended
<1>6. CASE ~RecoverRefuses(f) /\ live[f] # journal[f].cur /\ cmd' = drop /\ UNCHANGED <<row, left>>
  <2>1. Outside'
    BY <1>1, <1>6, OutsideFrame
  <2>2. f \notin touched => live[f] = row'[f].current
    BY <1>1, <1>6 DEF Outside, ProofOrJournal
  <2> QED BY <1>3, <1>6, <2>1, <2>2
<1> QED BY <1>4, <1>5, <1>6 DEF Recover, drop

\* The journal entry goes once its proof is completed or its conversion never took
\* effect.
LEMMA DropRecoveredInv ==
    ASSUME EncodeAssumption, EncodeInv, DropRecovered
    PROVE  EncodeInv'
<1> DEFINE f == cmd.file
<1>1. Types /\ Outside /\ Inside /\ At("drop") /\ UNCHANGED <<live, backup, converting, row, cluster, touched>>
  BY Split DEF EncodeInv, DropRecovered
<1>2. f \in Files /\ (f \notin touched => live[f] = row[f].current)
  BY <1>1 DEF Inside, CommandInv, FileInv, At
<1>3. cmd' \in Command /\ cmd'.pc = "recover" /\ cmd'.file = f /\ cmd'.todo = cmd.todo /\ cmd'.rows = cmd.rows
  BY <1>1 DEF DropRecovered, Types, To, Command, Pcs
<1>4. journal' \in [Files -> Entry] /\ \A g \in Files \ {f} : journal'[g] = journal[g]
  BY <1>1, <1>2, ConstantTypes DEF DropRecovered, Types
<1>5. Outside'
  BY <1>1, <1>2, <1>4 DEF Outside, ProofOrJournal, OriginalKept
<1>6. Inside'
  BY <1>1, <1>3 DEF Inside, CommandInv, At, Holding, Before, RowsInv, FileInv
<1> QED BY <1>5, <1>6, Split

\* The files to consider are rows of proofs, read when nothing waits for recovery.
LEMMA LoadRowsInv ==
    ASSUME EncodeAssumption, EncodeInv, LoadRows
    PROVE  EncodeInv'
<1> DEFINE rows == {f \in cmd.todo \cap Rows(FALSE) : cmd.sel \/ KindOf[f] = "movie"}
<1>1. Types /\ Outside /\ Inside /\ Outside' /\ UNCHANGED <<row, touched>>
  BY Split, OutsideFrame DEF EncodeInv, LoadRows, disk
<1>2. rows \in SUBSET Files
  BY DEF Rows
<1>3. row \in Snapshots /\ row \in [Files -> Row]
  BY <1>1 DEF Types, Snapshots
<1>4. cmd' = Idle \/ cmd' = [To("next") EXCEPT !.todo = rows, !.rows = row]
  BY DEF LoadRows, Fail
<1> HIDE DEF rows
<1>5. CASE cmd' = [To("next") EXCEPT !.todo = rows, !.rows = row]
  <2>1. cmd' \in Command /\ cmd'.pc = "next" /\ cmd'.rows = row
    BY <1>1, <1>2, <1>3, <1>5 DEF Types, To, Command, Pcs
  <2>2. Inside'
    BY <1>1, <1>3, <2>1 DEF Inside, CommandInv, At, Holding, Before, RowsInv, FileInv
  <2> QED BY <1>1, <2>2, Split
<1> QED BY <1>1, <1>4, <1>5, Ended

\* What choosing a file may do to the command.
LEMMA ConsiderFacts ==
    ASSUME Types, NEW f \in Files, ConsiderFile(f)
    PROVE  \/ cmd' = [cmd EXCEPT !.todo = @ \ {f}]
           \/ cmd' = Idle
           \/ /\ live[f] = cmd.rows[f].current
              /\ \E pc \in {"convert", "maintenance"} :
                   /\ cmd' = [To(pc) EXCEPT !.file = f]
                   /\ pc = "convert" => cmd.maint
<1> DEFINE decision == Classify(KindOf[f], RawOf[live[f]])
<1>1. decision \in {"keep", "refuse", "nvenc"}
  BY DEF Classify
<1> HIDE DEF decision
<1>2. \/ Skip(f)
      \/ IF live[f] # cmd.rows[f].current THEN Fail
         ELSE CASE decision = "keep" -> Skip(f)
                [] decision = "refuse" -> (IF cmd.sel THEN Fail ELSE Skip(f))
                [] decision = "nvenc" -> cmd' = [To(IF cmd.maint THEN "convert" ELSE "maintenance") EXCEPT !.file = f]
  BY DEF ConsiderFile, decision
<1> QED BY <1>1, <1>2 DEF Skip, Fail

\* A file is taken only when it still is what its row says.
LEMMA ConsiderFileInv ==
    ASSUME EncodeAssumption, EncodeInv, NEW f \in Files, ConsiderFile(f)
    PROVE  EncodeInv'
<1>1. /\ Types /\ Outside /\ Inside /\ At("next") /\ f \in cmd.todo /\ Outside'
      /\ UNCHANGED <<live, row, touched, journal, backup, converting>>
  BY Split, OutsideFrame DEF EncodeInv, ConsiderFile, disk
<1>2. CASE cmd' = [cmd EXCEPT !.todo = @ \ {f}]
  <2>1. /\ cmd' \in Command /\ cmd'.pc = "next" /\ cmd'.todo = cmd.todo \ {f} /\ cmd'.rows = cmd.rows
        /\ cmd'.file = cmd.file
    BY <1>1, <1>2 DEF Types, Command, At
  <2>2. Inside'
    BY <1>1, <2>1 DEF Inside, CommandInv, At, Holding, Before, RowsInv, FileInv, Unchanged
  <2> QED BY <1>1, <2>2, Split
<1>3. ASSUME live[f] = cmd.rows[f].current, NEW pc \in {"convert", "maintenance"},
             cmd' = [To(pc) EXCEPT !.file = f], pc = "convert" => cmd.maint
      PROVE  EncodeInv'
  <2>1. /\ cmd' \in Command /\ cmd'.pc = pc /\ cmd'.todo = cmd.todo /\ cmd'.rows = cmd.rows
        /\ cmd'.file = f /\ cmd'.maint = cmd.maint
    BY <1>1, <1>3 DEF Types, To, Command, Pcs
  <2>2. f \notin touched => live[f] = row[f].current
    BY <1>1, <1>3 DEF Inside, RowsInv, At, Unchanged
  <2>3. CommandInv'
    BY <1>1, <1>3, <2>1 DEF Inside, CommandInv, At, Holding, Before
  <2>4. RowsInv'
    BY <1>1, <1>3, <2>1 DEF Inside, RowsInv, At, Before, Unchanged
  <2>5. FileInv'
    BY <1>1, <1>3, <2>1, <2>2 DEF FileInv, At
  <2> QED BY <1>1, <2>1, <2>3, <2>4, <2>5, Split DEF Inside
<1> QED BY <1>1, <1>2, <1>3, ConsiderFacts, Ended

-----------------------------------------------------------------------------
(* Converting and replacing a file *)

\* The lock is taken, with the file at hand or for a reindex without one.
LEMMA BeginMaintenanceInv ==
    ASSUME EncodeAssumption, EncodeInv, BeginMaintenance
    PROVE  EncodeInv'
<1> DEFINE pc == IF cmd.file = None THEN "scan" ELSE "convert"
<1>1. /\ Types /\ Outside /\ Inside /\ At("maintenance")
      /\ UNCHANGED <<live, backup, converting, journal, row, touched>>
  BY Split DEF EncodeInv, BeginMaintenance, disk
<1>2. \/ cluster' = [cluster EXCEPT !.lock = TRUE] /\ cmd' = [To(pc) EXCEPT !.maint = TRUE, !.was = cluster.lock]
      \/ cmd' = Idle /\ cluster' \in {cluster, [cluster EXCEPT !.lock = TRUE]}
  BY DEF BeginMaintenance, Fail
<1>3. cluster' \in [lock : BOOLEAN, pause : BOOLEAN] /\ cluster.lock \in BOOLEAN
  BY <1>1, <1>2 DEF Types
<1>4. Outside'
  BY <1>1, <1>3 DEF Outside, ProofOrJournal, OriginalKept
<1>5. CASE cmd' = [To(pc) EXCEPT !.maint = TRUE, !.was = cluster.lock]
  <2>1. /\ cmd' \in Command /\ cmd'.pc = pc /\ cmd'.todo = cmd.todo /\ cmd'.rows = cmd.rows
        /\ cmd'.file = cmd.file /\ cmd'.maint
    BY <1>1, <1>3, <1>5 DEF Types, To, Command, Pcs
  <2>2. pc \in {"scan", "convert"} /\ (pc = "scan" <=> cmd.file = None) /\ cmd.file \in Files \cup {None}
    BY <1>1 DEF Types, Command
  <2> HIDE DEF pc
  <2>3. CommandInv'
    BY <1>1, <2>1, <2>2 DEF Inside, CommandInv, At, Holding, Before
  <2>4. RowsInv' /\ FileInv'
    BY <1>1, <2>1, <2>2 DEF Inside, RowsInv, FileInv, At, Before, Unchanged
  <2> QED BY <1>4, <2>1, <2>3, <2>4, Split DEF Inside
<1> QED BY <1>2, <1>4, <1>5, Ended

\* The conversion is a file of its own.
LEMMA ConvertInv ==
    ASSUME EncodeAssumption, EncodeInv, Convert
    PROVE  EncodeInv'
<1>1. Types /\ Outside /\ Inside /\ At("convert") /\ UNCHANGED <<live, backup, journal, row, cluster, touched>>
  BY Split DEF EncodeInv, Convert
<1>2. cmd.file \in Files /\ cmd.maint
  BY <1>1 DEF Inside, CommandInv, At, Holding
<1>3. \/ converting' = [converting EXCEPT ![cmd.file] = Converted] /\ cmd' = To("journal")
      \/ converting' = [converting EXCEPT ![cmd.file] = None] /\ cmd' = Idle
  BY DEF Convert, Fail
<1>4. converting' \in [Files -> {Converted, None}]
  BY <1>1, <1>3 DEF Types
<1>5. Outside'
  BY <1>1, <1>4 DEF Outside, ProofOrJournal, OriginalKept
<1>6. CASE converting' = [converting EXCEPT ![cmd.file] = Converted] /\ cmd' = To("journal")
  <2>1. /\ cmd' \in Command /\ cmd'.pc = "journal" /\ cmd'.todo = cmd.todo /\ cmd'.rows = cmd.rows
        /\ cmd'.file = cmd.file /\ cmd'.maint = cmd.maint
    BY <1>1, <1>6 DEF Types, To, Command, Pcs
  <2>2. converting'[cmd.file] = Converted
    BY <1>1, <1>2, <1>6 DEF Types
  <2>3. CommandInv'
    BY <1>1, <1>2, <2>1, <2>2 DEF Inside, CommandInv, At, Holding, Before
  <2>4. RowsInv' /\ FileInv'
    BY <1>1, <2>1 DEF Inside, RowsInv, FileInv, At, Before, Unchanged
  <2> QED BY <1>5, <2>1, <2>3, <2>4, Split DEF Inside
<1> QED BY <1>3, <1>5, <1>6, Ended

\* The entry of the file at hand may be anything as long as its bytes are proved.
LEMMA JournalOutside ==
    ASSUME Outside, NEW f \in Files, NEW e \in Entry, journal' = [journal EXCEPT ![f] = e],
           f \notin touched => live[f] = row[f].current,
           UNCHANGED <<live, backup, converting, row, cluster, touched>>
    PROVE  Outside' /\ journal'[f] = e
<1>1. journal' \in [Files -> Entry] /\ journal'[f] = e /\ \A g \in Files \ {f} : journal'[g] = journal[g]
  BY DEF Outside
<1>2. ProofOrJournal'
  BY <1>1 DEF Outside, ProofOrJournal
<1> QED BY <1>1, <1>2 DEF Outside, OriginalKept

\* The entry exists, still empty.
LEMMA CreateJournalInv ==
    ASSUME EncodeAssumption, EncodeInv, CreateJournal
    PROVE  EncodeInv'
<1> DEFINE e == [NoEntry EXCEPT !.state = "torn"]
<1>1. Types /\ Outside /\ Inside /\ At("journal") /\ UNCHANGED <<live, backup, converting, row, cluster, touched>>
  BY Split DEF EncodeInv, CreateJournal
<1>2. cmd.file \in Files /\ (cmd.file \notin touched => live[cmd.file] = row[cmd.file].current)
  BY <1>1 DEF Inside, CommandInv, FileInv, At, Holding, Before
<1>3. e \in Entry
  BY ConstantTypes DEF Entry, NoEntry
<1>4. Outside'
  BY <1>1, <1>2, <1>3, JournalOutside DEF CreateJournal
<1>5. /\ cmd' \in Command /\ cmd'.pc = "write" /\ cmd'.todo = cmd.todo /\ cmd'.rows = cmd.rows
      /\ cmd'.file = cmd.file /\ cmd'.maint = cmd.maint
  BY <1>1 DEF CreateJournal, Types, To, Command, Pcs
<1>6. CommandInv'
  BY <1>1, <1>5 DEF Inside, CommandInv, At, Holding, Before
<1>7. RowsInv' /\ FileInv'
  BY <1>1, <1>5 DEF Inside, RowsInv, FileInv, At, Before, Unchanged
<1> QED BY <1>4, <1>5, <1>6, <1>7, Split DEF Inside

\* The entry leads from the published digest to the conversion's.
LEMMA WriteJournalInv ==
    ASSUME EncodeAssumption, EncodeInv, WriteJournal
    PROVE  EncodeInv'
<1> DEFINE f == cmd.file
           e == [state |-> "synced", install |-> cmd.rows[f].install,
                 prev |-> cmd.rows[f].current, cur |-> converting[f]]
<1>1. Types /\ Outside /\ Inside /\ At("write") /\ UNCHANGED <<live, backup, converting, row, cluster, touched>>
  BY Split DEF EncodeInv, WriteJournal
<1>2. /\ f \in Files /\ (f \notin touched => live[f] = row[f].current)
      /\ f \in cmd.todo /\ converting[f] = Converted
  BY <1>1 DEF Inside, CommandInv, FileInv, At, Holding, Before, EncodeAssumption
<1>3. cmd.rows \in [Files -> Row] /\ (f \notin touched => cmd.rows[f].current = row[f].current)
  BY <1>1, <1>2 DEF Inside, CommandInv, RowsInv, At, Before, Unchanged
<1>4. e \in Entry
  BY <1>2, <1>3, ConstantTypes DEF Entry, Row
<1>5. e.state = "synced" /\ e.prev = cmd.rows[f].current /\ e.cur = converting[f]
  OBVIOUS
<1>6. journal' = [journal EXCEPT ![f] = e]
  BY DEF WriteJournal
<1>7. /\ cmd' \in Command /\ cmd'.pc = "backup" /\ cmd'.todo = cmd.todo /\ cmd'.rows = cmd.rows
      /\ cmd'.file = f /\ cmd'.maint = cmd.maint
  BY <1>1 DEF WriteJournal, Types, To, Command, Pcs
<1> HIDE DEF e
<1>8. Outside' /\ journal'[f] = e
  BY <1>1, <1>2, <1>4, <1>6, JournalOutside
<1>9. CommandInv'
  BY <1>1, <1>7 DEF Inside, CommandInv, At, Holding, Before
<1>10. RowsInv'
  BY <1>1, <1>7 DEF Inside, RowsInv, At, Before, Unchanged
<1>11. FileInv'
  BY <1>1, <1>2, <1>3, <1>5, <1>7, <1>8 DEF FileInv, At
<1> QED BY <1>7, <1>8, <1>9, <1>10, <1>11, Split DEF Inside

\* The backup is made while there is none, so the original is still live.
LEMMA BackUpInv ==
    ASSUME EncodeAssumption, EncodeInv, BackUp
    PROVE  EncodeInv'
<1> DEFINE f == cmd.file
<1>1. Types /\ Outside /\ Inside /\ At("backup") /\ UNCHANGED <<live, converting, journal, row, cluster, touched>>
  BY Split DEF EncodeInv, BackUp
<1>2. f \in Files
  BY <1>1 DEF Inside, CommandInv, At, Holding
<1>3. \/ cmd' = Idle /\ backup' = backup
      \/ backup[f] = None /\ backup' = [backup EXCEPT ![f] = live[f]] /\ cmd' = To("rename")
  BY DEF BackUp, Fail
<1>4. /\ backup' \in [Files -> Contents] /\ \A g \in Files \ {f} : backup'[g] = backup[g]
      /\ backup'[f] = backup[f] \/ (backup[f] = None /\ backup'[f] = live[f])
  BY <1>1, <1>2, <1>3 DEF Types
<1>5. OriginalKept'
  BY <1>1, <1>4 DEF Outside, OriginalKept, EncodeAssumption
<1>6. Outside'
  BY <1>1, <1>4, <1>5 DEF Outside, ProofOrJournal
<1>7. CASE backup' = [backup EXCEPT ![f] = live[f]] /\ cmd' = To("rename")
  <2>1. /\ cmd' \in Command /\ cmd'.pc = "rename" /\ cmd'.todo = cmd.todo /\ cmd'.rows = cmd.rows
        /\ cmd'.file = f /\ cmd'.maint = cmd.maint
    BY <1>1, <1>7 DEF Types, To, Command, Pcs
  <2>2. backup'[f] = live[f]
    BY <1>1, <1>2, <1>7 DEF Types
  <2>3. CommandInv'
    BY <1>1, <2>1 DEF Inside, CommandInv, At, Holding, Before
  <2>4. RowsInv' /\ FileInv'
    BY <1>1, <2>1, <2>2 DEF Inside, RowsInv, FileInv, At, Before, Unchanged
  <2> QED BY <1>6, <2>1, <2>3, <2>4, Split DEF Inside
<1> QED BY <1>3, <1>6, <1>7, Ended

\* The conversion takes the live name: the entry already names both digests.
LEMMA RenameInv ==
    ASSUME EncodeAssumption, EncodeInv, Rename
    PROVE  EncodeInv'
<1> DEFINE f == cmd.file
<1>1. Types /\ Outside /\ Inside /\ At("rename") /\ UNCHANGED <<journal, row, cluster, touched>>
  BY Split DEF EncodeInv, Rename
<1>2. f \in Files /\ converting[f] = Converted
  BY <1>1 DEF Inside, CommandInv, At, Holding
<1>3. f \notin touched => /\ live[f] = row[f].current /\ journal[f].state = "synced"
                          /\ journal[f].prev = row[f].current /\ journal[f].cur = converting[f]
                          /\ backup[f] = live[f]
  BY <1>1, <1>2 DEF Inside, FileInv, At, Before
<1>4. CASE /\ live' = [live EXCEPT ![f] = converting[f]] /\ backup' = backup
           /\ converting' = [converting EXCEPT ![f] = None] /\ cmd' = To("record")
  <2>1. /\ live' \in [Files -> Contents] /\ live'[f] = converting[f] /\ \A g \in Files \ {f} : live'[g] = live[g]
        /\ converting' \in [Files -> {Converted, None}]
    BY <1>1, <1>2, <1>4, ConstantTypes DEF Types
  <2>2. ProofOrJournal'
    BY <1>1, <1>3, <2>1 DEF Outside, ProofOrJournal
  <2>3. OriginalKept'
    BY <1>1, <1>3, <1>4, <2>1 DEF Outside, OriginalKept
  <2>4. Outside'
    BY <1>1, <1>4, <2>1, <2>2, <2>3 DEF Outside
  <2>5. /\ cmd' \in Command /\ cmd'.pc = "record" /\ cmd'.todo = cmd.todo /\ cmd'.rows = cmd.rows
        /\ cmd'.file = f /\ cmd'.maint = cmd.maint
    BY <1>1, <1>4 DEF Types, To, Command, Pcs
  <2>6. CommandInv'
    BY <1>1, <2>5 DEF Inside, CommandInv, At, Holding, Before
  <2>7. RowsInv' /\ FileInv'
    BY <1>1, <2>5 DEF Inside, RowsInv, FileInv, At, Before, Unchanged
  <2> QED BY <2>4, <2>5, <2>6, <2>7, Split DEF Inside
<1>5. CASE cmd' = Idle /\ backup' = [backup EXCEPT ![f] = None] /\ UNCHANGED <<live, converting>>
  <2>1. backup' \in [Files -> Contents] /\ \A g \in Files \ {f} : backup'[g] = backup[g]
    BY <1>1, <1>5, ConstantTypes DEF Types
  <2>2. OriginalKept'
    BY <1>1, <1>3, <1>5, <2>1 DEF Outside, OriginalKept
  <2>3. Outside'
    BY <1>1, <1>5, <2>1, <2>2 DEF Outside, ProofOrJournal
  <2> QED BY <1>5, <2>3, Ended
<1> QED BY <1>4, <1>5 DEF Rename, Fail

\* The digest published is the one of the bytes that are there.
LEMMA RecordReplaceInv ==
    ASSUME EncodeAssumption, EncodeInv, RecordReplace
    PROVE  EncodeInv'
<1> DEFINE f == cmd.file
<1>1. /\ Types /\ Outside /\ Inside /\ At("record")
      /\ UNCHANGED <<live, backup, converting, journal, cluster, touched>>
  BY Split DEF EncodeInv, RecordReplace, disk
<1>2. f \in Files /\ row[f].install \in Contents /\ live[f] \in Contents
  BY <1>1 DEF Inside, CommandInv, At, Holding, Types, Row
<1>3. /\ row' \in [Files -> Row] /\ \A g \in Files \ {f} : row'[g] = row[g]
      /\ row' = row \/ row'[f].current = live[f]
      /\ cmd' = Idle \/ (cmd' = To("clear") /\ row'[f].current = live[f])
  BY <1>1, <1>2, PublishFacts DEF RecordReplace
<1>4. Outside'
  BY <1>1, <1>2, <1>3, PublishOutside
<1>5. CASE cmd' = To("clear") /\ row'[f].current = live[f]
  <2>1. /\ cmd' \in Command /\ cmd'.pc = "clear" /\ cmd'.todo = cmd.todo /\ cmd'.rows = cmd.rows
        /\ cmd'.file = f /\ cmd'.maint = cmd.maint
    BY <1>1, <1>5 DEF Types, To, Command, Pcs
  <2>2. CommandInv'
    BY <1>1, <2>1 DEF Inside, CommandInv, At, Holding, Before
  <2>3. RowsInv'
    <3>1. cmd.todo \in SUBSET Files
      BY <1>1 DEF Types, Command
    <3> QED BY <1>1, <1>3, <2>1, <3>1 DEF Inside, RowsInv, At, Before, Unchanged
  <2>4. FileInv'
    BY <1>1, <1>5, <2>1 DEF FileInv, At, Before
  <2> QED BY <1>4, <2>1, <2>2, <2>3, <2>4, Split DEF Inside
<1> QED BY <1>3, <1>4, <1>5, Ended

\* The entry goes once the digest of the bytes is published.
LEMMA ClearJournalInv ==
    ASSUME EncodeAssumption, EncodeInv, ClearJournal
    PROVE  EncodeInv'
<1> DEFINE f == cmd.file
<1>1. Types /\ Outside /\ Inside /\ At("clear") /\ UNCHANGED <<live, backup, converting, row, cluster, touched>>
  BY Split DEF EncodeInv, ClearJournal
<1>2. f \in Files /\ (f \notin touched => live[f] = row[f].current)
  BY <1>1 DEF Inside, CommandInv, FileInv, At, Holding, Before
<1>3. Outside'
  BY <1>1, <1>2, ConstantTypes, JournalOutside DEF ClearJournal
<1>4. /\ cmd' \in Command /\ cmd'.pc = "next" /\ cmd'.todo = cmd.todo \ {f} /\ cmd'.rows = cmd.rows
      /\ cmd'.file = f /\ cmd'.maint = cmd.maint
  BY <1>1 DEF ClearJournal, Types, To, Command, Pcs
<1>5. CommandInv'
  BY <1>1, <1>4 DEF Inside, CommandInv, At, Holding, Before
<1>6. RowsInv' /\ FileInv'
  BY <1>1, <1>4 DEF Inside, RowsInv, FileInv, At, Before, Unchanged
<1> QED BY <1>3, <1>4, <1>5, <1>6, Split DEF Inside

\* The lock goes back to what it was.
LEMMA FinishCommandInv ==
    ASSUME EncodeAssumption, EncodeInv, FinishCommand
    PROVE  EncodeInv'
<1>1. Types /\ Outside /\ UNCHANGED <<live, backup, converting, journal, row, touched>> /\ cmd' = Idle
  BY Split DEF EncodeInv, FinishCommand, disk
<1>2. cmd.was \in BOOLEAN
  BY <1>1 DEF Types, Command
<1>3. cluster' \in [lock : BOOLEAN, pause : BOOLEAN]
  BY <1>1, <1>2 DEF FinishCommand, Types
<1>4. Outside'
  BY <1>1, <1>3 DEF Outside, ProofOrJournal, OriginalKept
<1> QED BY <1>1, <1>4, Ended

-----------------------------------------------------------------------------
(* library reindex *)

\* A reindex takes the rows of the files it knows and hashes the others.
LEMMA ReindexScanInv ==
    ASSUME EncodeAssumption, EncodeInv, ReindexScan
    PROVE  EncodeInv'
<1> DEFINE there == {f \in Files : live[f] # None}
           rows == [f \in Files |-> IF row[f].install # None THEN row[f]
                                    ELSE [install |-> live[f], current |-> live[f], drifted |-> FALSE]]
<1>1. Types /\ Outside /\ Inside /\ At("scan") /\ Outside' /\ UNCHANGED <<live, row, touched>>
  BY Split, OutsideFrame DEF EncodeInv, ReindexScan, disk
<1>2. \A f \in Files : row[f] \in Row /\ live[f] \in Contents
  BY <1>1 DEF Types
<1>3. rows \in [Files -> Row] /\ there \in SUBSET Files
  BY <1>2 DEF Row
<1>4. cmd' = Idle \/ cmd' = [To("publish") EXCEPT !.todo = there, !.rows = rows]
  BY DEF ReindexScan, Fail
<1> HIDE DEF rows, there
<1>5. CASE cmd' = [To("publish") EXCEPT !.todo = there, !.rows = rows]
  <2>1. cmd' \in Command /\ cmd'.pc = "publish" /\ cmd'.rows = rows /\ cmd'.todo = there
    BY <1>1, <1>3, <1>5 DEF Types, To, Command, Pcs, Snapshots
  <2>2. Inside'
    BY <1>3, <2>1 DEF Inside, CommandInv, At, Holding, Before, RowsInv, FileInv
  <2> QED BY <1>1, <2>2, Split
<1> QED BY <1>1, <1>4, <1>5, Ended

\* ... and publishes them one by one.
LEMMA ReindexPublishInv ==
    ASSUME EncodeAssumption, EncodeInv, NEW f \in Files, ReindexPublish(f)
    PROVE  EncodeInv'
<1> DEFINE todo == cmd.todo \ {f}
           pc == IF todo = {} THEN "next" ELSE "publish"
           next == [To(pc) EXCEPT !.todo = todo]
<1>1. /\ Types /\ Outside /\ Inside /\ At("publish") /\ f \in cmd.todo
      /\ UNCHANGED <<live, backup, converting, journal, cluster, touched>>
  BY Split DEF EncodeInv, ReindexPublish, disk
<1>2. cmd.rows \in [Files -> Row]
  BY <1>1 DEF Inside, CommandInv
<1>3. cmd.rows[f].install \in Contents /\ cmd.rows[f].current \in Contents
  BY <1>2 DEF Row
<1>4. /\ next \in Command /\ next.pc = pc /\ next.rows = cmd.rows /\ next.todo = todo
  BY <1>1 DEF Types, To, Command, Pcs
<1>5. pc \in {"next", "publish"} /\ (pc = "next" => todo = {})
  OBVIOUS
<1>6. Publish(f, cmd.rows[f].install, cmd.rows[f].current, next)
  BY DEF ReindexPublish
<1> HIDE DEF next, pc
<1>7. /\ row' \in [Files -> Row] /\ \A g \in Files \ {f} : row'[g] = row[g]
      /\ row' = row \/ row'[f].current = live[f]
      /\ cmd' = Idle \/ cmd' = next
  BY <1>1, <1>3, <1>6, PublishFacts
<1>8. Outside'
  BY <1>1, <1>7, PublishOutside
<1>9. CASE cmd' = next
  <2>1. Inside'
    BY <1>1, <1>2, <1>4, <1>5, <1>9 DEF Inside, CommandInv, At, Holding, Before, RowsInv, FileInv, Unchanged
  <2> QED BY <1>8, <2>1, Split
<1> QED BY <1>7, <1>8, <1>9, Ended

\* An empty library is indexed at once.
LEMMA ReindexNothingInv ==
    ASSUME EncodeAssumption, EncodeInv, ReindexNothing
    PROVE  EncodeInv'
<1>1. Types /\ Outside /\ Inside /\ At("publish") /\ cmd.todo = {} /\ Outside'
  BY Split, OutsideFrame DEF EncodeInv, ReindexNothing, disk
<1>2. cmd' \in Command /\ cmd'.pc = "next" /\ cmd'.todo = {}
  BY <1>1 DEF ReindexNothing, Types, To, Command, Pcs
<1>3. Inside'
  BY <1>2 DEF Inside, CommandInv, At, Holding, Before, RowsInv, FileInv, Unchanged
<1> QED BY <1>1, <1>3, Split

-----------------------------------------------------------------------------
(* The environment *)

\* A crash leaves the disk and the Home API as they are.
LEMMA CrashInv ==
    ASSUME EncodeAssumption, EncodeInv, Crash
    PROVE  EncodeInv'
BY Split, OutsideFrame, Ended DEF Crash, Fail, disk

\* Nobody relies on a row while no command runs.
LEMMA ForgetRowInv ==
    ASSUME EncodeAssumption, EncodeInv, NEW f \in Files, ForgetRow(f)
    PROVE  EncodeInv'
<1> DEFINE gone == [install |-> None, current |-> None, drifted |-> FALSE]
<1>1. /\ Types /\ Outside /\ Inside /\ At("idle") /\ UNCHANGED <<live, backup, converting, journal, cluster, cmd>>
      /\ row' = [row EXCEPT ![f] = gone] /\ touched' = touched \cup {f}
  BY Split DEF EncodeInv, ForgetRow, disk
<1>2. gone \in Row
  BY ConstantTypes DEF Row
<1> HIDE DEF gone
<1>3. row' \in [Files -> Row] /\ \A g \in Files \ {f} : row'[g] = row[g]
  BY <1>1, <1>2 DEF Types
<1>4. Outside'
  BY <1>1, <1>3 DEF Outside, ProofOrJournal, OriginalKept
<1>5. cmd' = Idle
  BY <1>1 DEF Inside, CommandInv
<1> QED BY <1>4, <1>5, Ended

\* The user's edit is his own: the claims are about the other files.
LEMMA UserChangesInv ==
    ASSUME EncodeAssumption, EncodeInv, NEW f \in Files, UserChanges(f)
    PROVE  EncodeInv'
<1>1. /\ Types /\ Outside /\ Inside /\ UNCHANGED <<backup, converting, journal, row, cluster, cmd>>
      /\ touched' = touched \cup {f}
  BY Split DEF EncodeInv, UserChanges
<1>2. PICK c \in {"user", None} : live' = [live EXCEPT ![f] = c]
  BY DEF UserChanges
<1>3. live' \in [Files -> Contents] /\ \A g \in Files \ {f} : live'[g] = live[g]
  BY <1>1, <1>2, ConstantTypes DEF Types
<1>4. Outside'
  BY <1>1, <1>3 DEF Outside, ProofOrJournal, OriginalKept
<1>5. CommandInv'
  BY <1>1 DEF Inside, CommandInv, At
<1>6. RowsInv' /\ FileInv'
  BY <1>1, <1>3 DEF Inside, RowsInv, FileInv, At, Unchanged
<1> QED BY <1>1, <1>4, <1>5, <1>6, Split DEF Inside

\* The lock and the pause are the operator's.
LEMMA ClusterInv ==
    ASSUME EncodeAssumption, EncodeInv, TogglePause \/ ClearLock
    PROVE  EncodeInv'
<1>1. Types /\ Outside /\ Inside /\ UNCHANGED <<live, backup, converting, journal, row, cmd, touched>>
  BY Split DEF EncodeInv, TogglePause, ClearLock, disk
<1>2. cluster' \in [lock : BOOLEAN, pause : BOOLEAN]
  BY <1>1 DEF TogglePause, ClearLock, Types
<1>3. Outside'
  BY <1>1, <1>2 DEF Outside, ProofOrJournal, OriginalKept
<1>4. Inside'
  BY <1>1 DEF Inside, CommandInv, At, RowsInv, FileInv, Unchanged
<1> QED BY <1>3, <1>4, Split

\* The drift scan marks a row and leaves its digests.
LEMMA ObserveDriftInv ==
    ASSUME EncodeAssumption, EncodeInv, NEW f \in Files, ObserveDrift(f)
    PROVE  EncodeInv' /\ \A g \in Files : row'[g].install = row[g].install
<1>1. /\ Types /\ Outside /\ Inside /\ UNCHANGED <<live, backup, converting, journal, cluster, cmd, touched>>
      /\ row' = [row EXCEPT ![f].drifted = ~@]
  BY Split DEF EncodeInv, ObserveDrift, disk
<1>2. /\ row' \in [Files -> Row]
      /\ \A g \in Files : row'[g].current = row[g].current /\ row'[g].install = row[g].install
  BY <1>1 DEF Types, Row
<1>3. Outside'
  BY <1>1, <1>2 DEF Outside, ProofOrJournal, OriginalKept
<1>4. CommandInv'
  BY <1>1 DEF Inside, CommandInv, At
<1>5. cmd.todo \in SUBSET Files
  BY <1>1 DEF Types, Command
<1>6. RowsInv' /\ FileInv'
  BY <1>1, <1>2, <1>5 DEF Inside, RowsInv, FileInv, At, Unchanged
<1> QED BY <1>1, <1>2, <1>3, <1>4, <1>6, Split DEF Inside

-----------------------------------------------------------------------------
(* The theorems *)

\* Every step of every command, crash and user keeps the invariant.
LEMMA StepInv ==
    ASSUME EncodeAssumption, EncodeInv, [Next]_vars
    PROVE  EncodeInv'
<1>1. CASE Next
  <2>1. ASSUME NEW f \in Files, StartEncode({f}) PROVE EncodeInv'
    BY <2>1, StartEncodeInv
  <2>2. CASE StartEncode(Files)
    BY <2>2, StartEncodeInv
  <2>3. CASE StartReindex
    BY <2>3, StartReindexInv
  <2>4. CASE CommandStep
    <3>1. ASSUME NEW f \in Files, Recover(f) \/ ConsiderFile(f) \/ ReindexPublish(f) PROVE EncodeInv'
      BY <3>1, RecoverInv, ConsiderFileInv, ReindexPublishInv
    <3>2. CASE DropRecovered \/ LoadRows \/ BeginMaintenance \/ Convert \/ CreateJournal \/ WriteJournal
      BY <3>2, DropRecoveredInv, LoadRowsInv, BeginMaintenanceInv, ConvertInv, CreateJournalInv, WriteJournalInv
    <3>3. CASE BackUp \/ Rename \/ RecordReplace \/ ClearJournal \/ FinishCommand
      BY <3>3, BackUpInv, RenameInv, RecordReplaceInv, ClearJournalInv, FinishCommandInv
    <3>4. CASE ReindexScan \/ ReindexNothing
      BY <3>4, ReindexScanInv, ReindexNothingInv
    <3> QED BY <2>4, <3>1, <3>2, <3>3, <3>4 DEF CommandStep
  <2>5. CASE Environment
    <3>1. CASE Crash \/ TogglePause \/ ClearLock
      BY <3>1, CrashInv, ClusterInv
    <3>2. ASSUME NEW f \in Files, ForgetRow(f) \/ UserChanges(f) \/ ObserveDrift(f) PROVE EncodeInv'
      BY <3>2, ForgetRowInv, UserChangesInv, ObserveDriftInv
    <3> QED BY <2>5, <3>1, <3>2 DEF Environment
  <2> QED BY <1>1, <2>1, <2>2, <2>3, <2>4, <2>5 DEF Next
<1>2. CASE UNCHANGED vars
  <2>1. /\ Outside /\ Inside
        /\ UNCHANGED <<live, backup, converting, journal, row, cluster, cmd, touched>>
    BY <1>2, Split DEF vars, disk
  <2>2. Inside'
    BY <2>1 DEF Inside, CommandInv, At, RowsInv, FileInv, Unchanged
  <2> QED BY <2>1, <2>2, OutsideFrame, Split
<1> QED BY <1>1, <1>2

\* The invariant holds in every reachable state of encode run and library
\* reindex, whatever crashes, fails or is edited meanwhile.
THEOREM EncodeInvHolds ==
    ASSUME EncodeAssumption
    PROVE  Spec => []EncodeInv
<1>1. Init => EncodeInv
  BY InitInv
<1>2. EncodeInv /\ [Next]_vars => EncodeInv'
  BY StepInv
<1> QED BY <1>1, <1>2, PTL DEF Spec

\* The commands keep the types of disk and rows, and know their file.
THEOREM EncodeTypeCorrect ==
    ASSUME EncodeAssumption
    PROVE  Spec => []EncodeTypeOK
<1>1. EncodeInv => EncodeTypeOK
  BY DEF EncodeInv, Types, CommandInv, Holding, EncodeTypeOK, Row
<1> QED BY <1>1, EncodeInvHolds, PTL

\* publish_rows and the encode-proofs journal: at every moment, a crash between
\* any two steps included, an untouched file has the digest its row names or a
\* synced entry that leads from that digest to its own.
THEOREM ProofOrJournalHolds ==
    ASSUME EncodeAssumption
    PROVE  Spec => []ProofOrJournal
<1>1. EncodeInv => ProofOrJournal
  BY DEF EncodeInv
<1> QED BY <1>1, EncodeInvHolds, PTL

\* The swap of the conversion for the original: an untouched file's original is
\* live or backed up at every moment.
THEOREM OriginalIsKept ==
    ASSUME EncodeAssumption
    PROVE  Spec => []OriginalKept
<1>1. EncodeInv => OriginalKept
  BY DEF EncodeInv
<1> QED BY <1>1, EncodeInvHolds, PTL

\* No command rewrites a row's install_b3, not even recovering, or reindexing a
\* library whose rows are partly gone.
THEOREM InstallProofIsKept ==
    ASSUME EncodeAssumption
    PROVE  Spec => [][KeepsInstallProof]_vars
<1>1. ASSUME EncodeInv, NEW f \in Files, NEW install \in Contents, NEW current \in Contents, NEW next,
             Publish(f, install, current, next)
      PROVE  KeepsInstallProof
  <2>1. Types
    BY <1>1 DEF EncodeInv
  <2>2. /\ \A g \in Files \ {f} : row'[g] = row[g]
        /\ row' = row \/ (row'[f].install = install /\ row[f].install \in {None, install})
    BY <1>1, <2>1, PublishFacts
  <2> QED BY <2>2 DEF KeepsInstallProof
<1>2. ASSUME EncodeInv, NEW f \in Files, Recover(f) PROVE KeepsInstallProof
  <2>1. journal[f].install \in Contents /\ journal[f].cur \in Contents
    BY <1>2 DEF EncodeInv, Types, Entry
  <2>2. row' = row \/ \E next : Publish(f, journal[f].install, journal[f].cur, next)
    BY <1>2 DEF Recover
  <2> QED BY <1>1, <1>2, <2>1, <2>2 DEF KeepsInstallProof
<1>3. ASSUME EncodeInv, NEW f \in Files, ReindexPublish(f) PROVE KeepsInstallProof
  <2>1. cmd.rows \in [Files -> Row]
    BY <1>3 DEF EncodeInv, CommandInv, ReindexPublish
  <2>2. cmd.rows[f].install \in Contents /\ cmd.rows[f].current \in Contents
    BY <2>1 DEF Row
  <2>3. \E next : Publish(f, cmd.rows[f].install, cmd.rows[f].current, next)
    BY <1>3 DEF ReindexPublish
  <2> QED BY <1>1, <1>3, <2>2, <2>3
<1>4. ASSUME EncodeInv, RecordReplace PROVE KeepsInstallProof
  <2>1. cmd.file \in Files /\ row[cmd.file].install \in Contents /\ live[cmd.file] \in Contents
    BY <1>4 DEF EncodeInv, CommandInv, RecordReplace, At, Holding, Types, Row
  <2> QED BY <1>1, <1>4, <2>1 DEF RecordReplace
<1>5. ASSUME EncodeInv, NEW f \in Files, ForgetRow(f) PROVE KeepsInstallProof
  BY <1>5 DEF EncodeInv, Types, ForgetRow, KeepsInstallProof
<1>6. ASSUME EncodeInv, NEW f \in Files, ObserveDrift(f) PROVE KeepsInstallProof
  BY <1>6, ObserveDriftInv DEF KeepsInstallProof
<1>7. ASSUME row' = row PROVE KeepsInstallProof
  BY <1>7 DEF KeepsInstallProof
<1>8. EncodeInv /\ [Next]_vars => [KeepsInstallProof]_vars
  <2> SUFFICES ASSUME EncodeInv, Next PROVE KeepsInstallProof
    OBVIOUS
  <2>1. CASE \E f \in Files : Recover(f) \/ ReindexPublish(f) \/ ForgetRow(f) \/ ObserveDrift(f)
    BY <1>2, <1>3, <1>5, <1>6, <2>1
  <2>2. CASE RecordReplace
    BY <1>4, <2>2
  <2>3. CASE \/ \E f \in Files : StartEncode({f}) \/ ConsiderFile(f) \/ UserChanges(f)
             \/ StartEncode(Files) \/ StartReindex \/ DropRecovered \/ LoadRows \/ BeginMaintenance \/ Convert
             \/ CreateJournal \/ WriteJournal \/ BackUp \/ Rename \/ ClearJournal \/ FinishCommand
             \/ ReindexScan \/ ReindexNothing \/ Crash \/ TogglePause \/ ClearLock
    <3>1. row' = row
      BY <2>3 DEF StartEncode, ConsiderFile, UserChanges, StartReindex, DropRecovered, LoadRows,
                  BeginMaintenance, Convert, CreateJournal, WriteJournal, BackUp, Rename, ClearJournal,
                  FinishCommand, ReindexScan, ReindexNothing, Crash, TogglePause, ClearLock
    <3> QED BY <1>7, <3>1
  <2> QED BY <2>1, <2>2, <2>3 DEF Next, CommandStep, Environment
<1> QED BY <1>8, EncodeInvHolds, PTL DEF Spec
=============================================================================
