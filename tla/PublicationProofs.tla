-------------------------- MODULE PublicationProofs --------------------------
(***************************************************************************)
(* Proofs about Publication, for any number of installations, crashes,     *)
(* power losses, failing system calls and changes by the administrator:    *)
(* a library path never names incomplete bytes, a mode the administrator   *)
(* chose is kept, and until a power loss what is reported can be read.     *)
(***************************************************************************)
EXTENDS Publication, TLAPS

Mode == {"none", "private", "open"}
Name == {"none", "pull", "copy"}
Inode == [mode : {"private", "open"}, whole : BOOLEAN]
Entry == [staged : BOOLEAN, temp : BOOLEAN, dest : Name]

BeforeLink == {"mkdir", "chmod", "syncdir", "syncparent", "check", "parents", "promote", "syncmedia",
               "link", "copy", "synccopy", "linkcopy"}
AfterLink == {"cleardata", "syncdest", "unlink", "syncstaged", "report"}
Matching == {"match", "normalise", "syncinode", "cleanup"}
Pc == {"idle", "judge"} \cup BeforeLink \cup AfterLink \cup Matching

Places == [pc : Pc, i : {1, 2}]
Inodes == [pull : Inode, copy : Inode]
Budgets == [crash : Nat, power : Nat, fault : Nat, admin : Nat]
Statuses == {"Verifying", "Failed", "Installed"}

Types ==
    /\ dir \in [Dirs -> Mode] /\ policy \in [Dirs -> Mode] /\ hidden \subseteq Dirs
    /\ kdir \in [Dirs -> [entry : BOOLEAN, mode : Mode]]
    /\ file \in [Files -> Entry] /\ kfile \in [Files -> Entry]
    /\ inode \in [Files -> [pull : Inode, copy : Inode]]
    /\ kinode \in [Files -> [pull : Inode, copy : Inode]]
    /\ status \in [Files -> {"Verifying", "Failed", "Installed"}]
    /\ proc \in [Files -> [pc : Pc, i : {1, 2}]]
    /\ left \in [crash : Nat, power : Nat, fault : Nat, admin : Nat]

\* The staged bytes are whole, seen and synced.  A library path that is seen, or
\* that a power loss may leave, names the staged bytes or a copy that was whole
\* on the disk before it was linked.
WholeInv ==
    \A f \in Files :
        /\ inode[f].pull.whole /\ kinode[f].pull.whole
        /\ kfile[f].dest \in {"none", file[f].dest}
        /\ file[f].dest = "copy" => inode[f].copy.whole /\ kinode[f].copy.whole
        /\ proc[f].pc \in BeforeLink => file[f].dest = "none"
        /\ proc[f].pc \in AfterLink \cup Matching => file[f].dest # "none"
        /\ proc[f].pc \in {"synccopy", "linkcopy"} => inode[f].copy.whole
        /\ proc[f].pc = "linkcopy" => kinode[f].copy.whole

\* A directory with a chosen mode has it, on the disk too; one that an installer
\* has just made has none.
PolicyInv ==
    /\ \A d \in Dirs :
        /\ dir[d] = "none" => policy[d] = "none"
        /\ policy[d] # "none" => dir[d] = policy[d] /\ kdir[d].mode = policy[d]
    /\ \A f \in Files : At(f, "chmod") => policy[Here(f)] = "none"

Clear(d) == dir[d] = "open" \/ d \in hidden
Published(f) == status[f] = "Installed" \/ proc[f].pc \in AfterLink \cup {"syncinode", "cleanup"}
Checked(f) ==
    \/ Published(f)
    \/ proc[f].pc \in {"promote", "syncmedia", "link", "copy", "synccopy", "linkcopy", "normalise"}

\* The steps from the check of the directories to the report, up to the first
\* power loss.
ReportInv ==
    /\ left.power <= MaxPower
    /\ \A f \in Files : ~At(f, "idle") => status[f] = "Verifying"
    /\ left.power = MaxPower =>
        \A f \in Files :
            /\ Checked(f) => Clear(Kind) /\ Clear(f)
            /\ proc[f].pc \in {"syncmedia", "link"} => inode[f].pull.mode = "open"
            /\ proc[f].pc \in {"synccopy", "linkcopy"} => inode[f].copy.mode = "open"
            /\ Published(f) => file[f].dest # "none"
            /\ Published(f) /\ file[f].dest = "pull" => inode[f].pull.mode = "open"
            /\ Published(f) /\ file[f].dest = "copy" => inode[f].copy.mode = "open"

PublicationInv == Types /\ WholeInv /\ PolicyInv /\ ReportInv

\* Facts about the types, each used by several actions.
LEMMA PcNames ==
    Pc = {"idle", "judge", "mkdir", "chmod", "syncdir", "syncparent", "check", "parents", "promote",
          "syncmedia", "link", "copy", "synccopy", "linkcopy", "cleardata", "syncdest", "unlink",
          "syncstaged", "report", "match", "normalise", "syncinode", "cleanup"}
BY DEF Pc, BeforeLink, AfterLink, Matching

\* The two ways an action moves its installer.
LEMMA PlaceType ==
    ASSUME Types, NEW f \in Files, NEW x \in Places
    PROVE  [proc EXCEPT ![f] = x] \in [Files -> Places]
BY DEF Types, Places

\* ... the second of them sets only the step.
LEMMA GoType ==
    ASSUME Types, NEW f \in Files, NEW p \in Pc, Go(f, p)
    PROVE  /\ [pc |-> p, i |-> proc[f].i] \in Places
           /\ proc' = [proc EXCEPT ![f] = [pc |-> p, i |-> proc[f].i]]
           /\ proc' \in [Files -> Places]
<1>1. proc[f] \in [pc : Pc, i : {1, 2}]
  BY DEF Types
<1>2. [proc[f] EXCEPT !.pc = p] = [pc |-> p, i |-> proc[f].i]
  BY <1>1
<1>3. proc' = [proc EXCEPT ![f] = [pc |-> p, i |-> proc[f].i]]
  BY <1>2 DEF Go
<1>4. [pc |-> p, i |-> proc[f].i] \in Places
  BY <1>1 DEF Places
<1> QED BY <1>3, <1>4, PlaceType

\* The names of a file, one of them changed.
LEMMA EntryType ==
    ASSUME NEW x \in [Files -> Entry], NEW f \in Files
    PROVE  /\ [x EXCEPT ![f].staged = FALSE] \in [Files -> Entry]
           /\ \A b \in BOOLEAN : [x EXCEPT ![f].temp = b] \in [Files -> Entry]
           /\ \A n \in Name : [x EXCEPT ![f].dest = n] \in [Files -> Entry]
           /\ [x EXCEPT ![f].staged = FALSE, ![f].temp = FALSE] \in [Files -> Entry]
BY DEF Entry

\* The two inodes of a file, one of them changed.
LEMMA InodeType ==
    ASSUME NEW x \in [Files -> Inodes], NEW f \in Files, NEW v \in Inode, NEW d \in {"pull", "copy"}
    PROVE  /\ [x EXCEPT ![f].pull = v] \in [Files -> Inodes]
           /\ [x EXCEPT ![f].copy = v] \in [Files -> Inodes]
           /\ [x EXCEPT ![f].pull.mode = "open"] \in [Files -> Inodes]
           /\ [x EXCEPT ![f][d].mode = "open"] \in [Files -> Inodes]
           /\ [x EXCEPT ![f][d] = v] \in [Files -> Inodes]
           /\ x[f][d] \in Inode
<1>1. CASE d = "pull" BY <1>1 DEF Inode, Inodes
<1>2. CASE d = "copy" BY <1>2 DEF Inode, Inodes
<1> QED BY <1>1, <1>2

\* An installer is at a directory of its chain.
LEMMA HereIsDir ==
    ASSUME Types, NEW f \in Files
    PROVE  Here(f) \in Dirs
<1>1. proc[f].i \in {1, 2}
  BY DEF Types
<1> QED BY <1>1 DEF Here, Chain, Dirs

\* A directory's synced mode or entry, changed.
LEMMA SyncedDirType ==
    ASSUME NEW x \in [Dirs -> [entry : BOOLEAN, mode : Mode]], NEW d \in Dirs, NEW m \in Mode
    PROVE  /\ [x EXCEPT ![d].mode = m] \in [Dirs -> [entry : BOOLEAN, mode : Mode]]
           /\ [x EXCEPT ![d].entry = TRUE] \in [Dirs -> [entry : BOOLEAN, mode : Mode]]
OBVIOUS

\* What an environment step takes from its budget.
LEMMA SpendType ==
    ASSUME Types, NEW b \in {"crash", "power", "fault", "admin"}, Spend(b)
    PROVE  /\ left' \in Budgets
           /\ b # "power" => left'.power = left.power
           /\ b = "power" => left'.power = left.power - 1
<1>0. left \in Budgets
  BY DEF Types, Budgets
<1>1. CASE b = "crash" BY <1>0, <1>1 DEF Spend, Budgets
<1>2. CASE b = "power" BY <1>0, <1>2 DEF Spend, Budgets
<1>3. CASE b = "fault" BY <1>0, <1>3 DEF Spend, Budgets
<1>4. CASE b = "admin" BY <1>0, <1>4 DEF Spend, Budgets
<1> QED BY <1>1, <1>2, <1>3, <1>4

\* The steps an installer reaches without changing the disk.
Moved == {"idle", "judge", "match", "mkdir", "check", "parents", "promote", "normalise"}

\* An installer that only looked at the disk: it gives up, retries, asks the
\* disk, or goes on to a step whose condition it has just seen.
LEMMA MovesInv ==
    ASSUME PublicationInv, NEW f \in Files, status[f] = "Verifying",
           NEW x \in Places, x.pc \in Moved, NEW s \in {"Verifying", "Failed"},
           proc' = [proc EXCEPT ![f] = x], status' = [status EXCEPT ![f] = s],
           s = "Failed" => x.pc = "idle",
           x.pc \in {"mkdir", "check", "parents", "promote"} => file[f].dest = "none",
           x.pc \in {"match", "normalise"} => file[f].dest # "none",
           x.pc \in {"promote", "normalise"} => Traversable(f),
           UNCHANGED <<dir, inode, kdir, kinode, policy, hidden>>,
           file' \in {file, [file EXCEPT ![f].temp = FALSE]},
           kfile' \in {kfile, [kfile EXCEPT ![f].temp = FALSE]},
           left' \in Budgets, left'.power = left.power
    PROVE  PublicationInv'
<1> USE DEF PublicationInv
<1>1. file' \in [Files -> Entry] /\ kfile' \in [Files -> Entry]
  <2>1. file \in [Files -> Entry] /\ kfile \in [Files -> Entry]
    BY DEF Types
  <2>2. /\ [file EXCEPT ![f].temp = FALSE] \in [Files -> Entry]
        /\ [kfile EXCEPT ![f].temp = FALSE] \in [Files -> Entry]
    BY <2>1, EntryType
  <2> QED BY <2>1, <2>2
<1>2. proc' \in [Files -> Places] /\ status' \in [Files -> Statuses]
  BY PlaceType, PcNames DEF Types, Statuses
<1>3. Types'
  BY <1>1, <1>2 DEF Types, Places, Statuses, Budgets
<1>4. \A g \in Files :
        /\ file'[g].dest = file[g].dest /\ kfile'[g].dest = kfile[g].dest
        /\ g # f => proc'[g] = proc[g] /\ status'[g] = status[g]
  <2> SUFFICES ASSUME NEW g \in Files
               PROVE  /\ file'[g].dest = file[g].dest /\ kfile'[g].dest = kfile[g].dest
                      /\ g # f => proc'[g] = proc[g] /\ status'[g] = status[g]
    OBVIOUS
  <2>1. file'[g].dest = file[g].dest
    <3>1. CASE file' = file BY <3>1
    <3>2. CASE file' = [file EXCEPT ![f].temp = FALSE] BY <3>2 DEF Types, Entry
    <3> QED BY <3>1, <3>2
  <2>2. kfile'[g].dest = kfile[g].dest
    <3>1. CASE kfile' = kfile BY <3>1
    <3>2. CASE kfile' = [kfile EXCEPT ![f].temp = FALSE] BY <3>2 DEF Types, Entry
    <3> QED BY <3>1, <3>2
  <2>3. g # f => proc'[g] = proc[g] /\ status'[g] = status[g]
    BY DEF Types
  <2> QED BY <2>1, <2>2, <2>3
<1>5. proc'[f] = x /\ status'[f] = s
  BY DEF Types
<1>6. WholeInv'
  BY <1>4, <1>5 DEF WholeInv, Moved, BeforeLink, AfterLink, Matching
<1>7. PolicyInv'
  BY <1>4, <1>5 DEF PolicyInv, Moved, At, Here, Chain
<1>8. Traversable(f) => dir[Kind] = "open" /\ dir[f] = "open"
  BY DEF Traversable, Chain
<1>9. ReportInv'
  BY <1>4, <1>5, <1>8 DEF ReportInv, Moved, At, Checked, Published, Clear, AfterLink
<1> QED BY <1>3, <1>6, <1>7, <1>9

\* create_library_directories opens the directory it made.
LEMMA ChmodDirInv ==
    ASSUME PublicationInv, NEW f \in Files, ChmodDir(f)
    PROVE  PublicationInv'
<1> USE DEF PublicationInv
<1>1. "syncdir" \in Pc
  BY PcNames
<1>2. proc' \in [Files -> Places]
  BY <1>1, GoType DEF ChmodDir
<1>3. dir' \in [Dirs -> Mode]
  BY DEF ChmodDir, Types, Mode, Here, Chain, Dirs
<1>4. Types'
  BY <1>2, <1>3 DEF ChmodDir, Types, Places, Inodes, seen, synced, observers
<1>5. WholeInv'
  BY DEF WholeInv, ChmodDir, Types, Entry, Inode, BeforeLink, AfterLink, Matching, At, Go, seen, synced,
         observers
<1>6. PolicyInv'
  BY DEF PolicyInv, ChmodDir, Types, At, Go, seen, synced, observers, Here, Chain, Dirs
<1>7. ReportInv'
  BY DEF ReportInv, WholeInv, Checked, Published, Clear, ChmodDir, Types, Entry, Inode, BeforeLink,
         AfterLink, Matching, At, Go, seen, synced, observers, Here, Chain, Dirs
<1> QED BY <1>4, <1>5, <1>6, <1>7

\* The new directory is synced.
LEMMA SyncDirInv ==
    ASSUME PublicationInv, NEW f \in Files, SyncDir(f)
    PROVE  PublicationInv'
<1> USE DEF PublicationInv
<1>1. "syncparent" \in Pc
  BY PcNames
<1>2. proc' \in [Files -> Places]
  BY <1>1, GoType DEF SyncDir
<1>3. Here(f) \in Dirs /\ dir[Here(f)] \in Mode
  BY HereIsDir DEF Types
<1>4. kdir' \in [Dirs -> [entry : BOOLEAN, mode : Mode]]
  <2>1. kdir' = [kdir EXCEPT ![Here(f)].mode = dir[Here(f)]]
    BY DEF SyncDir
  <2>2. kdir \in [Dirs -> [entry : BOOLEAN, mode : Mode]]
    BY DEF Types
  <2>3. [kdir EXCEPT ![Here(f)].mode = dir[Here(f)]] \in [Dirs -> [entry : BOOLEAN, mode : Mode]]
    BY <1>3, <2>2, SyncedDirType
  <2> QED BY <2>1, <2>3
<1>5. Types'
  BY <1>2, <1>3, <1>4 DEF SyncDir, Types, Places, Inodes, seen, synced, observers
<1>6. WholeInv'
  BY DEF WholeInv, SyncDir, Types, Entry, Inode, BeforeLink, AfterLink, Matching, At, Go, seen, synced,
         observers
<1>7. PolicyInv'
  BY DEF PolicyInv, SyncDir, Types, At, Go, seen, synced, observers, Here, Chain, Dirs
<1>8. ReportInv'
  BY DEF ReportInv, WholeInv, Checked, Published, Clear, SyncDir, Types, Entry, Inode, BeforeLink,
         AfterLink, Matching, At, Go, seen, synced, observers, Here, Chain, Dirs
<1> QED BY <1>5, <1>6, <1>7, <1>8

\* So is the entry of the new directory.
LEMMA SyncParentInv ==
    ASSUME PublicationInv, NEW f \in Files, SyncParent(f)
    PROVE  PublicationInv'
<1> USE DEF PublicationInv
<1>1. "check" \in Pc
  BY PcNames
<1>2. proc' \in [Files -> Places]
  BY <1>1, GoType DEF SyncParent
<1>3. kdir' \in [Dirs -> [entry : BOOLEAN, mode : Mode]]
  <2>1. Here(f) \in Dirs /\ "none" \in Mode /\ kdir \in [Dirs -> [entry : BOOLEAN, mode : Mode]]
    BY HereIsDir DEF Types, Mode
  <2>2. [kdir EXCEPT ![Here(f)].entry = TRUE] \in [Dirs -> [entry : BOOLEAN, mode : Mode]]
    BY <2>1, SyncedDirType
  <2> QED BY <2>2 DEF SyncParent
<1>4. Types'
  BY <1>2, <1>3 DEF SyncParent, Types, Places, Inodes, seen, synced, observers
<1>5. WholeInv'
  BY DEF WholeInv, SyncParent, Types, Entry, Inode, BeforeLink, AfterLink, Matching, At, Go, seen, synced,
         observers
<1>6. PolicyInv'
  BY DEF PolicyInv, SyncParent, Types, At, Go, seen, synced, observers, Here, Chain, Dirs
<1>7. ReportInv'
  BY DEF ReportInv, WholeInv, Checked, Published, Clear, SyncParent, Types, Entry, Inode, BeforeLink,
         AfterLink, Matching, At, Go, seen, synced, observers, Here, Chain, Dirs
<1> QED BY <1>4, <1>5, <1>6, <1>7

\* make_media_readable changes the mode of the staged inode.
LEMMA PromoteInv ==
    ASSUME PublicationInv, NEW f \in Files, Promote(f)
    PROVE  PublicationInv'
<1> USE DEF PublicationInv
<1>1. "syncmedia" \in Pc
  BY PcNames
<1>2. proc' \in [Files -> Places]
  BY <1>1, GoType DEF Promote
<1>3. inode' \in [Files -> Inodes]
  BY InodeType DEF Promote, Types, Inodes, Inode
<1>4. Types'
  BY <1>2, <1>3 DEF Promote, Types, Places, Inodes, seen, synced, observers
<1>5. WholeInv'
  BY DEF WholeInv, Promote, Types, Entry, Inode, BeforeLink, AfterLink, Matching, At, Go, seen, synced,
         observers
<1>6. PolicyInv'
  BY DEF PolicyInv, Promote, Types, At, Go, seen, synced, observers, Here, Chain, Dirs
<1>7. ReportInv'
  BY DEF ReportInv, WholeInv, Checked, Published, Clear, Promote, Types, Entry, Inode, BeforeLink,
         AfterLink, Matching, At, Go, seen, synced, observers, Here, Chain, Dirs
<1> QED BY <1>4, <1>5, <1>6, <1>7

\* ... and syncs it before it is linked.
LEMMA SyncMediaInv ==
    ASSUME PublicationInv, NEW f \in Files, SyncMedia(f)
    PROVE  PublicationInv'
<1> USE DEF PublicationInv
<1>1. "link" \in Pc
  BY PcNames
<1>2. proc' \in [Files -> Places]
  BY <1>1, GoType DEF SyncMedia
<1>3. kinode' \in [Files -> Inodes]
  BY InodeType DEF SyncMedia, Types, Inodes, Inode
<1>4. Types'
  BY <1>2, <1>3 DEF SyncMedia, Types, Places, Inodes, seen, synced, observers
<1>5. WholeInv'
  BY DEF WholeInv, SyncMedia, Types, Entry, Inode, BeforeLink, AfterLink, Matching, At, Go, seen, synced,
         observers
<1>6. PolicyInv'
  BY DEF PolicyInv, SyncMedia, Types, At, Go, seen, synced, observers, Here, Chain, Dirs
<1>7. ReportInv'
  BY DEF ReportInv, WholeInv, Checked, Published, Clear, SyncMedia, Types, Entry, Inode, BeforeLink,
         AfterLink, Matching, At, Go, seen, synced, observers, Here, Chain, Dirs
<1> QED BY <1>4, <1>5, <1>6, <1>7

\* copy_across_devices writes the whole file into its temporary.
LEMMA CopyAcrossInv ==
    ASSUME PublicationInv, NEW f \in Files, CopyAcross(f)
    PROVE  PublicationInv'
<1> USE DEF PublicationInv
<1>1. "synccopy" \in Pc
  BY PcNames
<1>2. proc' \in [Files -> Places]
  BY <1>1, GoType DEF CopyAcross
<1>3. inode' \in [Files -> Inodes]
  BY InodeType DEF CopyAcross, Types, Inodes, Inode
<1>4. Types'
  BY <1>2, <1>3 DEF CopyAcross, Types, Places, Inodes, seen, synced, observers
<1>5. WholeInv'
  BY DEF WholeInv, CopyAcross, Types, Entry, Inode, BeforeLink, AfterLink, Matching, At, Go, seen, synced,
         observers
<1>6. PolicyInv'
  BY DEF PolicyInv, CopyAcross, Types, At, Go, seen, synced, observers, Here, Chain, Dirs
<1>7. ReportInv'
  BY DEF ReportInv, WholeInv, Checked, Published, Clear, CopyAcross, Types, Entry, Inode, BeforeLink,
         AfterLink, Matching, At, Go, seen, synced, observers, Here, Chain, Dirs
<1> QED BY <1>4, <1>5, <1>6, <1>7

\* The copy is synced before it gets the library name.
LEMMA SyncCopyInv ==
    ASSUME PublicationInv, NEW f \in Files, SyncCopy(f)
    PROVE  PublicationInv'
<1> USE DEF PublicationInv
<1>1. "linkcopy" \in Pc
  BY PcNames
<1>2. proc' \in [Files -> Places]
  BY <1>1, GoType DEF SyncCopy
<1>3. kinode' \in [Files -> Inodes]
  BY InodeType DEF SyncCopy, Types, Inodes, Inode
<1>4. Types'
  BY <1>2, <1>3 DEF SyncCopy, Types, Places, Inodes, seen, synced, observers
<1>5. WholeInv'
  BY DEF WholeInv, SyncCopy, Types, Entry, Inode, BeforeLink, AfterLink, Matching, At, Go, seen, synced,
         observers
<1>6. PolicyInv'
  BY DEF PolicyInv, SyncCopy, Types, At, Go, seen, synced, observers, Here, Chain, Dirs
<1>7. ReportInv'
  BY DEF ReportInv, WholeInv, Checked, Published, Clear, SyncCopy, Types, Entry, Inode, BeforeLink,
         AfterLink, Matching, At, Go, seen, synced, observers, Here, Chain, Dirs
<1> QED BY <1>4, <1>5, <1>6, <1>7

\* The copy gets the library name.
LEMMA LinkCopyInv ==
    ASSUME PublicationInv, NEW f \in Files, LinkCopy(f)
    PROVE  PublicationInv'
<1> USE DEF PublicationInv
<1>1. "cleardata" \in Pc
  BY PcNames
<1>2. proc' \in [Files -> Places]
  BY <1>1, GoType DEF LinkCopy
<1>3. file' \in [Files -> Entry]
  BY EntryType DEF LinkCopy, Types, Name, ClearOwned
<1>4. Types'
  BY <1>2, <1>3 DEF LinkCopy, Types, Places, Inodes, seen, synced, observers
<1>5. WholeInv'
  BY DEF WholeInv, LinkCopy, Types, Entry, Inode, BeforeLink, AfterLink, Matching, At, Go, seen, synced,
         observers
<1>6. PolicyInv'
  BY DEF PolicyInv, LinkCopy, Types, At, Go, seen, synced, observers, Here, Chain, Dirs
<1>7. ReportInv'
  BY DEF ReportInv, WholeInv, Checked, Published, Clear, LinkCopy, Types, Entry, Inode, BeforeLink,
         AfterLink, Matching, At, Go, seen, synced, observers, Here, Chain, Dirs
<1> QED BY <1>4, <1>5, <1>6, <1>7

\* The temporary name goes.
LEMMA ClearDataInv ==
    ASSUME PublicationInv, NEW f \in Files, ClearData(f)
    PROVE  PublicationInv'
<1> USE DEF PublicationInv
<1>1. "syncdest" \in Pc
  BY PcNames
<1>2. proc' \in [Files -> Places]
  BY <1>1, GoType DEF ClearData
<1>3. file' \in [Files -> Entry]
  BY EntryType DEF ClearData, Types, Name, ClearOwned
<1>4. kfile' \in [Files -> Entry]
  BY EntryType DEF ClearData, Types, Name, ClearOwned
<1>5. Types'
  BY <1>2, <1>3, <1>4 DEF ClearData, Types, Places, Inodes, seen, synced, observers
<1>6. WholeInv'
  BY DEF WholeInv, ClearData, Types, Entry, Inode, BeforeLink, AfterLink, Matching, At, Go, seen, synced,
         observers, ClearOwned
<1>7. PolicyInv'
  BY DEF PolicyInv, ClearData, Types, At, Go, seen, synced, observers, ClearOwned, Here, Chain, Dirs
<1>8. ReportInv'
  BY DEF ReportInv, WholeInv, Checked, Published, Clear, ClearData, Types, Entry, Inode, BeforeLink,
         AfterLink, Matching, At, Go, seen, synced, observers, ClearOwned, Here, Chain, Dirs
<1> QED BY <1>5, <1>6, <1>7, <1>8

\* The library name is synced.
LEMMA SyncDestInv ==
    ASSUME PublicationInv, NEW f \in Files, SyncDest(f)
    PROVE  PublicationInv'
<1> USE DEF PublicationInv
<1>1. "unlink" \in Pc
  BY PcNames
<1>2. proc' \in [Files -> Places]
  BY <1>1, GoType DEF SyncDest
<1>3. file[f].dest \in Name
  BY DEF Types, Entry
<1>4. kfile' \in [Files -> Entry]
  BY <1>3, EntryType DEF SyncDest, Types
<1>5. Types'
  BY <1>2, <1>3, <1>4 DEF SyncDest, Types, Places, Inodes, seen, synced, observers
<1>6. WholeInv'
  BY DEF WholeInv, SyncDest, Types, Entry, Inode, BeforeLink, AfterLink, Matching, At, Go, seen, synced,
         observers
<1>7. PolicyInv'
  BY DEF PolicyInv, SyncDest, Types, At, Go, seen, synced, observers, Here, Chain, Dirs
<1>8. ReportInv'
  BY DEF ReportInv, WholeInv, Checked, Published, Clear, SyncDest, Types, Entry, Inode, BeforeLink,
         AfterLink, Matching, At, Go, seen, synced, observers, Here, Chain, Dirs
<1> QED BY <1>5, <1>6, <1>7, <1>8

\* The staged name goes.
LEMMA RemoveStagedInv ==
    ASSUME PublicationInv, NEW f \in Files, RemoveStaged(f)
    PROVE  PublicationInv'
<1> USE DEF PublicationInv
<1>1. "syncstaged" \in Pc
  BY PcNames
<1>2. proc' \in [Files -> Places]
  BY <1>1, GoType DEF RemoveStaged
<1>3. file' \in [Files -> Entry]
  BY EntryType DEF RemoveStaged, Types, Name, ClearOwned
<1>4. Types'
  BY <1>2, <1>3 DEF RemoveStaged, Types, Places, Inodes, seen, synced, observers
<1>5. WholeInv'
  BY DEF WholeInv, RemoveStaged, Types, Entry, Inode, BeforeLink, AfterLink, Matching, At, Go, seen,
         synced, observers
<1>6. PolicyInv'
  BY DEF PolicyInv, RemoveStaged, Types, At, Go, seen, synced, observers, Here, Chain, Dirs
<1>7. ReportInv'
  BY DEF ReportInv, WholeInv, Checked, Published, Clear, RemoveStaged, Types, Entry, Inode, BeforeLink,
         AfterLink, Matching, At, Go, seen, synced, observers, Here, Chain, Dirs
<1> QED BY <1>4, <1>5, <1>6, <1>7

\* ... and the staging directory is synced.
LEMMA SyncStagedInv ==
    ASSUME PublicationInv, NEW f \in Files, SyncStaged(f)
    PROVE  PublicationInv'
<1> USE DEF PublicationInv
<1>1. "report" \in Pc
  BY PcNames
<1>2. proc' \in [Files -> Places]
  BY <1>1, GoType DEF SyncStaged
<1>3. kfile' \in [Files -> Entry]
  BY EntryType DEF SyncStaged, Types, Name, ClearOwned
<1>4. Types'
  BY <1>2, <1>3 DEF SyncStaged, Types, Places, Inodes, seen, synced, observers
<1>5. WholeInv'
  BY DEF WholeInv, SyncStaged, Types, Entry, Inode, BeforeLink, AfterLink, Matching, At, Go, seen, synced,
         observers
<1>6. PolicyInv'
  BY DEF PolicyInv, SyncStaged, Types, At, Go, seen, synced, observers, Here, Chain, Dirs
<1>7. ReportInv'
  BY DEF ReportInv, WholeInv, Checked, Published, Clear, SyncStaged, Types, Entry, Inode, BeforeLink,
         AfterLink, Matching, At, Go, seen, synced, observers, Here, Chain, Dirs
<1> QED BY <1>4, <1>5, <1>6, <1>7

\* The worker's cleanup after it found the file published.
LEMMA CleanupInv ==
    ASSUME PublicationInv, NEW f \in Files, Cleanup(f)
    PROVE  PublicationInv'
<1> USE DEF PublicationInv
<1>1. "report" \in Pc
  BY PcNames
<1>2. proc' \in [Files -> Places]
  BY <1>1, GoType DEF Cleanup
<1>3. file' \in [Files -> Entry]
  BY EntryType DEF Cleanup, Types, Name, ClearOwned
<1>4. kfile' \in [Files -> Entry]
  BY EntryType DEF Cleanup, Types, Name, ClearOwned
<1>5. Types'
  BY <1>2, <1>3, <1>4 DEF Cleanup, Types, Places, Inodes, seen, synced, observers
<1>6. WholeInv'
  BY DEF WholeInv, Cleanup, Types, Entry, Inode, BeforeLink, AfterLink, Matching, At, Go, seen, synced,
         observers
<1>7. PolicyInv'
  BY DEF PolicyInv, Cleanup, Types, At, Go, seen, synced, observers, Here, Chain, Dirs
<1>8. ReportInv'
  BY DEF ReportInv, WholeInv, Checked, Published, Clear, Cleanup, Types, Entry, Inode, BeforeLink,
         AfterLink, Matching, At, Go, seen, synced, observers, Here, Chain, Dirs
<1> QED BY <1>5, <1>6, <1>7, <1>8

\* The two ways an installation ends early, and the way back for a later pass.
LEMMA GivesUpInv ==
    ASSUME PublicationInv, NEW f \in Files, status[f] = "Verifying",
           Errs(f) \/ Ends(f, "Failed") \/ Retries(f),
           UNCHANGED <<dir, inode, kdir, kinode, policy, hidden>>,
           file' \in {file, [file EXCEPT ![f].temp = FALSE]},
           kfile' \in {kfile, [kfile EXCEPT ![f].temp = FALSE]},
           left' \in Budgets, left'.power = left.power
    PROVE  PublicationInv'
<1>1. Idle \in Places /\ Idle.pc = "idle"
  BY PcNames DEF Idle, Places
<1>2. status = [status EXCEPT ![f] = "Verifying"]
  BY DEF PublicationInv, Types
<1>3. CASE Ends(f, "Failed")
  BY <1>1, <1>3, MovesInv DEF Ends, Moved
<1>4. CASE Retries(f)
  BY <1>1, <1>2, <1>4, MovesInv DEF Retries, Moved
<1>5. CASE Errs(f)
  <2>1. CASE f \in Manual
    BY <1>3, <1>5, <2>1 DEF Errs, Ends
  <2>2. CASE f \notin Manual
    <3>1. Go(f, "judge") /\ UNCHANGED status
      BY <1>5, <2>2 DEF Errs
    <3>2. /\ [pc |-> "judge", i |-> proc[f].i] \in Places
          /\ proc' = [proc EXCEPT ![f] = [pc |-> "judge", i |-> proc[f].i]]
      BY <3>1, GoType, PcNames DEF PublicationInv
    <3> QED BY <1>2, <3>1, <3>2, MovesInv DEF Moved
  <2> QED BY <2>1, <2>2
<1> QED BY <1>3, <1>4, <1>5

\* An installer that goes on after it looked at the disk.
LEMMA GoesOnInv ==
    ASSUME PublicationInv, NEW f \in Files, status[f] = "Verifying", UNCHANGED status,
           NEW p \in Moved, Go(f, p),
           p \in {"mkdir", "check", "parents", "promote"} => file[f].dest = "none",
           p \in {"match", "normalise"} => file[f].dest # "none",
           p \in {"promote", "normalise"} => Traversable(f),
           UNCHANGED <<dir, inode, kdir, kinode, policy, hidden>>,
           file' \in {file, [file EXCEPT ![f].temp = FALSE]},
           kfile' \in {kfile, [kfile EXCEPT ![f].temp = FALSE]},
           left' \in Budgets, left'.power = left.power
    PROVE  PublicationInv'
<1>1. /\ [pc |-> p, i |-> proc[f].i] \in Places
      /\ proc' = [proc EXCEPT ![f] = [pc |-> p, i |-> proc[f].i]]
  <2>1. p \in Pc
    BY PcNames DEF Moved
  <2> QED BY <2>1, GoType DEF PublicationInv
<1>2. status' = [status EXCEPT ![f] = "Verifying"]
  BY DEF PublicationInv, Types
<1> DEFINE x == [pc |-> p, i |-> proc[f].i]
<1>3. x \in Places /\ x.pc = p /\ proc' = [proc EXCEPT ![f] = x]
  BY <1>1
<1> HIDE DEF x
<1> QED BY <1>2, <1>3, MovesInv

\* An installer at work has a Verifying Job, and its budgets are typed.
LEMMA AtWork ==
    ASSUME PublicationInv, NEW f \in Files
    PROVE  /\ ~At(f, "idle") => status[f] = "Verifying"
           /\ UNCHANGED left => left' \in Budgets /\ left'.power = left.power
           /\ proc[f].pc \in BeforeLink => file[f].dest = "none"
           /\ proc[f].pc \in AfterLink \cup Matching => file[f].dest # "none"
BY DEF PublicationInv, ReportInv, WholeInv, Types, Budgets

\* place_verified and the command start.
LEMMA BeginInv ==
    ASSUME PublicationInv, NEW f \in Files, Begin(f)
    PROVE  PublicationInv'
<1>1. /\ status[f] = "Verifying" /\ left' \in Budgets /\ left'.power = left.power
      /\ UNCHANGED <<dir, inode, kdir, kinode, policy, hidden>>
  BY AtWork DEF Begin, observers
<1>2. /\ file' \in {file, [file EXCEPT ![f].temp = FALSE]}
      /\ kfile' \in {kfile, [kfile EXCEPT ![f].temp = FALSE]}
  BY DEF Begin, ClearOwned
<1>3. CASE Ends(f, "Failed")
  BY <1>1, <1>2, <1>3, GivesUpInv
<1>4. CASE Go(f, "match") /\ file[f].dest # "none" /\ UNCHANGED status
  BY <1>1, <1>2, <1>4, GoesOnInv DEF Moved
<1>5. CASE Go(f, "mkdir") /\ file[f].dest = "none" /\ UNCHANGED status
  BY <1>1, <1>2, <1>5, GoesOnInv DEF Moved
<1> QED BY <1>3, <1>4, <1>5 DEF Begin

\* create_library_directories makes a missing directory, and takes an existing
\* one as it is.
LEMMA MkdirInv ==
    ASSUME PublicationInv, NEW f \in Files, Mkdir(f)
    PROVE  PublicationInv'
<1>1. CASE dir[Here(f)] # "none"
  <2>1. /\ status[f] = "Verifying" /\ left' \in Budgets /\ left'.power = left.power
        /\ file[f].dest = "none"
    BY AtWork DEF Mkdir, At, BeforeLink
  <2> QED BY <1>1, <2>1, GoesOnInv DEF Mkdir, Moved, observers
<1>2. CASE dir[Here(f)] = "none"
  <2> DEFINE mode == IF f \in Restrictive THEN "private" ELSE "open"
  <2>1. /\ dir' = [dir EXCEPT ![Here(f)] = mode]
        /\ kdir' = [kdir EXCEPT ![Here(f)].mode = mode]
        /\ Go(f, "chmod")
    BY <1>2 DEF Mkdir
  <2>2. mode \in {"private", "open"} /\ Here(f) \in Dirs
    BY HereIsDir DEF PublicationInv
  <2> HIDE DEF mode
  <2>3. /\ proc' = [proc EXCEPT ![f] = [pc |-> "chmod", i |-> proc[f].i]]
        /\ proc' \in [Files -> Places]
    BY <2>1, GoType, PcNames DEF PublicationInv
  <2>4. dir' \in [Dirs -> Mode] /\ kdir' \in [Dirs -> [entry : BOOLEAN, mode : Mode]]
    <3>1. mode \in Mode /\ dir \in [Dirs -> Mode] /\ kdir \in [Dirs -> [entry : BOOLEAN, mode : Mode]]
      BY <2>2 DEF PublicationInv, Types, Mode
    <3>2. dir' \in [Dirs -> Mode]
      BY <2>1, <2>2, <3>1
    <3>3. kdir' \in [Dirs -> [entry : BOOLEAN, mode : Mode]]
      BY <2>1, <2>2, <3>1, SyncedDirType
    <3> QED BY <3>2, <3>3
  <2>5. Types'
    BY <2>3, <2>4 DEF PublicationInv, Mkdir, Types, Places, observers
  <2>6. WholeInv'
    BY <2>3 DEF PublicationInv, WholeInv, Mkdir, Types, At, BeforeLink, AfterLink, Matching
  <2>7. policy[Here(f)] = "none" /\ Here(f)' = Here(f)
    BY <1>2, <2>2, <2>3 DEF PublicationInv, PolicyInv, Here, Chain, Types
  <2>8. PolicyInv'
    <3>1. \A d \in Dirs : d # Here(f) => dir'[d] = dir[d] /\ kdir'[d] = kdir[d]
      BY <2>1, <2>2 DEF PublicationInv, Types
    <3>2. dir'[Here(f)] # "none"
      BY <2>1, <2>2 DEF PublicationInv, Types
    <3>3. \A g \in Files : g # f => (At(g, "chmod"))' = At(g, "chmod") /\ Here(g)' = Here(g)
      BY <2>3 DEF At, Here, Chain, PublicationInv, Types
    <3> QED BY <2>7, <3>1, <3>2, <3>3 DEF PublicationInv, PolicyInv, Mkdir, observers
  <2>9. ReportInv'
    <3>1. \A d \in Dirs : Clear(d) => Clear(d)'
      BY <1>2, <2>1, <2>2 DEF PublicationInv, Types, Clear, Mkdir, observers
    <3>2. \A g \in Files : (g \in Dirs) /\ (Checked(g)' => Checked(g)) /\ (Published(g)' => Published(g))
      BY <2>3 DEF Checked, Published, Dirs, PublicationInv, Types, Mkdir, AfterLink
    <3>3. \A g \in Files : (~At(g, "idle") => status[g] = "Verifying")'
      BY <2>3 DEF PublicationInv, ReportInv, Types, Mkdir, At
    <3>4. \A g \in Files : proc'[g].pc \in {"syncmedia", "link", "synccopy", "linkcopy"} => proc'[g] = proc[g]
      BY <2>3 DEF PublicationInv, Types
    <3>5. Kind \in Dirs
      BY DEF Dirs
    <3> QED BY <3>1, <3>2, <3>3, <3>4, <3>5 DEF PublicationInv, ReportInv, Mkdir
  <2> QED BY <2>5, <2>6, <2>8, <2>9 DEF PublicationInv
<1> QED BY <1>1, <1>2

\* check_schema_parent looks at one directory.
LEMMA CheckParentInv ==
    ASSUME PublicationInv, NEW f \in Files, CheckParent(f)
    PROVE  PublicationInv'
<1>1. /\ status[f] = "Verifying" /\ left' \in Budgets /\ left'.power = left.power
      /\ file[f].dest = "none"
  BY AtWork DEF CheckParent, At, BeforeLink
<1>2. UNCHANGED <<dir, inode, kdir, kinode, policy, hidden, file, kfile>>
  BY DEF CheckParent, seen, synced, observers
<1>3. CASE Errs(f)
  BY <1>1, <1>2, <1>3, GivesUpInv
<1>4. CASE Go(f, "parents") /\ UNCHANGED status
  BY <1>1, <1>2, <1>4, GoesOnInv DEF Moved
<1>5. CASE /\ proc[f].i < Len(Chain(f)) /\ UNCHANGED status
           /\ proc' = [proc EXCEPT ![f] = [pc |-> "mkdir", i |-> proc[f].i + 1]]
  <2> DEFINE x == [pc |-> "mkdir", i |-> proc[f].i + 1]
  <2>1. proc[f].i \in {1, 2} /\ Len(Chain(f)) = 2
    BY DEF PublicationInv, Types, Chain
  <2>2. x \in Places /\ x.pc = "mkdir" /\ proc' = [proc EXCEPT ![f] = x]
    BY <1>5, <2>1, PcNames DEF Places
  <2>3. status' = [status EXCEPT ![f] = "Verifying"]
    BY <1>1, <1>5 DEF PublicationInv, Types
  <2> HIDE DEF x
  <2> QED BY <1>1, <1>2, <2>2, <2>3, MovesInv DEF Moved
<1> QED BY <1>3, <1>4, <1>5 DEF CheckParent

\* check_publication_parents looks at the whole chain.
LEMMA CheckParentsInv ==
    ASSUME PublicationInv, NEW f \in Files, CheckParents(f)
    PROVE  PublicationInv'
<1>1. /\ status[f] = "Verifying" /\ left' \in Budgets /\ left'.power = left.power
      /\ file[f].dest = "none"
  BY AtWork DEF CheckParents, At, BeforeLink
<1>2. UNCHANGED <<dir, inode, kdir, kinode, policy, hidden, file, kfile>>
  BY DEF CheckParents, seen, synced, observers
<1>3. CASE Errs(f)
  BY <1>1, <1>2, <1>3, GivesUpInv
<1>4. CASE Traversable(f) /\ Go(f, "promote") /\ UNCHANGED status
  BY <1>1, <1>2, <1>4, GoesOnInv DEF Moved
<1> QED BY <1>3, <1>4 DEF CheckParents

\* The error arm of place_verified looks at the destination.
LEMMA JudgeInv ==
    ASSUME PublicationInv, NEW f \in Files, Judge(f)
    PROVE  PublicationInv'
<1>1. status[f] = "Verifying" /\ left' \in Budgets /\ left'.power = left.power
  BY AtWork DEF Judge, At
<1>2. /\ UNCHANGED <<dir, inode, kdir, kinode, policy, hidden>>
      /\ file' \in {file, [file EXCEPT ![f].temp = FALSE]}
      /\ kfile' \in {kfile, [kfile EXCEPT ![f].temp = FALSE]}
  BY DEF Judge, ClearOwned, observers
<1>3. CASE Ends(f, "Failed")
  BY <1>1, <1>2, <1>3, GivesUpInv
<1>4. CASE file[f].dest # "none" /\ Go(f, "match") /\ UNCHANGED status
  BY <1>1, <1>2, <1>4, GoesOnInv DEF Moved
<1> QED BY <1>3, <1>4 DEF Judge

\* installed_matches reads the bytes and the directories above them.
LEMMA MatchInv ==
    ASSUME PublicationInv, NEW f \in Files, Match(f)
    PROVE  PublicationInv'
<1>1. /\ status[f] = "Verifying" /\ left' \in Budgets /\ left'.power = left.power
      /\ file[f].dest # "none"
  BY AtWork DEF Match, At, Matching
<1>2. UNCHANGED <<dir, inode, kdir, kinode, policy, hidden, file, kfile>>
  BY DEF Match, seen, synced, observers
<1>3. CASE Ends(f, "Failed") \/ Retries(f)
  BY <1>1, <1>2, <1>3, GivesUpInv
<1>4. CASE Traversable(f) /\ Go(f, "normalise") /\ UNCHANGED status
  BY <1>1, <1>2, <1>4, GoesOnInv DEF Moved
<1> QED BY <1>3, <1>4 DEF Match

\* A system call fails.
LEMMA FaultInv ==
    ASSUME PublicationInv, NEW f \in Files, Fault(f)
    PROVE  PublicationInv'
<1>1. status[f] = "Verifying"
  BY AtWork DEF Fault, At, Installing
<1>2. left' \in Budgets /\ left'.power = left.power
  BY SpendType DEF Fault, PublicationInv
<1>3. UNCHANGED <<dir, inode, kdir, kinode, policy, hidden, file, kfile>>
  BY DEF Fault, seen, synced, observers
<1>4. Errs(f) \/ Retries(f)
  BY DEF Fault
<1> QED BY <1>1, <1>2, <1>3, <1>4, GivesUpInv

\* A process dies.
LEMMA CrashInv ==
    ASSUME PublicationInv, NEW f \in Files, Crash(f)
    PROVE  PublicationInv'
<1>1. status[f] = "Verifying"
  BY AtWork DEF Crash
<1>2. left' \in Budgets /\ left'.power = left.power
  BY SpendType DEF Crash, PublicationInv
<1>3. UNCHANGED <<dir, inode, kdir, kinode, policy, hidden, file, kfile>>
  BY DEF Crash, seen, synced, observers
<1>4. Ends(f, "Failed") \/ Retries(f)
  BY DEF Crash
<1> QED BY <1>1, <1>2, <1>3, <1>4, GivesUpInv

\* The file is reported as installed.
LEMMA ReportStepInv ==
    ASSUME PublicationInv, NEW f \in Files, Report(f)
    PROVE  PublicationInv'
<1>1. proc' = [proc EXCEPT ![f] = Idle] /\ proc' \in [Files -> Places]
  BY PlaceType, PcNames DEF Report, Ends, Idle, Places, PublicationInv
<1>2. Types'
  BY <1>1 DEF PublicationInv, Report, Ends, Types, Places, seen, synced, observers
<1>3. WholeInv'
  BY <1>1 DEF PublicationInv, WholeInv, Types, Report, Idle, BeforeLink, AfterLink, Matching, seen, synced
<1>4. PolicyInv'
  BY <1>1 DEF PublicationInv, PolicyInv, Types, Report, Idle, At, Here, Chain, seen, synced, observers
<1>5. ReportInv'
  BY <1>1 DEF PublicationInv, ReportInv, Types, Report, Ends, Idle, At, Checked, Published, Clear, AfterLink,
              seen, observers
<1> QED BY <1>2, <1>3, <1>4, <1>5 DEF PublicationInv

\* hard_link, or the start of a copy in the private slot.
LEMMA LinkInv ==
    ASSUME PublicationInv, NEW f \in Files, Link(f)
    PROVE  PublicationInv'
<1> USE DEF PublicationInv
<1>1. /\ file[f].dest = "none" /\ kfile[f].dest = "none"
      /\ UNCHANGED <<dir, kdir, kfile, status, policy, hidden, left>>
  BY AtWork DEF WholeInv, Link, At, BeforeLink, observers
<1>2. CASE f \in CrossDevice
  <2>1. /\ file' = [file EXCEPT ![f].temp = TRUE]
        /\ inode' = [inode EXCEPT ![f].copy = Private(FALSE)]
        /\ kinode' = [kinode EXCEPT ![f].copy = Private(FALSE)]
        /\ Go(f, "copy")
    BY <1>2 DEF Link
  <2>2. proc' \in [Files -> Places]
    BY <2>1, GoType, PcNames
  <2>3. file' \in [Files -> Entry]
    BY <2>1, EntryType DEF Types
  <2>4. Private(FALSE) \in Inode
    BY DEF Private, Inode
  <2>5. inode' \in [Files -> Inodes] /\ kinode' \in [Files -> Inodes]
    BY <2>1, <2>4, InodeType DEF Types, Inodes
  <2>6. Types'
    BY <1>1, <2>2, <2>3, <2>5 DEF Types, Places, Inodes
  <2>7. WholeInv'
    BY <1>1, <2>1 DEF WholeInv, Types, Entry, Inode, Go, Private, BeforeLink, AfterLink, Matching
  <2>8. PolicyInv'
    BY <1>1, <2>1 DEF PolicyInv, Types, Go, At, Here, Chain
  <2>9. ReportInv'
    BY <1>1, <2>1 DEF ReportInv, Types, Entry, Inode, Link, Go, At, Checked, Published, Clear, AfterLink, Private
  <2> QED BY <2>6, <2>7, <2>8, <2>9
<1>3. CASE f \notin CrossDevice
  <2>1. file' = [file EXCEPT ![f].dest = "pull"] /\ Go(f, "syncdest") /\ UNCHANGED <<inode, kinode>>
    BY <1>3 DEF Link
  <2>2. proc' \in [Files -> Places]
    BY <2>1, GoType, PcNames
  <2>3. file' \in [Files -> Entry]
    BY <2>1, EntryType DEF Types, Name
  <2>4. Types'
    BY <1>1, <2>1, <2>2, <2>3 DEF Types, Places
  <2>5. WholeInv'
    BY <1>1, <2>1 DEF WholeInv, Types, Entry, Inode, Go, BeforeLink, AfterLink, Matching
  <2>6. PolicyInv'
    BY <1>1, <2>1 DEF PolicyInv, Types, Go, At, Here, Chain
  <2>7. ReportInv'
    BY <1>1, <2>1 DEF ReportInv, Types, Entry, Inode, Link, Go, At, Checked, Published, Clear, AfterLink
  <2> QED BY <2>4, <2>5, <2>6, <2>7
<1> QED BY <1>2, <1>3

\* installed_matches makes the inode it hashed readable.
LEMMA NormaliseInv ==
    ASSUME PublicationInv, NEW f \in Files, Normalise(f)
    PROVE  PublicationInv'
<1> USE DEF PublicationInv
<1>1. /\ file[f].dest \in {"pull", "copy"} /\ Go(f, "syncinode")
      /\ UNCHANGED <<dir, kdir, file, kfile, kinode, status, policy, hidden, left>>
  <2>1. file[f].dest # "none"
    BY AtWork DEF Normalise, At, Matching
  <2> QED BY <2>1 DEF Types, Entry, Name, Normalise, synced, observers
<1>2. proc' \in [Files -> Places]
  BY <1>1, GoType, PcNames
<1>3. inode' \in [Files -> Inodes]
  BY <1>1, InodeType DEF Normalise, Types, Inodes
<1>4. Types'
  BY <1>1, <1>2, <1>3 DEF Types, Places, Inodes
<1>5. \/ file[f].dest = "pull" /\ inode' = [inode EXCEPT ![f].pull.mode = "open"]
      \/ file[f].dest = "copy" /\ inode' = [inode EXCEPT ![f].copy.mode = "open"]
  BY <1>1 DEF Normalise
<1>6. \A g \in Files : /\ inode'[g].pull.whole = inode[g].pull.whole
                       /\ inode'[g].copy.whole = inode[g].copy.whole
  <2>1. inode \in [Files -> [pull : Inode, copy : Inode]]
    BY DEF Types
  <2>2. CASE inode' = [inode EXCEPT ![f].pull.mode = "open"]
    BY <2>1, <2>2 DEF Inode
  <2>3. CASE inode' = [inode EXCEPT ![f].copy.mode = "open"]
    BY <2>1, <2>3 DEF Inode
  <2> QED BY <1>5, <2>2, <2>3
<1>7. WholeInv'
  <2>1. proc'[f].pc = "syncinode" /\ \A g \in Files : g # f => proc'[g] = proc[g]
    BY <1>1 DEF Go, Types
  <2> QED BY <1>1, <1>6, <2>1 DEF WholeInv, BeforeLink, AfterLink, Matching
<1>8. PolicyInv'
  BY <1>1 DEF PolicyInv, Types, Go, At, Here, Chain
<1>9. ReportInv'
  BY <1>1, <1>5 DEF ReportInv, Types, Inode, Normalise, Go, At, Checked, Published, Clear, AfterLink
<1> QED BY <1>4, <1>7, <1>8, <1>9

\* ... and syncs it.
LEMMA SyncInodeInv ==
    ASSUME PublicationInv, NEW f \in Files, SyncInode(f)
    PROVE  PublicationInv'
<1> USE DEF PublicationInv
<1>1. /\ file[f].dest \in {"pull", "copy"} /\ Go(f, "cleanup")
      /\ UNCHANGED <<dir, kdir, file, kfile, inode, status, policy, hidden, left>>
  <2>1. file[f].dest # "none"
    BY AtWork DEF SyncInode, At, Matching
  <2> QED BY <2>1 DEF Types, Entry, Name, SyncInode, seen, observers
<1>2. proc' \in [Files -> Places]
  BY <1>1, GoType, PcNames
<1>3. kinode' \in [Files -> Inodes]
  BY <1>1, InodeType DEF SyncInode, Types, Inodes
<1>4. Types'
  BY <1>1, <1>2, <1>3 DEF Types, Places, Inodes
<1>5. \/ file[f].dest = "pull" /\ kinode' = [kinode EXCEPT ![f].pull = inode[f].pull]
      \/ file[f].dest = "copy" /\ kinode' = [kinode EXCEPT ![f].copy = inode[f].copy]
  BY <1>1 DEF SyncInode
<1>6. WholeInv'
  <2>1. proc'[f].pc = "cleanup" /\ \A g \in Files : g # f => proc'[g] = proc[g] /\ kinode'[g] = kinode[g]
    BY <1>1, <1>5 DEF Go, Types
  <2>2. \/ kinode'[f].pull = inode[f].pull /\ kinode'[f].copy = kinode[f].copy
        \/ file[f].dest = "copy" /\ kinode'[f].copy = inode[f].copy /\ kinode'[f].pull = kinode[f].pull
    BY <1>5 DEF Types
  <2> QED BY <1>1, <2>1, <2>2 DEF WholeInv, BeforeLink, AfterLink, Matching
<1>7. PolicyInv'
  BY <1>1 DEF PolicyInv, Types, Go, At, Here, Chain
<1>8. ReportInv'
  BY <1>1 DEF ReportInv, Types, SyncInode, Go, At, Checked, Published, Clear, AfterLink
<1> QED BY <1>4, <1>6, <1>7, <1>8

\* Everything that was not synced may be gone.
LEMMA PowerLossInv ==
    ASSUME PublicationAssumption, PublicationInv, PowerLoss
    PROVE  PublicationInv'
<1> USE DEF PublicationInv
<1>1. /\ proc' = [g \in Files |-> Idle] /\ proc' \in [Files -> Places]
      /\ \A g \in Files : proc'[g].pc = "idle"
  BY PcNames DEF PowerLoss, Idle, Places
<1>2. status' \in [Files -> Statuses]
  BY DEF PowerLoss, Types, Statuses
<1>3. left' \in Budgets /\ left'.power = left.power - 1
  BY SpendType DEF PowerLoss
<1>4. /\ dir' \in [Dirs -> Mode]
      /\ \A d \in Dirs : dir'[d] \in {"none", dir[d], kdir[d].mode} /\ (dir[d] = "none" => dir'[d] = "none")
  <2>1. PICK top \in DirAfter(Kind), leaves \in [Files -> {"none", "private", "open"}] :
          /\ \A f \in Files : leaves[f] \in (IF top = "none" THEN {"none"} ELSE DirAfter(f))
          /\ dir' = [d \in Dirs |-> IF d = Kind THEN top ELSE leaves[d]]
    BY DEF PowerLoss
  <2>2. \A d \in Dirs : DirAfter(d) \subseteq Mode \cap {"none", dir[d], kdir[d].mode}
    BY DEF DirAfter, Types, Mode
  <2>3. \A d \in Dirs : dir[d] = "none" => DirAfter(d) = {"none"}
    BY DEF DirAfter
  <2>4. \A d \in Dirs : dir'[d] \in DirAfter(d) \cup {"none"}
    BY <2>1 DEF Dirs
  <2>5. Kind \in Dirs
    BY DEF Dirs
  <2>6. \A d \in Dirs : dir'[d] \in Mode
    BY <2>2, <2>4 DEF Mode
  <2>7. dir' \in [Dirs -> Mode]
    BY <2>1, <2>6
  <2> QED BY <2>2, <2>3, <2>4, <2>7
<1>5. kdir' \in [Dirs -> [entry : BOOLEAN, mode : Mode]] /\ \A d \in Dirs : kdir'[d].mode = dir'[d]
  BY <1>4 DEF PowerLoss
<1>6. /\ file' \in [Files -> Entry] /\ kfile' = file'
      /\ \A g \in Files : file'[g].dest \in {"none", file[g].dest, kfile[g].dest}
  <2>1. PICK staged \in [Files -> BOOLEAN], temp \in [Files -> BOOLEAN],
             dest \in [Files -> {"none", "pull", "copy"}] :
        /\ \A f \in Files :
            /\ staged[f] \in {file[f].staged, kfile[f].staged}
            /\ temp[f] \in (IF dir'[f] = "none" THEN {FALSE} ELSE {file[f].temp, kfile[f].temp})
            /\ dest[f] \in (IF dir'[f] = "none" THEN {"none"} ELSE {file[f].dest, kfile[f].dest})
        /\ file' = [f \in Files |-> [staged |-> staged[f], temp |-> temp[f], dest |-> dest[f]]]
    BY DEF PowerLoss
  <2>2. file' \in [Files -> Entry]
    BY <2>1 DEF Entry, Name
  <2>3. \A g \in Files : file'[g].dest \in {"none", file[g].dest, kfile[g].dest}
    BY <2>1
  <2> QED BY <2>2, <2>3 DEF PowerLoss
<1>7. /\ inode' \in [Files -> Inodes] /\ kinode' = inode'
      /\ \A g \in Files : inode'[g] \in {inode[g], kinode[g]}
  BY DEF PowerLoss, Types, Inodes
<1>8. policy' = [d \in Dirs |-> IF dir'[d] = "none" THEN "none" ELSE policy[d]] /\ hidden' = hidden
  BY DEF PowerLoss
<1>9. Types'
  <2>1. policy' \in [Dirs -> Mode]
    BY <1>8 DEF Types, Mode
  <2> QED BY <1>1, <1>2, <1>3, <1>4, <1>5, <1>6, <1>7, <1>8, <2>1 DEF Types, Places, Inodes, Statuses, Budgets
<1>10. WholeInv'
  <2> SUFFICES ASSUME NEW g \in Files
               PROVE  /\ inode'[g].pull.whole /\ (file'[g].dest = "copy" => inode'[g].copy.whole)
    BY <1>1, <1>6, <1>7 DEF WholeInv, BeforeLink, AfterLink, Matching
  <2>1. file'[g].dest = "copy" => file[g].dest = "copy"
    BY <1>6 DEF WholeInv
  <2> QED BY <1>7, <2>1 DEF WholeInv
<1>11. PolicyInv'
  BY <1>1, <1>4, <1>5, <1>8 DEF PolicyInv, At
<1>12. ReportInv'
  BY <1>1, <1>3 DEF ReportInv, Types, At, PublicationAssumption
<1> QED BY <1>9, <1>10, <1>11, <1>12

\* The administrator makes a directory or sets its mode.
LEMMA SetModeInv ==
    ASSUME PublicationInv, NEW d \in Dirs, NEW mode \in {"private", "open"}, SetMode(d, mode),
           left' \in Budgets, left'.power = left.power
    PROVE  PublicationInv'
<1> USE DEF PublicationInv
<1>1. /\ dir' = [dir EXCEPT ![d] = mode]
      /\ kdir' = [kdir EXCEPT ![d] = [entry |-> TRUE, mode |-> mode]]
      /\ UNCHANGED <<file, inode, kfile, kinode, status, proc>>
      /\ hidden' = IF mode = "private" THEN hidden \union {d} ELSE hidden
  BY DEF SetMode
<1>2. \/ Fresh(d) /\ policy' = policy
      \/ ~Fresh(d) /\ policy' = [policy EXCEPT ![d] = mode]
  <2>1. policy' = IF Fresh(d) THEN policy ELSE [policy EXCEPT ![d] = mode]
    BY DEF SetMode
  <2> QED BY <2>1
<1>3. dir' \in [Dirs -> Mode] /\ kdir' \in [Dirs -> [entry : BOOLEAN, mode : Mode]]
  BY <1>1 DEF Types, Mode
<1>4. policy' \in [Dirs -> Mode] /\ hidden' \subseteq Dirs
  <2>1. policy \in [Dirs -> Mode] /\ hidden \subseteq Dirs /\ mode \in Mode
    BY DEF Types, Mode
  <2>2. policy' \in [Dirs -> Mode]
    BY <1>2, <2>1
  <2> QED BY <1>1, <2>1, <2>2
<1>5. Types'
  BY <1>1, <1>3, <1>4 DEF Types, Budgets
<1>6. WholeInv'
  BY <1>1 DEF WholeInv
<1>7. PolicyInv'
  <2>1. \A e \in Dirs : e # d => dir'[e] = dir[e] /\ kdir'[e] = kdir[e] /\ policy'[e] = policy[e]
    BY <1>1, <1>2 DEF Types
  <2>2. dir'[d] = mode /\ kdir'[d].mode = mode
    BY <1>1 DEF Types
  <2>3. CASE Fresh(d)
    <3>1. policy[d] = "none" /\ policy' = policy
      BY <1>2, <2>3 DEF PolicyInv, Fresh
    <3> QED BY <1>1, <2>1, <2>2, <3>1 DEF PolicyInv, At, Here
  <2>4. CASE ~Fresh(d)
    <3>1. policy'[d] = mode
      BY <1>2, <2>4 DEF Types
    <3>2. \A g \in Files : At(g, "chmod") => Here(g) # d /\ Here(g) \in Dirs
      <4> SUFFICES ASSUME NEW g \in Files, At(g, "chmod") PROVE Here(g) # d /\ Here(g) \in Dirs
        OBVIOUS
      <4>1. proc[g].i \in {1, 2}
        BY DEF Types
      <4> QED BY <2>4, <4>1 DEF Fresh, Here, Chain, Dirs
    <3> QED BY <1>1, <2>1, <2>2, <3>1, <3>2 DEF PolicyInv, At, Here
  <2> QED BY <2>3, <2>4
<1>8. ReportInv'
  <2>1. \A e \in Dirs : Clear(e) => Clear(e)'
    BY <1>1 DEF Clear, Types
  <2>2. Files \subseteq Dirs /\ Kind \in Dirs
    BY DEF Dirs
  <2>3. \A g \in Files : Checked(g)' = Checked(g) /\ Published(g)' = Published(g)
    BY <1>1 DEF Checked, Published
  <2> QED BY <1>1, <2>1, <2>2, <2>3 DEF ReportInv, At
<1> QED BY <1>5, <1>6, <1>7, <1>8

\* The administrator or nobody has made the shared directory.
LEMMA InitInv ==
    ASSUME PublicationAssumption, Init
    PROVE  PublicationInv
<1>1. PICK mode \in Mode :
        /\ dir = [d \in Dirs |-> IF d = Kind THEN mode ELSE "none"]
        /\ hidden = IF mode = "private" THEN {Kind} ELSE {}
  BY DEF Init, Mode
<1>2. dir \in [Dirs -> Mode] /\ policy = dir /\ hidden \subseteq Dirs
  BY <1>1 DEF Init, Mode, Dirs
<1>3. /\ kdir \in [Dirs -> [entry : BOOLEAN, mode : Mode]]
      /\ \A d \in Dirs : kdir[d].mode = dir[d]
  BY <1>2 DEF Init
<1>4. file \in [Files -> Entry] /\ kfile = file /\ \A f \in Files : file[f].dest = "none"
  BY DEF Init, Entry, Name
<1>5. inode \in [Files -> Inodes] /\ kinode = inode /\ \A f \in Files : inode[f].pull.whole
  BY DEF Init, Inodes, Inode, Private
<1>6. /\ proc \in [Files -> Places] /\ status \in [Files -> Statuses]
      /\ \A f \in Files : proc[f].pc = "idle" /\ status[f] = "Verifying"
  BY PcNames DEF Init, Places, Idle, Statuses
<1>7. left \in Budgets /\ left.power = MaxPower /\ MaxPower \in Nat
  BY DEF Init, Budgets, PublicationAssumption
<1>8. Types
  BY <1>2, <1>3, <1>4, <1>5, <1>6, <1>7 DEF Types, Places, Inodes, Statuses, Budgets
<1>9. WholeInv
  BY <1>4, <1>5, <1>6 DEF WholeInv, BeforeLink, AfterLink, Matching
<1>10. PolicyInv
  BY <1>2, <1>3, <1>6 DEF PolicyInv, At
<1>11. ReportInv
  BY <1>4, <1>6, <1>7 DEF ReportInv, At, Checked, Published, AfterLink
<1> QED BY <1>8, <1>9, <1>10, <1>11 DEF PublicationInv

\* Every step of the system preserves the invariant.
LEMMA StepInv ==
    ASSUME PublicationAssumption, PublicationInv, [Next]_vars
    PROVE  PublicationInv'
<1>1. ASSUME NEW f \in Files, Step(f) PROVE PublicationInv'
  BY <1>1, BeginInv, MkdirInv, ChmodDirInv, SyncDirInv, SyncParentInv, CheckParentInv, CheckParentsInv,
     PromoteInv, SyncMediaInv, LinkInv, CopyAcrossInv, SyncCopyInv, LinkCopyInv, ClearDataInv, SyncDestInv,
     RemoveStagedInv, SyncStagedInv, ReportStepInv, JudgeInv, MatchInv, NormaliseInv, SyncInodeInv, CleanupInv
     DEF Step
<1>2. ASSUME NEW f \in Files, Fault(f) \/ Crash(f) PROVE PublicationInv'
  BY <1>2, FaultInv, CrashInv
<1>3. CASE Administer
  <2>1. PICK d \in Dirs, mode \in {"private", "open"} : SetMode(d, mode) /\ Spend("admin")
    BY <1>3 DEF Administer
  <2>2. left' \in Budgets /\ left'.power = left.power
    BY <2>1, SpendType DEF PublicationInv
  <2> QED BY <2>1, <2>2, SetModeInv
<1>4. ASSUME NEW d \in Dirs, Repair(d) PROVE PublicationInv'
  <2>1. left' \in Budgets /\ left'.power = left.power
    BY <1>4 DEF Repair, PublicationInv, Types, Budgets
  <2> QED BY <1>4, <2>1, SetModeInv DEF Repair
<1>5. CASE UNCHANGED vars
  <2>1. UNCHANGED <<dir, file, inode, kdir, kfile, kinode, status, proc, policy, hidden, left>>
    BY <1>5 DEF vars, seen, synced, observers
  <2>2. Types'
    BY <2>1 DEF PublicationInv, Types
  <2>3. WholeInv'
    BY <2>1 DEF PublicationInv, WholeInv
  <2>4. PolicyInv'
    BY <2>1 DEF PublicationInv, PolicyInv, At, Here
  <2>5. ReportInv'
    BY <2>1 DEF PublicationInv, ReportInv, At, Checked, Published, Clear
  <2> QED BY <2>2, <2>3, <2>4, <2>5 DEF PublicationInv
<1> QED BY <1>1, <1>2, <1>3, <1>4, <1>5, PowerLossInv DEF Next

\* The invariant holds in every reachable state of every installation, whatever
\* dies, fails, loses power or is administered meanwhile.
THEOREM PublicationInvHolds ==
    ASSUME PublicationAssumption
    PROVE  Spec => []PublicationInv
<1>1. Init => PublicationInv
  BY InitInv
<1>2. PublicationInv /\ [Next]_vars => PublicationInv'
  BY StepInv
<1> QED BY <1>1, <1>2, PTL DEF Spec

\* copy_across_devices syncs before it links, and the staged bytes were verified:
\* no library path ever names incomplete bytes, after any number of power losses
\* either.
THEOREM PublishedStaysWhole ==
    ASSUME PublicationAssumption
    PROVE  Spec => []PublishedIsWhole
<1>1. PublicationInv => PublishedIsWhole
  <2> SUFFICES ASSUME PublicationInv, NEW f \in Files, file[f].dest # "none"
               PROVE  inode[f][file[f].dest].whole
    BY DEF PublishedIsWhole
  <2>1. file[f].dest \in {"pull", "copy"}
    BY DEF PublicationInv, Types, Entry, Name
  <2>2. CASE file[f].dest = "pull"
    BY <2>2 DEF PublicationInv, WholeInv
  <2>3. CASE file[f].dest = "copy"
    BY <2>3 DEF PublicationInv, WholeInv
  <2> QED BY <2>1, <2>2, <2>3
<1> QED BY <1>1, PublicationInvHolds, PTL

\* create_library_directories changes the mode of no directory but the one it has
\* just made: a mode the administrator chose lasts as long as the directory.
THEOREM PolicyIsKept ==
    ASSUME PublicationAssumption
    PROVE  Spec => []PolicyKept
<1>1. PublicationInv => PolicyKept
  BY DEF PublicationInv, PolicyInv, PolicyKept
<1> QED BY <1>1, PublicationInvHolds, PTL

\* Up to the first power loss, what is reported as installed can be read by every
\* user, on whichever way the report was reached, unless the administrator hid a
\* directory above it.
THEOREM ReportsAreReadable ==
    ASSUME PublicationAssumption
    PROVE  Spec => [](left.power = MaxPower => ReportedIsReadable)
<1>1. PublicationInv => (left.power = MaxPower => ReportedIsReadable)
  <2> SUFFICES ASSUME PublicationInv, left.power = MaxPower, NEW f \in Files,
                      status[f] = "Installed", UntouchedAbove(f)
               PROVE  Readable(f)
    BY DEF ReportedIsReadable
  <2>1. Clear(Kind) /\ Clear(f) /\ file[f].dest # "none"
    BY DEF PublicationInv, ReportInv, Checked, Published
  <2>2. Traversable(f)
    BY <2>1 DEF UntouchedAbove, Clear, Traversable, Chain
  <2>3. file[f].dest \in {"pull", "copy"}
    BY <2>1 DEF PublicationInv, Types, Entry, Name
  <2>4. CASE file[f].dest = "pull"
    BY <2>1, <2>2, <2>4 DEF PublicationInv, ReportInv, Published, Readable
  <2>5. CASE file[f].dest = "copy"
    BY <2>1, <2>2, <2>5 DEF PublicationInv, ReportInv, Published, Readable
  <2> QED BY <2>3, <2>4, <2>5
<1> QED BY <1>1, PublicationInvHolds, PTL
=============================================================================
