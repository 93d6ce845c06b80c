--------------------------- MODULE ReclaimProofs ---------------------------
(***************************************************************************)
(* Proofs about reclaim, for any box, any torrents and any number of       *)
(* changes between its steps: what it deletes is proved, is not the last   *)
(* copy, and is not seeding.                                               *)
(***************************************************************************)
EXTENDS Reclaim, TLAPS

Row == [path : Locals, digest : {"orig", "enc"}]
Record == [digest : {"orig", "enc"}, drifted : BOOLEAN]

\* The fields of a command and of a call, whatever snapshots they hold.
RunShape ==
    run = [at |-> run.at, cmd |-> run.cmd, rows |-> run.rows, verified |-> run.verified, disk |-> run.disk,
           listing |-> run.listing, items |-> run.items, ranked |-> run.ranked, todo |-> run.todo,
           call |-> run.call, shown |-> run.shown, outcome |-> run.outcome]
CallShape(i) ==
    served[i] = [file |-> served[i].file, at |-> served[i].at, snap |-> served[i].snap, proved |-> served[i].proved]
CallsShape == served = [i \in CallIds |-> served[i]] /\ \A i \in CallIds : CallShape(i)

Busy == {"rows", "verify", "list", "guard", "delete"}
Serving == {"query", "inspect", "unlink"}

\* The full types.
Types ==
    /\ box \in [Files -> [there : BOOLEAN, nlink : 1 .. 2]]
    /\ tor \in [Torrents -> TorrentFacts \cup {Absent}]
    /\ qbit \in BOOLEAN
    /\ lib \in [Locals -> {"orig", "enc", "other", Gone}]
    /\ proof \in [Locals -> Record]
    /\ lock \in {"free", "reclaim", "encode"}
    /\ RunShape /\ CallsShape
    /\ run.at \in Busy \cup {"idle"} /\ run.cmd \in {"none", "preview", "apply"}
    /\ run.rows \subseteq Row /\ run.verified \subseteq Locals
    /\ sound \subseteq Locals /\ guarded \in [CallIds -> SUBSET (Torrents \cup {"link"})]

\* The bytes of a library file only ever go from the installed ones to the
\* encoded ones or to something else: a recorded conversion is no original.
EncodedOnce(p, digest) == digest = "enc" => lib[p] # "orig"
LibraryInv == \A p \in Locals : EncodedOnce(p, proof[p].digest)

\* A row that would still verify, and a verified one, were intact in this run.
ProvedInv ==
    run.at # "idle" =>
        /\ \A r \in run.rows : EncodedOnce(r.path, r.digest) /\ (lib[r.path] = r.digest => r.path \in sound)
        /\ run.verified \subseteq sound

\* What is to be deleted was verified; only a running apply asks for it, and the
\* call it waits for is being served.
TodoInv ==
    /\ \A f \in run.todo : f \in Files /\ LocalOf[f] \in run.verified
    /\ run.at # "idle" => run.cmd # "none"
    /\ run.at = "guard" => DOMAIN run.listing \subseteq Files
    /\ run.call \in CallIds \cup {0}
    /\ run.at # "delete" => run.call = 0
    /\ run.at = "delete" => run.cmd = "apply"
    /\ run.call # 0 => served[run.call] # NoDelete /\ served[run.call].file \in run.todo

\* A call being served was proved when it was sent, whoever still waits for it.
CallInv ==
    \A i \in CallIds : served[i] # NoDelete =>
        served[i].file \in Files /\ served[i].at \in Serving /\ served[i].proved

\* While an apply holds the lock and nobody else writes to the library, what
\* was verified stays intact.
HeldInv ==
    /\ run.at # "idle" /\ run.cmd = "apply" => lock = "reclaim"
    /\ Meddling = "idle" /\ run.at # "idle" /\ run.cmd = "apply" =>
        /\ \A r \in run.rows : lib[r.path] = r.digest => Intact(r.path)
        /\ \A p \in run.verified : Intact(p)

\* A reason that held ever since the call arrived is known to the call by the
\* time it unlinks.
GuardOf(i) ==
    /\ guarded[i] \subseteq ServedReasons(i)
    /\ served[i].at = "inspect" => \A t \in guarded[i] \ {"link"} :
          t \in DOMAIN served[i].snap /\ CoversPath(t, served[i].file) /\ BlocksDelete(served[i].snap[t])
    /\ served[i].at = "unlink" => guarded[i] = {}
GuardInv == \A i \in CallIds : GuardOf(i)

\* The candidates without an outcome are the ones to do.
AnswerInv ==
    /\ run.at \in Busy \ {"delete"} => DOMAIN run.outcome = {}
    /\ run.at = "delete" => run.shown = DOMAIN run.outcome \cup run.todo
    /\ EveryCandidateAnswered

\* The inductive invariant.
ReclaimInv == Types /\ LibraryInv /\ ProvedInv /\ TodoInv /\ CallInv /\ HeldInv /\ GuardInv /\ AnswerInv

-----------------------------------------------------------------------------
(* Facts about the parts *)

\* A recorded path is intact exactly when its bytes have the recorded digest.
LEMMA IntactMeans ==
    ASSUME Types, NEW p \in Locals
    PROVE  Intact(p) <=> lib[p] = proof[p].digest
BY DEF Types, Intact, Record, NoProof, Gone

\* The same after a step.
LEMMA IntactMeansNext ==
    ASSUME Types', NEW p \in Locals
    PROVE  Intact(p)' <=> lib'[p] = proof'[p].digest
BY DEF Types, Intact, Record, NoProof, Gone

\* The observer of sound copies forgets nothing during a run.
LEMMA SoundFacts ==
    ASSUME Types, Ghosts
    PROVE  /\ sound' \subseteq Locals
           /\ run.at # "idle" => sound \subseteq sound'
           /\ \A p \in Locals : Intact(p)' => p \in sound'
BY DEF Ghosts, Types

\* The observer of reasons only loses some while a call is served.
LEMMA GuardFacts ==
    ASSUME Types, Ghosts, NEW i \in CallIds
    PROVE  /\ guarded'[i] \subseteq ServedReasons(i)' /\ guarded'[i] \subseteq Torrents \cup {"link"}
           /\ served[i] # NoDelete => guarded'[i] \subseteq guarded[i]
           /\ served'[i] = NoDelete => guarded'[i] = {}
BY DEF Ghosts, Types, ServedReasons

\* The observers keep their types.
LEMMA GhostTypes ==
    ASSUME Types, Ghosts
    PROVE  sound' \subseteq Locals /\ guarded' \in [CallIds -> SUBSET (Torrents \cup {"link"})]
<1>1. guarded' = [i \in CallIds |-> guarded'[i]]
  BY DEF Ghosts
<1>2. \A i \in CallIds : guarded'[i] \in SUBSET (Torrents \cup {"link"})
  BY GuardFacts
<1> QED BY <1>1, <1>2, SoundFacts

\* A step that leaves a call alone.
LEMMA GuardKept ==
    ASSUME Types, GuardInv, Ghosts, NEW i \in CallIds, served'[i] = served[i]
    PROVE  GuardOf(i)'
<1>1. CASE served[i] = NoDelete
  <2>1. served'[i].at = "none"
    BY <1>1 DEF NoDelete
  <2> QED BY <2>1, GuardFacts DEF GuardOf
<1>2. CASE served[i] # NoDelete
  BY <1>2, GuardFacts DEF GuardInv, GuardOf
<1> QED BY <1>1, <1>2

\* A step that ends a call.
LEMMA GuardEnded ==
    ASSUME Types, Ghosts, NEW i \in CallIds, served'[i] = NoDelete
    PROVE  GuardOf(i)'
<1>1. served'[i].at = "none"
  BY DEF NoDelete
<1> QED BY <1>1, GuardFacts DEF GuardOf

\* A step that leaves all calls alone.
LEMMA CallsKept ==
    ASSUME ReclaimInv, Ghosts, served' = served
    PROVE  CallsShape' /\ CallInv' /\ GuardInv'
<1>1. Types /\ GuardInv
  BY DEF ReclaimInv
<1>2. CallsShape'
  BY <1>1 DEF Types, CallsShape, CallShape
<1>3. GuardInv'
  BY <1>1, GuardKept DEF GuardInv
<1>4. CallInv'
  BY DEF ReclaimInv, CallInv
<1> QED BY <1>2, <1>3, <1>4

\* A step that changes one call.
LEMMA OneCall ==
    ASSUME ReclaimInv, Ghosts, NEW i \in CallIds, NEW v, served' = [served EXCEPT ![i] = v],
           v = [file |-> v.file, at |-> v.at, snap |-> v.snap, proved |-> v.proved],
           v # NoDelete => v.file \in Files /\ v.at \in Serving /\ v.proved
    PROVE  /\ CallsShape' /\ CallInv' /\ (GuardOf(i)' => GuardInv')
           /\ served'[i] = v /\ \A j \in CallIds \ {i} : served'[j] = served[j]
<1>1. Types /\ GuardInv
  BY DEF ReclaimInv
<1>2. served = [j \in CallIds |-> served[j]] /\ \A j \in CallIds : CallShape(j)
  BY <1>1 DEF Types, CallsShape
<1>3. served'[i] = v /\ \A j \in CallIds \ {i} : served'[j] = served[j]
  BY <1>2
<1>4. served' = [j \in CallIds |-> served'[j]]
  BY <1>2
<1>5. \A j \in CallIds : CallShape(j)'
  BY <1>2, <1>3 DEF CallShape
<1>6. CallInv'
  BY <1>3 DEF ReclaimInv, CallInv
<1>7. ASSUME GuardOf(i)', NEW j \in CallIds PROVE GuardOf(j)'
  BY <1>1, <1>3, <1>7, GuardKept
<1>8. CallsShape'
  BY <1>4, <1>5 DEF CallsShape
<1>9. GuardOf(i)' => GuardInv'
  BY <1>7 DEF GuardInv
<1> QED BY <1>3, <1>6, <1>8, <1>9

\* A call that ends.
LEMMA CallEnds ==
    ASSUME ReclaimInv, Ghosts, NEW i \in CallIds, served' = [served EXCEPT ![i] = NoDelete]
    PROVE  CallsShape' /\ CallInv' /\ GuardInv' /\ \A j \in CallIds \ {i} : served'[j] = served[j]
<1>1. NoDelete = [file |-> NoDelete.file, at |-> NoDelete.at, snap |-> NoDelete.snap, proved |-> NoDelete.proved]
  BY DEF NoDelete
<1>2. /\ CallsShape' /\ CallInv' /\ (GuardOf(i)' => GuardInv')
      /\ served'[i] = NoDelete /\ \A j \in CallIds \ {i} : served'[j] = served[j]
  BY <1>1, OneCall
<1>3. GuardOf(i)'
  BY <1>2, GuardEnded DEF ReclaimInv
<1> QED BY <1>2, <1>3

\* What everyone else does between two steps of the command.
LEMMA OthersStep ==
    ASSUME ReclaimInv, Ghosts, UNCHANGED <<run, served>>,
           box' \in [Files -> [there : BOOLEAN, nlink : 1 .. 2]],
           tor' \in [Torrents -> TorrentFacts \cup {Absent}],
           qbit' \in BOOLEAN,
           lib' \in [Locals -> {"orig", "enc", "other", Gone}],
           proof' \in [Locals -> Record],
           lock' \in {"free", "reclaim", "encode"},
           \A p \in Locals : \/ lib'[p] = lib[p] \/ lib'[p] \in {"other", Gone}
                             \/ lib[p] = "orig" /\ lib'[p] = "enc",
           \A p \in Locals : \/ proof'[p].digest = proof[p].digest
                             \/ proof'[p].digest = "enc" /\ lib'[p] # "orig",
           run.at # "idle" /\ lock = "reclaim" =>
               /\ lock' = "reclaim" /\ \A p \in Locals : proof'[p].digest = proof[p].digest
               /\ Meddling = "idle" => lib' = lib
    PROVE  ReclaimInv'
<1>1. Types
  BY DEF ReclaimInv
<1>2. Types'
  BY <1>1, GhostTypes, CallsKept DEF Types, RunShape
<1>3. LibraryInv'
  BY <1>1 DEF ReclaimInv, LibraryInv, EncodedOnce, Gone
<1>4. ProvedInv'
  <2> SUFFICES ASSUME run.at # "idle" PROVE ProvedInv'
    BY DEF ProvedInv
  <2>1. sound \subseteq sound'
    BY <1>1, SoundFacts
  <2>2. ASSUME NEW r \in run.rows
        PROVE  EncodedOnce(r.path, r.digest)' /\ (lib'[r.path] = r.digest => r.path \in sound')
    <3>1. r.path \in Locals /\ r.digest \in {"orig", "enc"}
      BY <1>1, <2>2 DEF Types, Row
    <3>2. EncodedOnce(r.path, r.digest) /\ (lib[r.path] = r.digest => r.path \in sound)
      BY <2>2 DEF ReclaimInv, ProvedInv
    <3> QED BY <2>1, <3>1, <3>2 DEF EncodedOnce, Gone
  <2> QED BY <2>1, <2>2 DEF ReclaimInv, ProvedInv
<1>5. TodoInv' /\ AnswerInv'
  BY DEF ReclaimInv, TodoInv, AnswerInv, EveryCandidateAnswered
<1>6. HeldInv'
  <2>1. CASE run.at # "idle" /\ run.cmd = "apply"
    <3>1. lock = "reclaim" /\ lock' = "reclaim" /\ \A p \in Locals : proof'[p].digest = proof[p].digest
      BY <2>1 DEF ReclaimInv, HeldInv
    <3>2. ASSUME Meddling = "idle", NEW p \in Locals PROVE Intact(p)' <=> Intact(p)
      BY <1>1, <1>2, <2>1, <3>1, <3>2, IntactMeans, IntactMeansNext
    <3>3. run.verified \subseteq Locals /\ \A r \in run.rows : r.path \in Locals
      BY <1>1 DEF Types, Row
    <3>4. ASSUME Meddling = "idle"
          PROVE  /\ \A r \in run'.rows : lib'[r.path] = r.digest => Intact(r.path)'
                 /\ \A p \in run'.verified : Intact(p)'
      BY <2>1, <3>1, <3>2, <3>3, <3>4 DEF ReclaimInv, HeldInv
    <3> QED BY <3>1, <3>4 DEF HeldInv
  <2>2. CASE ~(run.at # "idle" /\ run.cmd = "apply")
    BY <2>2 DEF HeldInv
  <2> QED BY <2>1, <2>2
<1>7. GuardInv' /\ CallInv'
  BY CallsKept
<1> QED BY <1>2, <1>3, <1>4, <1>5, <1>6, <1>7 DEF ReclaimInv

\* A step of the command that leaves files, torrents and library alone and
\* serves no call: what is left to show about its new state.
LEMMA CommandKeeps ==
    ASSUME ReclaimInv, Ghosts, UNCHANGED <<box, tor, qbit, lib, proof, served>>,
           lock' \in {"free", "reclaim", "encode"}, RunShape',
           run'.at \in Busy \cup {"idle"}, run'.cmd \in {"none", "preview", "apply"},
           run'.rows \subseteq Row, run'.verified \subseteq Locals
    PROVE  /\ Types' /\ LibraryInv' /\ CallInv' /\ GuardInv'
           /\ \A p \in Locals : Intact(p)' <=> Intact(p)
<1>1. Types
  BY DEF ReclaimInv
<1>2. Types'
  BY <1>1, GhostTypes, CallsKept DEF Types
<1>3. LibraryInv'
  BY DEF ReclaimInv, LibraryInv, EncodedOnce
<1>4. CallInv' /\ GuardInv'
  BY CallsKept
<1> QED BY <1>1, <1>2, <1>3, <1>4, IntactMeans, IntactMeansNext

-----------------------------------------------------------------------------
(* Collecting the snapshots and planning *)

\* Every file is there, no proof has drifted and no command runs.
LEMMA InitInv ==
    ASSUME ReclaimAssumption, Init
    PROVE  ReclaimInv
<1>1. Types
  <2>1. served = [i \in CallIds |-> NoDelete] /\ guarded = [i \in CallIds |-> {}]
    BY DEF Init
  <2>2. CallsShape
    BY <2>1 DEF CallsShape, CallShape, NoDelete
  <2> QED BY <2>1, <2>2 DEF Init, Types, RunShape, NoRun, Busy, Record
<1>2. LibraryInv
  BY DEF Init, LibraryInv, EncodedOnce
<1>3. run.at = "idle" /\ run.cmd = "none" /\ run.todo = {} /\ run.call = 0
  BY DEF Init, NoRun
<1>4. ProvedInv /\ TodoInv /\ HeldInv
  BY <1>3 DEF ProvedInv, TodoInv, HeldInv
<1>5. \A i \in CallIds : served[i] = NoDelete /\ served[i].at = "none" /\ guarded[i] = {}
  BY DEF Init, NoDelete
<1>6. CallInv /\ GuardInv /\ AnswerInv
  BY <1>3, <1>5 DEF CallInv, GuardInv, GuardOf, AnswerInv, EveryCandidateAnswered, Busy
<1> QED BY <1>1, <1>2, <1>4, <1>6 DEF ReclaimInv

\* A new command knows nothing; an apply holds the lock.
LEMMA BeginInv ==
    ASSUME ReclaimInv, Ghosts, NEW cmd \in {"preview", "apply"}, Begin(cmd)
    PROVE  ReclaimInv'
<1>1. UNCHANGED <<box, tor, qbit, lib, proof, served>> /\ run.at = "idle" /\ Types
  BY DEF Begin, World, ReclaimInv
<1>2. /\ RunShape' /\ run'.at = "rows" /\ run'.cmd = cmd /\ run'.rows = {} /\ run'.verified = {}
      /\ run'.todo = {} /\ run'.call = 0 /\ run'.outcome = [f \in {} |-> "none"]
  BY DEF Begin, NoRun, RunShape
<1>3. lock' \in {"free", "reclaim", "encode"} /\ (cmd = "apply" => lock' = "reclaim")
  BY <1>1 DEF Begin, Types
<1>4. Types' /\ LibraryInv' /\ CallInv' /\ GuardInv'
  BY <1>1, <1>2, <1>3, CommandKeeps DEF Busy
<1>5. ProvedInv' /\ HeldInv'
  BY <1>2, <1>3 DEF ProvedInv, HeldInv
<1>6. TodoInv'
  BY <1>1, <1>2 DEF ReclaimInv, TodoInv
<1>7. AnswerInv'
  BY <1>2 DEF AnswerInv, EveryCandidateAnswered
<1> QED BY <1>4, <1>5, <1>6, <1>7 DEF ReclaimInv

\* The rows read are the recorded digests of this moment.
LEMMA RowsInv ==
    ASSUME ReclaimInv, Ghosts, Rows
    PROVE  ReclaimInv'
<1> DEFINE read == {[path |-> p, digest |-> proof[p].digest] :
                       p \in {q \in Locals : proof[q] # NoProof /\ ~proof[q].drifted}}
<1>1. UNCHANGED <<box, tor, qbit, lib, proof, served, lock>> /\ run.at = "rows" /\ Types
  BY DEF Rows, World, ReclaimInv
<1>2. \A r \in read : r.path \in Locals /\ r.digest = proof[r.path].digest
  OBVIOUS
<1>3. read \subseteq Row
  BY <1>1 DEF Types, Row, Record
<1>4. run' = [run EXCEPT !.at = "verify", !.rows = read]
  BY DEF Rows
<1> HIDE DEF read
<1>5. /\ RunShape' /\ run'.at = "verify" /\ run'.cmd = run.cmd /\ run'.rows = read /\ run'.verified = run.verified
      /\ run'.todo = run.todo /\ run'.call = run.call /\ run'.outcome = run.outcome
  BY <1>1, <1>4 DEF Types, RunShape
<1>6. Types' /\ LibraryInv' /\ CallInv' /\ GuardInv' /\ (\A p \in Locals : Intact(p)' <=> Intact(p))
  BY <1>1, <1>3, <1>5, CommandKeeps DEF Busy, Types
<1>7. \A r \in read : lib[r.path] = r.digest => Intact(r.path)
  BY <1>1, <1>2, IntactMeans
<1>8. ProvedInv'
  <2>1. run'.verified \subseteq sound'
    BY <1>1, <1>5, SoundFacts DEF ReclaimInv, ProvedInv
  <2>2. \A r \in read : EncodedOnce(r.path, r.digest)'
    BY <1>1, <1>2 DEF ReclaimInv, LibraryInv, EncodedOnce
  <2>3. \A r \in read : lib'[r.path] = r.digest => r.path \in sound'
    BY <1>1, <1>2, <1>6, <1>7, SoundFacts
  <2> QED BY <1>5, <2>1, <2>2, <2>3 DEF ProvedInv
<1>9. HeldInv'
  <2>1. run.verified \subseteq Locals
    BY <1>1 DEF Types
  <2> QED BY <1>1, <1>2, <1>5, <1>6, <1>7, <2>1 DEF ReclaimInv, HeldInv
<1>10. TodoInv' /\ AnswerInv'
  BY <1>1, <1>5 DEF ReclaimInv, TodoInv, AnswerInv, EveryCandidateAnswered, Busy
<1> QED BY <1>6, <1>8, <1>9, <1>10 DEF ReclaimInv

\* A row verifies only if its bytes have its digest now.
LEMMA VerifyRowInv ==
    ASSUME ReclaimInv, Ghosts, VerifyRow
    PROVE  ReclaimInv'
<1>1. UNCHANGED <<box, tor, qbit, lib, proof, served, lock>> /\ run.at = "verify" /\ Types
  BY DEF VerifyRow, World, ReclaimInv
<1>2. PICK row \in run.rows :
        run' = [run EXCEPT !.rows = @ \ {row},
                           !.verified = IF lib[row.path] = row.digest THEN @ \cup {row.path} ELSE @]
  BY DEF VerifyRow
<1>3. /\ RunShape' /\ run'.at = "verify" /\ run'.cmd = run.cmd /\ run'.rows = run.rows \ {row}
      /\ run'.verified = IF lib[row.path] = row.digest THEN run.verified \cup {row.path} ELSE run.verified
      /\ run'.todo = run.todo /\ run'.call = run.call /\ run'.outcome = run.outcome
  BY <1>1, <1>2 DEF Types, RunShape
<1>4. /\ \A r \in run.rows : r.path \in Locals /\ r \in Row
      /\ run.verified \subseteq Locals /\ row.path \in Locals
  BY <1>1 DEF Types, Row
<1>5. /\ run'.verified \subseteq run.verified \cup {row.path}
      /\ row.path \in run'.verified => row.path \in run.verified \/ lib[row.path] = row.digest
      /\ run.verified \subseteq run'.verified
  BY <1>3
<1>6. Types' /\ LibraryInv' /\ CallInv' /\ GuardInv' /\ (\A p \in Locals : Intact(p)' <=> Intact(p))
  BY <1>1, <1>3, <1>4, <1>5, CommandKeeps DEF Busy, Types
<1>7. ProvedInv'
  <2>1. sound \subseteq sound'
    BY <1>1, SoundFacts
  <2>2. run'.verified \subseteq sound'
    BY <1>1, <1>5, <2>1 DEF ReclaimInv, ProvedInv
  <2> QED BY <1>1, <1>3, <2>1, <2>2 DEF ReclaimInv, ProvedInv, EncodedOnce
<1>8. HeldInv'
  BY <1>1, <1>3, <1>4, <1>5, <1>6 DEF ReclaimInv, HeldInv
<1>9. TodoInv'
  BY <1>1, <1>3, <1>5 DEF ReclaimInv, TodoInv
<1>10. AnswerInv'
  BY <1>1, <1>3 DEF ReclaimInv, AnswerInv, EveryCandidateAnswered, Busy
<1> QED BY <1>6, <1>7, <1>8, <1>9, <1>10 DEF ReclaimInv

\* The scan and the listing are snapshots that nothing else relies on.
LEMMA ScanInv ==
    ASSUME ReclaimInv, Ghosts, ScanDisk \/ ListBox
    PROVE  ReclaimInv'
<1>1. /\ UNCHANGED <<box, tor, qbit, lib, proof, served, lock>> /\ run.at \in {"verify", "list"} /\ Types
  BY DEF ScanDisk, ListBox, World, ReclaimInv
<1>2. /\ RunShape' /\ run'.at \in {"list", "guard"} /\ run'.cmd = run.cmd /\ run'.rows = run.rows
      /\ run'.verified = run.verified /\ run'.todo = run.todo /\ run'.call = run.call /\ run'.outcome = run.outcome
  BY <1>1 DEF ScanDisk, ListBox, Types, RunShape
<1>3. Types' /\ LibraryInv' /\ CallInv' /\ GuardInv' /\ (\A p \in Locals : Intact(p)' <=> Intact(p))
  BY <1>1, <1>2, CommandKeeps DEF Busy, Types
<1>4. ProvedInv'
  BY <1>1, <1>2, SoundFacts DEF ReclaimInv, ProvedInv, EncodedOnce
<1>5. HeldInv'
  <2>1. run.verified \subseteq Locals /\ \A r \in run.rows : r.path \in Locals
    BY <1>1 DEF Types, Row
  <2> QED BY <1>1, <1>2, <1>3, <2>1 DEF ReclaimInv, HeldInv
<1>6. run'.at = "guard" => DOMAIN run'.listing \subseteq Files
  <2>1. CASE ScanDisk
    BY <1>1, <2>1 DEF ScanDisk, Types, RunShape
  <2>2. CASE ListBox
    <3> DEFINE listing == [f \in Listed(box) |-> box[f].nlink]
    <3>1. DOMAIN listing \subseteq Files
      BY DEF Listed
    <3>2. run' = [run EXCEPT !.at = "guard", !.listing = listing]
      BY <2>2 DEF ListBox
    <3> HIDE DEF listing
    <3>3. run'.listing = listing
      BY <1>1, <3>2 DEF Types, RunShape
    <3> QED BY <3>1, <3>3
  <2> QED BY <2>1, <2>2
<1>7. TodoInv' /\ AnswerInv'
  BY <1>1, <1>2, <1>6 DEF ReclaimInv, TodoInv, AnswerInv, EveryCandidateAnswered, Busy
<1> QED BY <1>3, <1>4, <1>5, <1>7 DEF ReclaimInv

\* A command that has ended keeps its report.
LEMMA EndedFacts ==
    ASSUME NEW r
    PROVE  /\ Ended(r).at = "idle" /\ Ended(r).cmd = r.cmd /\ Ended(r).rows = {} /\ Ended(r).verified = {}
           /\ Ended(r).todo = {} /\ Ended(r).call = 0 /\ Ended(r).outcome = r.outcome /\ Ended(r).shown = r.shown
           /\ Ended(r) = [at |-> Ended(r).at, cmd |-> Ended(r).cmd, rows |-> Ended(r).rows,
                          verified |-> Ended(r).verified, disk |-> Ended(r).disk, listing |-> Ended(r).listing,
                          items |-> Ended(r).items, ranked |-> Ended(r).ranked, todo |-> Ended(r).todo,
                          call |-> Ended(r).call, shown |-> Ended(r).shown, outcome |-> Ended(r).outcome]
<1> DEFINE noListing == [f \in {} |-> 0]
           noItems == [t \in {} |-> NoCopy]
           noOutcome == [f \in {} |-> "none"]
           blank == [at |-> "idle", cmd |-> "none", rows |-> {}, verified |-> {}, disk |-> {},
                     listing |-> noListing, items |-> noItems, ranked |-> FALSE, todo |-> {}, call |-> 0,
                     shown |-> {}, outcome |-> noOutcome]
<1>1. Ended(r) = [blank EXCEPT !.shown = r.shown, !.outcome = r.outcome, !.cmd = r.cmd]
  BY DEF Ended, NoRun
<1> HIDE DEF noListing, noItems, noOutcome
<1>2. Ended(r) = [at |-> "idle", cmd |-> r.cmd, rows |-> {}, verified |-> {}, disk |-> {},
                  listing |-> noListing, items |-> noItems, ranked |-> FALSE, todo |-> {}, call |-> 0,
                  shown |-> r.shown, outcome |-> r.outcome]
  BY <1>1
<1> QED BY <1>2

\* Candidates are proved: their library path is among the verified ones.
LEMMA CandidateFacts ==
    ASSUME NEW q, NEW r, NEW f \in Truncated(q, Proved(r)) \cup Truncated(q, Unblocked(r))
    PROVE  LocalOf[f] \in r.verified /\ f \in DOMAIN r.listing
BY DEF Truncated, Proved, Unblocked

\* A plan deletes only what was verified.
LEMMA PlanRunInv ==
    ASSUME ReclaimInv, Ghosts, PlanRun
    PROVE  ReclaimInv'
<1> DEFINE planned == [run EXCEPT !.items = GuardItems, !.ranked = ~Unavailable]
           todo == Truncated(planned, IF Unavailable THEN Proved(run) ELSE Unblocked(planned))
           shown == IF Unavailable THEN {} ELSE todo
<1>1. UNCHANGED <<box, tor, qbit, lib, proof, served, lock>> /\ run.at = "guard" /\ Types /\ run.call = 0
  BY DEF PlanRun, World, ReclaimInv, TodoInv
<1>2. /\ planned.verified = run.verified /\ planned.listing = run.listing /\ planned.rows = run.rows
      /\ planned.outcome = run.outcome /\ planned.cmd = run.cmd /\ planned.call = run.call
  BY <1>1 DEF Types, RunShape
<1>3. \A f \in todo : f \in Files /\ LocalOf[f] \in run.verified
  <2>1. todo = Truncated(planned, Proved(run)) \/ todo = Truncated(planned, Unblocked(planned))
    OBVIOUS
  <2> HIDE DEF planned, todo
  <2> QED BY <1>1, <1>2, <2>1, CandidateFacts DEF ReclaimInv, TodoInv
<1>4. IF run.cmd = "preview" THEN run' = Ended([planned EXCEPT !.shown = shown])
      ELSE run' = [planned EXCEPT !.at = "delete", !.todo = todo, !.shown = todo]
  BY DEF PlanRun
<1> HIDE DEF todo
<1>5. CASE run.cmd = "preview" /\ run' = Ended([planned EXCEPT !.shown = shown])
  <2>1. [planned EXCEPT !.shown = shown].cmd = "preview"
    BY <1>1, <1>5 DEF Types, RunShape
  <2> HIDE DEF shown, planned
  <2>2. /\ RunShape' /\ run'.at = "idle" /\ run'.cmd = "preview" /\ run'.rows = {} /\ run'.verified = {}
        /\ run'.todo = {} /\ run'.call = 0
    BY <1>5, <2>1, EndedFacts DEF RunShape
  <2>3. Types' /\ LibraryInv' /\ CallInv' /\ GuardInv'
    BY <1>1, <2>2, CommandKeeps DEF Types
  <2>4. ProvedInv' /\ TodoInv' /\ HeldInv' /\ AnswerInv'
    BY <1>1, <2>2 DEF ProvedInv, TodoInv, HeldInv, AnswerInv, EveryCandidateAnswered, Busy
  <2> QED BY <2>3, <2>4 DEF ReclaimInv
<1>6. CASE run.cmd # "preview" /\ run' = [planned EXCEPT !.at = "delete", !.todo = todo, !.shown = todo]
  <2>1. /\ RunShape' /\ run'.at = "delete" /\ run'.cmd = run.cmd /\ run'.rows = run.rows
        /\ run'.verified = run.verified /\ run'.todo = todo /\ run'.shown = todo /\ run'.outcome = run.outcome
        /\ run'.call = 0
    BY <1>1, <1>6 DEF Types, RunShape
  <2>2. Types' /\ LibraryInv' /\ CallInv' /\ GuardInv' /\ (\A p \in Locals : Intact(p)' <=> Intact(p))
    BY <1>1, <2>1, CommandKeeps DEF Busy, Types
  <2>3. ProvedInv'
    BY <1>1, <2>1, SoundFacts DEF ReclaimInv, ProvedInv, EncodedOnce
  <2>4. HeldInv'
    <3>1. run.verified \subseteq Locals /\ \A r \in run.rows : r.path \in Locals
      BY <1>1 DEF Types, Row
    <3> QED BY <1>1, <2>1, <2>2, <3>1 DEF ReclaimInv, HeldInv
  <2>5. run.cmd = "apply"
    BY <1>1, <1>6 DEF ReclaimInv, AnswerInv, TodoInv, Types
  <2>6. TodoInv'
    BY <1>1, <1>3, <2>1, <2>5 DEF TodoInv
  <2>7. AnswerInv'
    BY <1>1, <2>1 DEF ReclaimInv, AnswerInv, EveryCandidateAnswered, Busy
  <2> QED BY <2>2, <2>3, <2>4, <2>6, <2>7 DEF ReclaimInv
<1> QED BY <1>4, <1>5, <1>6

\* An apply that has an outcome for every candidate ends and gives up the lock.
LEMMA FinishInv ==
    ASSUME ReclaimInv, Ghosts, Finish
    PROVE  ReclaimInv'
<1>1. /\ UNCHANGED <<box, tor, qbit, lib, proof, served>> /\ lock' = "free" /\ Types
      /\ run.at = "delete" /\ run.todo = {} /\ run' = Ended(run)
  BY DEF Finish, World, ReclaimInv
<1>2. /\ RunShape' /\ run'.at = "idle" /\ run'.cmd = run.cmd /\ run'.rows = {} /\ run'.verified = {}
      /\ run'.todo = {} /\ run'.call = 0 /\ run'.shown = run.shown /\ run'.outcome = run.outcome
  BY <1>1, EndedFacts DEF RunShape
<1>3. Types' /\ LibraryInv' /\ CallInv' /\ GuardInv'
  BY <1>1, <1>2, CommandKeeps DEF Types
<1>4. ProvedInv' /\ TodoInv' /\ HeldInv'
  BY <1>1, <1>2 DEF ProvedInv, TodoInv, HeldInv
<1>5. AnswerInv'
  BY <1>1, <1>2 DEF ReclaimInv, AnswerInv, EveryCandidateAnswered, Busy
<1> QED BY <1>3, <1>4, <1>5 DEF ReclaimInv

-----------------------------------------------------------------------------
(* DeleteRemote *)

\* A step of a call leaves the library and the plan alone: what is left to show.
LEMMA CallKeeps ==
    ASSUME ReclaimInv, Ghosts, UNCHANGED <<tor, qbit, lib, proof, lock>>,
           box' \in [Files -> [there : BOOLEAN, nlink : 1 .. 2]], CallsShape', CallInv', GuardInv',
           RunShape', run'.at = run.at, run'.cmd = run.cmd, run'.rows = run.rows, run'.listing = run.listing,
           run'.verified = run.verified, run'.todo \subseteq run.todo,
           run'.call \in CallIds \cup {0}, run'.call # 0 => run.at = "delete",
           run'.call # 0 => served'[run'.call] # NoDelete /\ served'[run'.call].file \in run'.todo,
           AnswerInv'
    PROVE  ReclaimInv'
<1>1. Types
  BY DEF ReclaimInv
<1>2. Types'
  BY <1>1, GhostTypes DEF Types
<1>3. LibraryInv'
  BY DEF ReclaimInv, LibraryInv, EncodedOnce
<1>4. ProvedInv'
  BY <1>1, SoundFacts DEF ReclaimInv, ProvedInv, EncodedOnce
<1>5. TodoInv'
  BY DEF ReclaimInv, TodoInv
<1>6. HeldInv'
  <2>1. \A p \in Locals : Intact(p)' <=> Intact(p)
    BY <1>1, <1>2, IntactMeans, IntactMeansNext
  <2>2. run.verified \subseteq Locals /\ \A r \in run.rows : r.path \in Locals
    BY <1>1 DEF Types, Row
  <2> QED BY <2>1, <2>2 DEF ReclaimInv, HeldInv
<1> QED BY <1>2, <1>3, <1>4, <1>5, <1>6 DEF ReclaimInv

\* A step of a call that tells the command nothing.
LEMMA RunKept ==
    ASSUME ReclaimInv, run' = run
    PROVE  RunShape' /\ AnswerInv'
BY DEF ReclaimInv, Types, RunShape, AnswerInv, EveryCandidateAnswered

\* An outcome moves the candidate from the ones to do to the outcomes.
LEMMA NotedFacts ==
    ASSUME ReclaimInv, NEW out, run.call # 0, run' = Noted(out)
    PROVE  /\ RunShape' /\ run'.at = run.at /\ run'.cmd = run.cmd /\ run'.rows = run.rows
           /\ run'.listing = run.listing /\ run'.verified = run.verified /\ run'.todo \subseteq run.todo
           /\ run'.call = 0 /\ AnswerInv'
<1> DEFINE g == served[run.call].file
           noted == [f \in DOMAIN run.outcome \cup {g} |-> IF f = g THEN out ELSE run.outcome[f]]
<1>1. Types /\ run.at = "delete" /\ g \in run.todo
  BY DEF ReclaimInv, TodoInv
<1>2. run' = [run EXCEPT !.todo = run.todo \ {g}, !.call = 0, !.outcome = noted]
  BY <1>1 DEF Noted, Types, RunShape
<1>3. DOMAIN noted = DOMAIN run.outcome \cup {g}
  OBVIOUS
<1> HIDE DEF noted, g
<1>4. /\ RunShape' /\ run'.at = run.at /\ run'.cmd = run.cmd /\ run'.rows = run.rows
      /\ run'.listing = run.listing /\ run'.verified = run.verified /\ run'.todo = run.todo \ {g}
      /\ run'.call = 0 /\ run'.shown = run.shown /\ run'.outcome = noted
  BY <1>1, <1>2 DEF Types, RunShape
<1>5. run'.shown = DOMAIN run'.outcome \cup run'.todo
  BY <1>1, <1>3, <1>4 DEF ReclaimInv, AnswerInv
<1>6. AnswerInv'
  BY <1>1, <1>4, <1>5 DEF AnswerInv, EveryCandidateAnswered, Busy
<1> QED BY <1>4, <1>6

\* A call ends; the command hears of it if it still waits.
LEMMA AnswerKeeps ==
    ASSUME ReclaimInv, Ghosts, NEW i \in CallIds, NEW out, Answer(i, out),
           UNCHANGED <<tor, qbit, lib, proof, lock>>,
           box' \in [Files -> [there : BOOLEAN, nlink : 1 .. 2]]
    PROVE  ReclaimInv'
<1>1. CallsShape' /\ CallInv' /\ GuardInv' /\ \A j \in CallIds \ {i} : served'[j] = served[j]
  BY CallEnds DEF Answer
<1>2. CASE run.call = i
  <2>1. run.call # 0 /\ run' = Noted(out)
    BY <1>2 DEF Answer, CallIds
  <2> QED BY <1>1, <2>1, NotedFacts, CallKeeps
<1>3. CASE run.call # i
  <2>1. run' = run
    BY <1>3 DEF Answer
  <2>2. /\ run.call \in CallIds \cup {0} /\ (run.call # 0 => run.at = "delete")
        /\ run.call # 0 => served'[run.call] # NoDelete /\ served'[run.call].file \in run.todo
    BY <1>1, <1>3 DEF ReclaimInv, TodoInv
  <2>3. RunShape' /\ AnswerInv'
    BY <2>1, RunKept
  <2> QED BY <1>1, <2>1, <2>2, <2>3, CallKeeps
<1> QED BY <1>2, <1>3

\* The next candidate is sent.
LEMMA SendDeleteInv ==
    ASSUME ReclaimInv, Ghosts, SendDelete
    PROVE  ReclaimInv'
<1>1. UNCHANGED <<box, tor, qbit, lib, proof, lock>> /\ run.at = "delete" /\ Types
  BY DEF SendDelete, World, ReclaimInv
<1>2. PICK f \in run.todo, i \in CallIds :
        /\ served' = [served EXCEPT ![i] = [file |-> f, at |-> "query", snap |-> NoTorrents,
                                            proved |-> LocalOf[f] \in sound]]
        /\ run' = [run EXCEPT !.call = i] /\ served[i] = NoDelete
  BY DEF SendDelete
<1> DEFINE v == [file |-> f, at |-> "query", snap |-> NoTorrents, proved |-> LocalOf[f] \in sound]
<1>3. f \in Files /\ LocalOf[f] \in sound
  BY <1>1 DEF ReclaimInv, TodoInv, ProvedInv
<1>4. /\ v = [file |-> v.file, at |-> v.at, snap |-> v.snap, proved |-> v.proved]
      /\ v.file = f /\ v.at = "query" /\ v.proved
  BY <1>3
<1>5. v # NoDelete
  BY <1>4 DEF NoDelete
<1>6. served' = [served EXCEPT ![i] = v]
  BY <1>2
<1> HIDE DEF v
<1>7. CallsShape' /\ CallInv' /\ (GuardOf(i)' => GuardInv') /\ served'[i] = v
  BY <1>3, <1>4, <1>6, OneCall DEF Serving
<1>8. GuardOf(i)'
  BY <1>1, <1>4, <1>7, GuardFacts DEF GuardOf
<1>9. /\ RunShape' /\ run'.at = run.at /\ run'.cmd = run.cmd /\ run'.rows = run.rows
      /\ run'.listing = run.listing /\ run'.verified = run.verified /\ run'.todo = run.todo
      /\ run'.call = i /\ run'.shown = run.shown /\ run'.outcome = run.outcome
  BY <1>1, <1>2 DEF Types, RunShape
<1>10. AnswerInv'
  BY <1>9 DEF ReclaimInv, AnswerInv, EveryCandidateAnswered
<1>11. box' \in [Files -> [there : BOOLEAN, nlink : 1 .. 2]]
  BY <1>1 DEF Types
<1> QED BY <1>1, <1>4, <1>5, <1>7, <1>8, <1>9, <1>10, <1>11, CallKeeps

\* A call goes on to its next step: what is left to show of it.
LEMMA CallProceeds ==
    ASSUME ReclaimInv, Ghosts, UNCHANGED <<box, tor, qbit, lib, proof, lock, run>>, NEW i \in CallIds, NEW v,
           served' = [served EXCEPT ![i] = v],
           v = [file |-> v.file, at |-> v.at, snap |-> v.snap, proved |-> v.proved],
           served[i] # NoDelete, v # NoDelete, v.file = served[i].file, v.proved = served[i].proved,
           v.at \in Serving, served'[i] = v => GuardOf(i)'
    PROVE  ReclaimInv'
<1>1. served[i].file \in Files /\ served[i].proved
  BY DEF ReclaimInv, CallInv
<1>2. /\ CallsShape' /\ CallInv' /\ (GuardOf(i)' => GuardInv')
      /\ served'[i] = v /\ \A j \in CallIds \ {i} : served'[j] = served[j]
  BY <1>1, OneCall
<1>3. /\ run.call \in CallIds \cup {0} /\ (run.call # 0 => run.at = "delete")
      /\ run.call # 0 => served'[run.call] # NoDelete /\ served'[run.call].file \in run.todo
  BY <1>2 DEF ReclaimInv, TodoInv
<1>4. box' \in [Files -> [there : BOOLEAN, nlink : 1 .. 2]]
  BY DEF ReclaimInv, Types
<1>5. RunShape' /\ AnswerInv'
  BY RunKept
<1> QED BY <1>2, <1>3, <1>4, <1>5, CallKeeps

\* What qBittorrent reports inside the call covers every lasting reason.
LEMMA QueryQbitInv ==
    ASSUME ReclaimInv, Ghosts, NEW i \in CallIds, QueryQbit(i)
    PROVE  ReclaimInv'
<1>1. /\ UNCHANGED <<box, tor, qbit, lib, proof, lock>> /\ served[i].at = "query" /\ Types
      /\ box' \in [Files -> [there : BOOLEAN, nlink : 1 .. 2]]
  BY DEF QueryQbit, World, ReclaimInv, Types
<1>2. served[i] # NoDelete
  BY <1>1 DEF NoDelete
<1>3. CASE Answer(i, "qbit_unavailable")
  BY <1>1, <1>3, AnswerKeeps
<1>4. CASE /\ ~Unavailable /\ run' = run
           /\ served' = [served EXCEPT ![i] = [file |-> served[i].file, at |-> "inspect", snap |-> Snapshot,
                                               proved |-> served[i].proved]]
  <2> DEFINE v == [file |-> served[i].file, at |-> "inspect", snap |-> Snapshot, proved |-> served[i].proved]
  <2>1. served' = [served EXCEPT ![i] = v]
    BY <1>4
  <2>2. /\ v = [file |-> v.file, at |-> v.at, snap |-> v.snap, proved |-> v.proved]
        /\ v.file = served[i].file /\ v.at = "inspect" /\ v.snap = Snapshot /\ v.proved = served[i].proved
    OBVIOUS
  <2> HIDE DEF v
  <2>3. v # NoDelete
    BY <2>2 DEF NoDelete
  <2>4. ASSUME served'[i] = v PROVE GuardOf(i)'
    <3>1. ServedReasons(i)' = Reasons(served[i].file)
      BY <1>1, <2>2, <2>3, <2>4 DEF ServedReasons, Reasons, Reported
    <3>2. ASSUME NEW t \in guarded'[i] \ {"link"}
          PROVE  t \in DOMAIN Snapshot /\ CoversPath(t, served[i].file) /\ BlocksDelete(Snapshot[t])
      <4>1. /\ t \in Reported /\ HasOps /\ (qbit \/ Grabber = "servarr")
            /\ CoversPath(t, served[i].file) /\ BlocksDelete(tor[t])
        BY <1>1, <3>1, <3>2, GuardFacts DEF Reasons
      <4>2. qbit
        BY <1>4, <4>1 DEF Unavailable
      <4>3. Snapshot = [u \in Reported |-> tor[u]]
        BY <4>1, <4>2 DEF Snapshot
      <4> QED BY <4>1, <4>3
    <3> QED BY <1>1, <2>2, <2>4, <3>2, GuardFacts DEF GuardOf
  <2> QED BY <1>1, <1>2, <1>4, <2>1, <2>2, <2>3, <2>4, CallProceeds DEF Serving
<1>5. CASE ~Unavailable
  <2>1. CallsShape
    BY <1>1 DEF Types
  <2> QED BY <1>4, <1>5, <2>1 DEF QueryQbit, CallsShape
<1> QED BY <1>3, <1>5 DEF QueryQbit

\* The inspection lets a file pass that no lasting reason protects.
LEMMA InspectInv ==
    ASSUME ReclaimAssumption, ReclaimInv, Ghosts, NEW i \in CallIds, Inspect(i)
    PROVE  ReclaimInv'
<1>1. /\ UNCHANGED <<box, tor, qbit, lib, proof, lock>> /\ served[i].at = "inspect" /\ Types
      /\ box' \in [Files -> [there : BOOLEAN, nlink : 1 .. 2]]
  BY DEF Inspect, World, ReclaimInv, Types
<1>2. served[i] # NoDelete
  BY <1>1 DEF NoDelete
<1>3. ASSUME NEW out, Answer(i, out) PROVE ReclaimInv'
  BY <1>1, <1>3, AnswerKeeps
<1>4. CASE /\ ~(box[served[i].file].nlink > 1 \/ Blocked(i))
           /\ served' = [served EXCEPT ![i] = [@ EXCEPT !.at = "unlink"]] /\ run' = run
  <2> DEFINE v == [file |-> served[i].file, at |-> "unlink", snap |-> served[i].snap, proved |-> served[i].proved]
  <2>1. served' = [served EXCEPT ![i] = v]
    <3>1. CallShape(i)
      BY <1>1 DEF Types, CallsShape
    <3>2. [served[i] EXCEPT !.at = "unlink"] = v
      BY <3>1 DEF CallShape
    <3> QED BY <1>4, <3>2
  <2>2. /\ v = [file |-> v.file, at |-> v.at, snap |-> v.snap, proved |-> v.proved]
        /\ v.file = served[i].file /\ v.at = "unlink" /\ v.proved = served[i].proved
    OBVIOUS
  <2> HIDE DEF v
  <2>3. v # NoDelete
    BY <2>2 DEF NoDelete
  <2>4. ASSUME served'[i] = v PROVE GuardOf(i)'
    <3>1. ServedReasons(i)' = Reasons(served[i].file)
      BY <1>1, <2>2, <2>3, <2>4 DEF ServedReasons, Reasons, Reported
    <3>2. "link" \notin Reasons(served[i].file)
      BY <1>4 DEF Reasons, Reported, ReclaimAssumption
    <3>3. "link" \notin guarded'[i]
      BY <1>1, <3>1, <3>2, GuardFacts
    <3>4. \A t \in guarded[i] \ {"link"} : Blocked(i)
      BY <1>1 DEF ReclaimInv, GuardInv, GuardOf, Blocked, Guards
    <3>5. guarded'[i] = {}
      BY <1>1, <1>2, <1>4, <3>3, <3>4, GuardFacts
    <3> QED BY <2>2, <2>4, <3>5 DEF GuardOf
  <2> QED BY <1>1, <1>2, <1>4, <2>1, <2>2, <2>3, <2>4, CallProceeds DEF Serving
<1> QED BY <1>3, <1>4 DEF Inspect

\* The unlink.
LEMMA UnlinkInv ==
    ASSUME ReclaimInv, Ghosts, NEW i \in CallIds, Unlink(i)
    PROVE  ReclaimInv'
<1>1. UNCHANGED <<tor, qbit, lib, proof, lock>> /\ Types
  BY DEF Unlink, ReclaimInv
<1>2. box' \in [Files -> [there : BOOLEAN, nlink : 1 .. 2]]
  <2>1. box \in [Files -> [there : BOOLEAN, nlink : 1 .. 2]]
    BY <1>1 DEF Types
  <2>2. [box EXCEPT ![served[i].file].there = FALSE] \in [Files -> [there : BOOLEAN, nlink : 1 .. 2]]
    BY <2>1
  <2>3. box' \in {box, [box EXCEPT ![served[i].file].there = FALSE]}
    BY DEF Unlink
  <2> QED BY <2>1, <2>2, <2>3
<1>3. Answer(i, "deleted") \/ Answer(i, "failed")
  BY DEF Unlink
<1> QED BY <1>1, <1>2, <1>3, AnswerKeeps

\* A call that is given up goes on or is dropped.
LEMMA AbandonedFacts ==
    ASSUME ReclaimInv, Ghosts, NEW i \in CallIds, Abandoned(i)
    PROVE  CallsShape' /\ CallInv' /\ GuardInv'
BY CallsKept, CallEnds DEF Abandoned

\* The command counts a failed call and goes on.
LEMMA LoseDeleteInv ==
    ASSUME ReclaimInv, Ghosts, LoseDelete
    PROVE  ReclaimInv'
<1>1. /\ UNCHANGED <<box, tor, qbit, lib, proof, lock>> /\ run.call # 0 /\ run' = Noted("failed")
      /\ Abandoned(run.call) /\ run.call \in CallIds /\ box' \in [Files -> [there : BOOLEAN, nlink : 1 .. 2]]
  BY DEF LoseDelete, ReclaimInv, TodoInv, Types
<1>2. CallsShape' /\ CallInv' /\ GuardInv'
  BY <1>1, AbandonedFacts
<1> QED BY <1>1, <1>2, NotedFacts, CallKeeps

\* A command that dies leaves its call to the seedbox and its lock to others.
LEMMA InterruptedInv ==
    ASSUME ReclaimInv, Ghosts, Interrupted
    PROVE  ReclaimInv'
<1>1. /\ UNCHANGED <<box, tor, qbit, lib, proof>> /\ run' = NoRun /\ Types
      /\ lock' \in {"free", "reclaim", "encode"}
  BY DEF Interrupted, ReclaimInv, Types
<1>2. CallsShape' /\ CallInv' /\ GuardInv'
  <2>1. run.call = 0 \/ run.call \in CallIds
    BY DEF ReclaimInv, TodoInv
  <2> QED BY <2>1, AbandonedFacts, CallsKept DEF Interrupted
<1>3. /\ RunShape' /\ run'.at = "idle" /\ run'.cmd = "none" /\ run'.rows = {} /\ run'.verified = {}
      /\ run'.todo = {} /\ run'.call = 0
  BY <1>1 DEF NoRun, RunShape
<1>4. Types'
  BY <1>1, <1>2, <1>3, GhostTypes DEF Types
<1>5. LibraryInv'
  BY <1>1 DEF ReclaimInv, LibraryInv, EncodedOnce
<1>6. ProvedInv' /\ TodoInv' /\ HeldInv' /\ AnswerInv'
  BY <1>3 DEF ProvedInv, TodoInv, HeldInv, AnswerInv, EveryCandidateAnswered, Busy
<1> QED BY <1>2, <1>4, <1>5, <1>6 DEF ReclaimInv

\* The seedbox dies and takes every call with it.
LEMMA SeedboxDiesInv ==
    ASSUME ReclaimInv, Ghosts, SeedboxDies
    PROVE  ReclaimInv'
<1>1. /\ UNCHANGED <<box, tor, qbit, lib, proof, lock>> /\ served' = [i \in CallIds |-> NoDelete] /\ Types
      /\ box' \in [Files -> [there : BOOLEAN, nlink : 1 .. 2]]
  BY DEF SeedboxDies, ReclaimInv, Types
<1>2. \A i \in CallIds : served'[i] = NoDelete
  BY <1>1
<1>3. CallsShape'
  BY <1>1, <1>2 DEF CallsShape, CallShape, NoDelete
<1>4. CallInv' /\ GuardInv'
  BY <1>1, <1>2, GuardEnded DEF CallInv, GuardInv
<1>5. CASE run.call = 0
  <2>1. run' = run
    BY <1>5 DEF SeedboxDies
  <2>2. RunShape' /\ AnswerInv'
    BY <2>1, RunKept
  <2> QED BY <1>1, <1>3, <1>4, <1>5, <2>1, <2>2, CallKeeps
<1>6. CASE run.call # 0
  <2>1. run' = Noted("failed")
    BY <1>6 DEF SeedboxDies
  <2> QED BY <1>1, <1>3, <1>4, <1>6, <2>1, NotedFacts, CallKeeps
<1> QED BY <1>5, <1>6

-----------------------------------------------------------------------------
(* Everyone else *)

\* Torrents come and go, qBittorrent falls silent, files gain and lose links.
LEMMA BoxInv ==
    ASSUME ReclaimInv, Ghosts, TorrentChanges \/ QbitFlips \/ BoxChanges
    PROVE  ReclaimInv'
<1>1. Types /\ UNCHANGED <<lib, proof, lock, run, served>>
  BY DEF ReclaimInv, TorrentChanges, QbitFlips, BoxChanges
<1>2. tor' \in [Torrents -> TorrentFacts \cup {Absent}]
  BY <1>1 DEF TorrentChanges, QbitFlips, BoxChanges, Types
<1>3. qbit' \in BOOLEAN
  BY <1>1 DEF TorrentChanges, QbitFlips, BoxChanges, Types
<1>4. box' \in [Files -> [there : BOOLEAN, nlink : 1 .. 2]]
  <2>1. CASE BoxChanges
    <3>1. PICK f \in Files :
            \E v \in {[there |-> TRUE, nlink |-> 3 - box[f].nlink], [there |-> FALSE, nlink |-> 1]} :
                box' = [box EXCEPT ![f] = v]
      BY <2>1 DEF BoxChanges
    <3>2. box[f].nlink \in 1 .. 2
      BY <1>1 DEF Types
    <3>3. [there |-> TRUE, nlink |-> 3 - box[f].nlink] \in [there : BOOLEAN, nlink : 1 .. 2]
      BY <3>2
    <3>4. [there |-> FALSE, nlink |-> 1] \in [there : BOOLEAN, nlink : 1 .. 2]
      OBVIOUS
    <3>5. PICK v \in [there : BOOLEAN, nlink : 1 .. 2] : box' = [box EXCEPT ![f] = v]
      BY <3>1, <3>3, <3>4
    <3> QED BY <1>1, <3>5 DEF Types
  <2>2. CASE ~BoxChanges
    BY <1>1, <2>2 DEF TorrentChanges, QbitFlips, Types
  <2> QED BY <2>1, <2>2
<1>5. lib \in [Locals -> {"orig", "enc", "other", Gone}] /\ proof \in [Locals -> Record]
      /\ lock \in {"free", "reclaim", "encode"}
  BY <1>1 DEF Types
<1> QED BY <1>1, <1>2, <1>3, <1>4, <1>5, OthersStep

\* Somebody edits a library file; between runs only, if Meddling says so.
LEMMA MeddleInv ==
    ASSUME ReclaimInv, Ghosts, Meddle
    PROVE  ReclaimInv'
<1>1. Types /\ UNCHANGED <<box, tor, qbit, proof, lock, run, served>> /\ (Meddling = "always" \/ run.at = "idle")
  BY DEF ReclaimInv, Meddle
<1>2. PICK p \in Locals, v \in {"other", Gone} : lib' = [lib EXCEPT ![p] = v]
  BY DEF Meddle
<1>3. /\ lib' \in [Locals -> {"orig", "enc", "other", Gone}]
      /\ \A q \in Locals : lib'[q] = lib[q] \/ lib'[q] \in {"other", Gone}
  BY <1>1, <1>2 DEF Types
<1>4. /\ box \in [Files -> [there : BOOLEAN, nlink : 1 .. 2]] /\ tor \in [Torrents -> TorrentFacts \cup {Absent}]
      /\ qbit \in BOOLEAN /\ proof \in [Locals -> Record] /\ lock \in {"free", "reclaim", "encode"}
  BY <1>1 DEF Types
<1> QED BY <1>1, <1>3, <1>4, OthersStep

\* The drift observation keeps the digest.
LEMMA MarkDriftInv ==
    ASSUME ReclaimInv, Ghosts, MarkDrift
    PROVE  ReclaimInv'
<1>1. Types /\ UNCHANGED <<box, tor, qbit, lib, lock, run, served>>
  BY DEF ReclaimInv, MarkDrift
<1>2. PICK p \in Locals : proof' = [proof EXCEPT ![p].drifted = TRUE]
  BY DEF MarkDrift
<1>3. proof' \in [Locals -> Record] /\ \A q \in Locals : proof'[q].digest = proof[q].digest
  BY <1>1, <1>2 DEF Types, Record
<1>4. /\ box \in [Files -> [there : BOOLEAN, nlink : 1 .. 2]] /\ tor \in [Torrents -> TorrentFacts \cup {Absent}]
      /\ qbit \in BOOLEAN /\ lib \in [Locals -> {"orig", "enc", "other", Gone}]
      /\ lock \in {"free", "reclaim", "encode"}
  BY <1>1 DEF Types
<1> QED BY <1>1, <1>3, <1>4, OthersStep

\* encode run writes bytes and digests under the lock an apply would hold.
LEMMA EncodeInv ==
    ASSUME ReclaimInv, Ghosts, EncodeReplaces \/ EncodeRecords
    PROVE  ReclaimInv'
<1>1. Types /\ UNCHANGED <<box, tor, qbit, run, served>> /\ lock # "reclaim" /\ lock' \in {"encode", "free"}
  BY DEF ReclaimInv, EncodeReplaces, EncodeRecords
<1>2. /\ box \in [Files -> [there : BOOLEAN, nlink : 1 .. 2]] /\ tor \in [Torrents -> TorrentFacts \cup {Absent}]
      /\ qbit \in BOOLEAN /\ lib \in [Locals -> {"orig", "enc", "other", Gone}] /\ proof \in [Locals -> Record]
  BY <1>1 DEF Types
<1>3. CASE EncodeReplaces
  <2>1. proof' = proof /\ \E p \in Locals : lib[p] = "orig" /\ lib' = [lib EXCEPT ![p] = "enc"]
    BY <1>3 DEF EncodeReplaces
  <2>2. /\ lib' \in [Locals -> {"orig", "enc", "other", Gone}]
        /\ \A q \in Locals : lib'[q] = lib[q] \/ (lib[q] = "orig" /\ lib'[q] = "enc")
    BY <1>2, <2>1
  <2> QED BY <1>1, <1>2, <2>1, <2>2, OthersStep
<1>4. CASE EncodeRecords
  <2>1. lib' = lib /\ proof' = [p \in Locals |-> IF lib[p] = "enc" /\ proof[p] # NoProof
                                                THEN [digest |-> "enc", drifted |-> FALSE] ELSE proof[p]]
    BY <1>4 DEF EncodeRecords
  <2>2. [digest |-> "enc", drifted |-> FALSE] \in Record /\ [digest |-> "enc", drifted |-> FALSE].digest = "enc"
    BY DEF Record
  <2>3. /\ proof' \in [Locals -> Record]
        /\ \A q \in Locals : proof'[q] = proof[q] \/ (lib[q] = "enc" /\ proof'[q].digest = "enc")
    BY <1>2, <2>1, <2>2
  <2> QED BY <1>1, <1>2, <2>1, <2>3, OthersStep
<1> QED BY <1>3, <1>4

-----------------------------------------------------------------------------
(* The theorems *)

\* Every step of the command, the seedbox and everyone else keeps the invariant.
LEMMA StepInv ==
    ASSUME ReclaimAssumption, ReclaimInv, [Next]_vars
    PROVE  ReclaimInv'
<1>1. CASE Next
  <2>1. Ghosts /\ Step
    BY <1>1 DEF Next
  <2>2. ASSUME NEW cmd \in {"preview", "apply"}, Begin(cmd) PROVE ReclaimInv'
    BY <2>1, <2>2, BeginInv
  <2>3. CASE Rows \/ VerifyRow \/ ScanDisk \/ ListBox \/ PlanRun \/ Finish
    BY <2>1, <2>3, RowsInv, VerifyRowInv, ScanInv, PlanRunInv, FinishInv
  <2>4. CASE SendDelete \/ LoseDelete \/ Interrupted \/ SeedboxDies
    BY <2>1, <2>4, SendDeleteInv, LoseDeleteInv, InterruptedInv, SeedboxDiesInv
  <2>6. ASSUME NEW i \in CallIds, QueryQbit(i) \/ Inspect(i) \/ Unlink(i) PROVE ReclaimInv'
    BY <2>1, <2>6, QueryQbitInv, InspectInv, UnlinkInv
  <2>5. CASE TorrentChanges \/ QbitFlips \/ BoxChanges \/ Meddle \/ MarkDrift \/ EncodeReplaces \/ EncodeRecords
    BY <2>1, <2>5, BoxInv, MeddleInv, MarkDriftInv, EncodeInv
  <2> QED BY <2>1, <2>2, <2>3, <2>4, <2>5, <2>6 DEF Step
<1>2. CASE UNCHANGED vars
  <2>1. UNCHANGED <<box, tor, qbit, lib, proof, lock, run, served, sound, guarded>>
    BY <1>2 DEF vars
  <2>2. Types' /\ LibraryInv' /\ ProvedInv'
    BY <2>1 DEF ReclaimInv, Types, RunShape, CallsShape, CallShape, LibraryInv, ProvedInv, EncodedOnce
  <2>3. TodoInv' /\ AnswerInv'
    BY <2>1 DEF ReclaimInv, TodoInv, AnswerInv, EveryCandidateAnswered
  <2>4. HeldInv'
    BY <2>1 DEF ReclaimInv, HeldInv, Intact
  <2>5. GuardInv' /\ CallInv'
    BY <2>1 DEF ReclaimInv, GuardInv, GuardOf, CallInv, ServedReasons, Reasons, Reported
  <2> QED BY <2>2, <2>3, <2>4, <2>5 DEF ReclaimInv
<1> QED BY <1>1, <1>2

\* The invariant holds in every reachable state of reclaim.
THEOREM ReclaimInvHolds ==
    ASSUME ReclaimAssumption
    PROVE  Spec => []ReclaimInv
<1>1. Init => ReclaimInv
  BY InitInv
<1>2. ReclaimInv /\ [Next]_vars => ReclaimInv'
  BY StepInv
<1> QED BY <1>1, <1>2, PTL DEF Spec

\* The command and the call it makes keep their shapes.
THEOREM ReclaimTypeCorrect ==
    ASSUME ReclaimAssumption
    PROVE  Spec => []ReclaimTypeOK
<1>1. ReclaimInv => ReclaimTypeOK
  <2> SUFFICES ASSUME ReclaimInv PROVE ReclaimTypeOK
    OBVIOUS
  <2>1. \A i \in CallIds : served[i].at \in {"none", "query", "inspect", "unlink"}
    BY DEF ReclaimInv, CallInv, Serving, NoDelete
  <2>2. run.call # 0 => run.at = "delete" /\ served[run.call].at # "none"
    BY DEF ReclaimInv, TodoInv, CallInv, Serving
  <2>3. DOMAIN served = CallIds
    BY DEF ReclaimInv, Types, CallsShape
  <2> QED BY <2>1, <2>2, <2>3 DEF ReclaimInv, Types, TodoInv, ReclaimTypeOK, Busy
<1> QED BY <1>1, ReclaimInvHolds, PTL

\* apply_reclaim: whichever calls fail, an apply that has ended has an outcome
\* for every candidate it showed.
THEOREM CandidatesAreAnswered ==
    ASSUME ReclaimAssumption
    PROVE  Spec => []EveryCandidateAnswered
<1>1. ReclaimInv => EveryCandidateAnswered
  BY DEF ReclaimInv, AnswerInv
<1> QED BY <1>1, ReclaimInvHolds, PTL

\* A call that unlinks is being served.
LEMMA UnlinkedFacts ==
    ASSUME ReclaimInv, NEW i \in CallIds, Unlinked(i)
    PROVE  served[i] # NoDelete /\ served[i].at = "unlink"
BY DEF Unlinked, NoDelete

\* bins/mediaops/src/reclaim.rs verifies before it plans: what is unlinked had
\* an intact, recorded copy at some moment of the run that asked for it,
\* whatever happened to library, torrents, links and that run in between.
THEOREM DeletionsAreProved ==
    ASSUME ReclaimAssumption
    PROVE  Spec => [][DeletesProved]_vars
<1>1. ReclaimInv /\ [Next]_vars => [DeletesProved]_vars
  <2> SUFFICES ASSUME ReclaimInv, NEW i \in CallIds, Unlinked(i) PROVE served[i].proved
    BY DEF DeletesProved
  <2> QED BY UnlinkedFacts DEF ReclaimInv, CallInv
<1> QED BY <1>1, ReclaimInvHolds, PTL DEF Spec

\* The exclusive lock of apply: while only its holders change the library, the
\* copy at home is still intact when the seedbox unlinks for an apply that
\* waits for it.  Calls that were given up are carried out as well (spawn_blocking
\* in delete_remote), and nothing is claimed of the copy by then.
THEOREM LastCopyIsKept ==
    ASSUME ReclaimAssumption, Meddling = "idle"
    PROVE  Spec => [][KeepsLastCopy]_vars
<1>1. ReclaimInv /\ [Next]_vars => [KeepsLastCopy]_vars
  <2> SUFFICES ASSUME ReclaimInv, NEW i \in CallIds, Unlinked(i), run.call = i
               PROVE  Intact(LocalOf[served[i].file])
    BY DEF KeepsLastCopy
  <2>1. run.call # 0
    BY DEF CallIds
  <2> QED BY <2>1 DEF ReclaimInv, TodoInv, HeldInv
<1> QED BY <1>1, ReclaimInvHolds, PTL DEF Spec

\* delete_remote asks qBittorrent itself and inspects the file: nothing with a
\* lasting reason to stay is unlinked, however old the home side's snapshot is
\* and whether or not the home side still waits.
THEOREM SeedersAreSpared ==
    ASSUME ReclaimAssumption
    PROVE  Spec => [][SparesSeeders]_vars
<1>1. ReclaimInv /\ [Next]_vars => [SparesSeeders]_vars
  <2> SUFFICES ASSUME ReclaimInv, NEW i \in CallIds, Unlinked(i) PROVE guarded[i] = {}
    BY DEF SparesSeeders
  <2> QED BY UnlinkedFacts DEF ReclaimInv, GuardInv, GuardOf
<1> QED BY <1>1, ReclaimInvHolds, PTL DEF Spec
=============================================================================
