--------------------------- MODULE TransferProofs ---------------------------
(***************************************************************************)
(* Proofs about the range transfer, for any pullers, sources, file length, *)
(* range lengths, concurrency and bounds.                                  *)
(***************************************************************************)
EXTENDS Transfer, TLAPS

Pcs == {"idle", "check", "open", "copy", "sync", "record", "unlink", "settle", "ok", "failed",
        "cleanStaged", "cleanSide"}
Names == Sources \cup {NoSource}
Lens == RangeLens \cup {0}
Block == {Hole, Torn} \cup [src : Sources, ver : 0..MaxVersion]
Bytes == [Offsets -> Block]
Ranges == Nat \X Nat
Proof == [range : Ranges, digest : UNION {[S -> Block] : S \in SUBSET Offsets}]
Side == [exists : BOOLEAN, src : Names, rangeLen : Lens, proofs : SUBSET Proof]
Dir == [partial : BOOLEAN, staged : BOOLEAN, side : Side]
Proc == [pc : Pcs, src : Names, rangeLen : Lens, side : Side, todo : SUBSET Ranges,
         flight : SUBSET Ranges, range : Ranges]

\* The full types.
Types ==
    /\ remote \in [Sources -> 0..MaxVersion]
    /\ dir \in Dir
    /\ data \in Bytes
    /\ durable \in [dir : Dir, data : Bytes]
    /\ lock \in Pullers \cup {Nobody}
    /\ proc \in [Pullers -> Proc]
    /\ faults \in 0..MaxFaults

\* A puller between taking the lock and giving it back.
Works(p) == proc[p].pc \notin {"idle", "ok", "failed"}
Copying(p) == proc[p].pc \in {"copy", "sync", "record"}
Writing(p) == proc[p].pc \in {"sync", "record"}
Linking(p) == proc[p].pc \in {"unlink", "settle"}

\* The lock: exactly the puller that works holds it.
LockInv == \A p \in Pullers : lock = p <=> Works(p)

\* A sidecar that names a source proves only ranges of its plan that came from there.
SideInv(side) ==
    /\ side.exists => side.rangeLen \in RangeLens
    /\ side.proofs # {} => side.exists
    /\ \A q \in side.proofs :
         /\ q.range \in PlanRanges(side.rangeLen)
         /\ side.src # NoSource => \A b \in Blocks(q.range) : q.digest[b].src = side.src

\* A block on disk that a recorded proof covers and that still has the bytes of
\* the proof survives a power loss.
Survives == \A q \in dir.side.proofs : \A b \in Blocks(q.range) :
                data[b] = q.digest[b] => durable.data[b] = data[b]

\* The files beside each other: the sidecar is always synced, it outlives the
\* staged name, and a staged file keeps one synced name.
DirInv ==
    /\ SideInv(dir.side)
    /\ durable.dir.side = dir.side
    /\ dir.staged \/ durable.dir.staged => dir.side.exists
    /\ dir.staged => durable.dir.staged \/ durable.dir.partial
    /\ Survives

Proven(p, r) == \E q \in proc[p].side.proofs : q.range = r

\* The ranges of the plan are partitioned into those still to fetch, those in
\* flight, the one being written and those proved.
PlanInv(p) ==
    LET plan == PlanRanges(proc[p].side.rangeLen)
        doing == IF Writing(p) THEN {proc[p].range} ELSE {}
    IN  /\ proc[p].todo \subseteq plan /\ proc[p].flight \subseteq plan /\ doing \subseteq plan
        /\ proc[p].todo \cap proc[p].flight = {}
        /\ doing \cap (proc[p].todo \cup proc[p].flight) = {}
        /\ \A r \in plan : Proven(p, r) <=> r \notin proc[p].todo \cup proc[p].flight \cup doing

\* What a puller that works relies on.
PullerInv(p) ==
    /\ Works(p) /\ proc[p].pc \notin {"cleanStaged", "cleanSide"} => proc[p].src \in Sources
    /\ proc[p].pc = "check" => proc[p].rangeLen \in RangeLens /\ proc[p].flight = {}
    /\ proc[p].pc = "open" \/ Copying(p) \/ Linking(p) =>
         /\ proc[p].side = dir.side /\ dir.side.exists /\ dir.side.src = proc[p].src
         /\ PlanInv(p)
    /\ proc[p].pc = "open" \/ Copying(p) \/ Linking(p) =>
         \A q \in dir.side.proofs : Digest(data, q.range) = q.digest
    /\ proc[p].pc = "open" => proc[p].flight = {} /\ ~dir.staged
                              /\ (dir.side.proofs # {} => dir.partial)
                              /\ durable.dir.partial = dir.partial
    /\ Copying(p) => dir.partial /\ (dir.side.proofs # {} => durable.dir.partial)
    /\ Writing(p) => \A b \in Blocks(proc[p].range) : data[b].src = proc[p].src
    /\ proc[p].pc = "record" => durable.data = data
    /\ Linking(p) => dir.staged /\ proc[p].todo = {} /\ proc[p].flight = {}
    /\ proc[p].pc = "cleanSide" => ~dir.staged

\* The inductive invariant.
TransferInv == Types /\ LockInv /\ DirInv /\ \A p \in Pullers : PullerInv(p)

-----------------------------------------------------------------------------
(* Ranges *)

\* Multiplication is monotone.
LEMMA Times ==
    ASSUME NEW i \in Nat, NEW j \in Nat, NEW n \in Nat, i <= j
    PROVE  i * n \in Nat /\ j * n \in Nat /\ i * n <= j * n
<1>1. PICK d \in Nat : j = i + d
  <2>1. j - i \in Nat /\ j = i + (j - i)
    OBVIOUS
  <2> QED BY <2>1
<1>2. (i + d) * n = i * n + d * n /\ i * n \in Nat /\ d * n \in Nat
  OBVIOUS
<1> QED BY <1>1, <1>2

\* Division and its remainder.
LEMMA Quotient ==
    ASSUME NEW b \in Nat, NEW n \in Nat \ {0}
    PROVE  /\ b \div n \in Nat
           /\ (b \div n) * n <= b /\ b < (b \div n) * n + n
OBVIOUS

\* The ranges of a plan lie in the file, cover it and do not overlap.
LEMMA PlanFacts ==
    ASSUME TransferAssumption, NEW n \in RangeLens
    PROVE  /\ \A r \in PlanRanges(n) : r \in Ranges /\ Blocks(r) \subseteq Offsets
           /\ \A b \in Offsets : \E r \in PlanRanges(n) : b \in Blocks(r)
           /\ \A r, q \in PlanRanges(n) : r # q => Blocks(r) \cap Blocks(q) = {}
           /\ PlanRanges(n) # {}
<1> DEFINE last == (FileLen - 1) \div n
           len(i) == IF n < FileLen - i * n THEN n ELSE FileLen - i * n
<1>0. n \in Nat \ {0} /\ FileLen \in Nat \ {0} /\ FileLen - 1 \in Nat
  BY DEF TransferAssumption
<1>1. last \in Nat /\ last * n <= FileLen - 1 /\ FileLen - 1 < last * n + n
  BY <1>0, Quotient
<1>2. PlanRanges(n) = {<<i * n, len(i)>> : i \in 0..last}
  BY DEF PlanRanges
<1>3. ASSUME NEW i \in 0..last
      PROVE  /\ i \in Nat /\ i * n \in Nat /\ i * n <= FileLen - 1
             /\ len(i) \in Nat \ {0} /\ i * n + len(i) <= FileLen /\ len(i) <= n
  <2>1. i \in Nat /\ i <= last
    BY <1>1
  <2>2. i * n \in Nat /\ i * n <= last * n
    BY <2>1, <1>1, <1>0, Times
  <2> HIDE DEF last
  <2>3. last * n \in Nat
    BY <1>0, <1>1
  <2> QED BY <2>1, <2>2, <2>3, <1>0, <1>1
<1> HIDE DEF last
<1>4. ASSUME NEW r \in PlanRanges(n) PROVE r \in Ranges /\ Blocks(r) \subseteq Offsets
  <2>1. PICK i \in 0..last : r = <<i * n, len(i)>>
    BY <1>2
  <2>2. r \in Ranges /\ r[1] = i * n /\ r[2] = len(i)
    BY <2>1, <1>3 DEF Ranges
  <2> HIDE DEF len
  <2> QED BY <2>2, <1>3, <1>0 DEF Blocks, Offsets
<1>5. ASSUME NEW b \in Offsets PROVE \E r \in PlanRanges(n) : b \in Blocks(r)
  <2> DEFINE i == b \div n
  <2>1. b \in Nat /\ b <= FileLen - 1
    BY <1>0 DEF Offsets
  <2>2. i \in Nat /\ i * n <= b /\ b < i * n + n
    BY <2>1, <1>0, Quotient
  <2> HIDE DEF i
  <2>3. i <= last
    <3>1. SUFFICES ASSUME last + 1 <= i PROVE FALSE
      BY <1>1, <2>2
    <3>2. (last + 1) * n <= i * n
      BY <3>1, <1>0, <1>1, <2>2, Times
    <3>3. (last + 1) * n = last * n + n
      BY <1>0, <1>1
    <3>4. last * n \in Nat /\ i * n \in Nat
      BY <1>0, <1>1, <2>2
    <3> QED BY <3>2, <3>3, <3>4, <1>0, <1>1, <2>1, <2>2
  <2>4. i \in 0..last
    BY <2>2, <2>3, <1>1
  <2>5. <<i * n, len(i)>> \in PlanRanges(n)
    BY <2>4, <1>2
  <2>6. b < i * n + len(i)
    BY <2>1, <2>2, <2>4, <1>3, <1>0
  <2>7. b \in Blocks(<<i * n, len(i)>>)
    <3> HIDE DEF len
    <3> QED BY <2>1, <2>2, <2>4, <2>6, <1>3 DEF Blocks
  <2> QED BY <2>5, <2>7
<1>6. ASSUME NEW i \in 0..last, NEW j \in 0..last, i < j
      PROVE  i * n + len(i) <= j * n
  <2>1. i \in Nat /\ j \in Nat /\ i + 1 <= j
    BY <1>6, <1>1
  <2>2. (i + 1) * n <= j * n
    BY <2>1, <1>0, Times
  <2>3. (i + 1) * n = i * n + n
    BY <2>1, <1>0
  <2>4. i * n \in Nat /\ j * n \in Nat /\ len(i) \in Nat /\ len(i) <= n
    BY <1>3
  <2> HIDE DEF len
  <2> QED BY <2>2, <2>3, <2>4, <1>0
<1>7. ASSUME NEW r \in PlanRanges(n), NEW q \in PlanRanges(n), r # q
      PROVE  Blocks(r) \cap Blocks(q) = {}
  <2>1. PICK i \in 0..last : r = <<i * n, len(i)>>
    BY <1>2
  <2>2. PICK j \in 0..last : q = <<j * n, len(j)>>
    BY <1>2
  <2>3. i < j \/ j < i
    BY <2>1, <2>2, <1>7, <1>3, <1>1
  <2>4. r[1] + r[2] <= q[1] \/ q[1] + q[2] <= r[1]
    BY <2>1, <2>2, <2>3, <1>6
  <2>5. r[1] \in Nat /\ r[2] \in Nat /\ q[1] \in Nat /\ q[2] \in Nat
    BY <1>4 DEF Ranges
  <2> QED BY <2>4, <2>5 DEF Blocks
<1>8. PlanRanges(n) # {}
  <2>1. 0 \in Offsets
    BY <1>0 DEF Offsets
  <2> QED BY <2>1, <1>5
<1> QED BY <1>4, <1>5, <1>7, <1>8

-----------------------------------------------------------------------------
(* Types of the parts *)

\* The values the actions write have the types of the variables they are written
\* to.
LEMMA ConstantTypes ==
    /\ NoSide \in Side /\ Rest \in Proc /\ EmptyDir \in Dir
    /\ Hole \in Block /\ Torn \in Block /\ Blank \in Bytes
<1>1. NoSide \in Side
  BY DEF NoSide, Side, Names, Lens
<1>2. Hole \in Block /\ Torn \in Block
  BY DEF Block
<1> QED BY <1>1, <1>2 DEF Rest, Proc, Pcs, Names, Lens, Ranges, EmptyDir, Dir, Blank, Bytes

\* A digest of a part of the file.
LEMMA DigestType ==
    ASSUME NEW d \in Bytes, NEW r \in Ranges, Blocks(r) \subseteq Offsets
    PROVE  [range |-> r, digest |-> Digest(d, r)] \in Proof
<1>1. Digest(d, r) \in [Blocks(r) -> Block]
  BY DEF Digest, Bytes
<1>2. Digest(d, r) \in UNION {[S -> Block] : S \in SUBSET Offsets}
  BY <1>1
<1> QED BY <1>2 DEF Proof

\* Dropping proofs and naming a source keeps the type of a sidecar.
LEMMA SideType ==
    ASSUME NEW side \in Side, NEW proofs \in SUBSET Proof, NEW src \in Names
    PROVE  /\ [side EXCEPT !.proofs = proofs] \in Side
           /\ [side EXCEPT !.src = src] \in Side
BY DEF Side

\* Verified keeps everything but proofs that fail.
LEMMA VerifiedFacts ==
    ASSUME NEW side \in Side, NEW present \in BOOLEAN
    PROVE  /\ Verified(side, present) \in Side
           /\ Verified(side, present).exists = side.exists
           /\ Verified(side, present).src = side.src
           /\ Verified(side, present).rangeLen = side.rangeLen
           /\ Verified(side, present).proofs =
                {q \in side.proofs : present /\ Digest(data, q.range) = q.digest}
BY DEF Verified, Side

\* What holds of a puller that does not work.
LEMMA AtRest ==
    ASSUME NEW p \in Pullers, ~Works(p)'
    PROVE  PullerInv(p)'
BY DEF PullerInv, Works, Copying, Writing, Linking

\* A step of the puller that may hold the lock leaves the others alone.
LEMMA OneMoves ==
    ASSUME TransferAssumption, TransferInv, NEW p \in Pullers, lock \in {p, Nobody}, lock' \in {p, Nobody},
           NEW f, proc' = [proc EXCEPT ![p] = f],
           lock' = p <=> Works(p)', Types', DirInv', PullerInv(p)'
    PROVE  TransferInv'
<1>1. ASSUME NEW q \in Pullers, q # p PROVE ~Works(q)' /\ lock' # q
  BY <1>1 DEF TransferInv, Types, LockInv, Works, TransferAssumption
<1>2. LockInv'
  BY <1>1 DEF LockInv
<1>3. \A q \in Pullers : PullerInv(q)'
  BY <1>1, AtRest
<1> QED BY <1>2, <1>3 DEF TransferInv

\* The directory's invariant depends on dir, data and durable only.
LEMMA DirFrame ==
    ASSUME DirInv, UNCHANGED <<dir, data, durable>>
    PROVE  DirInv'
BY DEF DirInv, SideInv, Survives

-----------------------------------------------------------------------------
(* The initial states *)

\* An empty staging directory and resting pullers.
LEMMA InitInv ==
    ASSUME TransferAssumption, Init
    PROVE  TransferInv
<1>1. dir \in Dir /\ SideInv(dir.side) /\ ~dir.staged
  <2>1. CASE dir = EmptyDir
    BY <2>1, ConstantTypes DEF EmptyDir, NoSide, SideInv
  <2>2. ASSUME NEW n \in RangeLens, dir = [EmptyDir EXCEPT !.partial = TRUE, !.side = LegacySide(n)]
        PROVE  dir \in Dir /\ SideInv(dir.side) /\ ~dir.staged
    <3> DEFINE proofs == {[range |-> r, digest |-> Digest(Blank, r)] : r \in PlanRanges(n)}
    <3>1. proofs \in SUBSET Proof
      BY PlanFacts, DigestType, ConstantTypes
    <3>2. LegacySide(n) = [exists |-> TRUE, src |-> NoSource, rangeLen |-> n, proofs |-> proofs]
      BY DEF LegacySide
    <3>3. \A q \in proofs : q.range \in PlanRanges(n)
      OBVIOUS
    <3> HIDE DEF proofs
    <3>4. LegacySide(n) \in Side
      BY <3>1, <3>2 DEF Side, Names, Lens
    <3>5. SideInv(LegacySide(n))
      BY <3>2, <3>3 DEF SideInv
    <3> QED BY <2>2, <3>4, <3>5 DEF EmptyDir, Dir
  <2> QED BY <2>1, <2>2 DEF Init
<1>2. Types
  <2>1. remote \in [Sources -> 0..MaxVersion] /\ faults \in 0..MaxFaults /\ lock \in Pullers \cup {Nobody}
    <3>1. remote = [s \in Sources |-> 0] /\ faults = 0 /\ lock = Nobody
      BY DEF Init
    <3>2. 0 \in 0..MaxVersion /\ 0 \in 0..MaxFaults
      BY DEF TransferAssumption
    <3> QED BY <3>1, <3>2
  <2>2. data \in Bytes /\ proc \in [Pullers -> Proc]
    BY ConstantTypes DEF Init
  <2>3. durable \in [dir : Dir, data : Bytes]
    BY <1>1, <2>2 DEF Init
  <2> QED BY <1>1, <2>1, <2>2, <2>3 DEF Types
<1>3. DirInv
  BY <1>1 DEF Init, DirInv, Survives
<1>4. LockInv /\ \A p \in Pullers : PullerInv(p)
  BY DEF Init, LockInv, Works, Rest, TransferAssumption, PullerInv, Copying, Writing, Linking
<1> QED BY <1>2, <1>3, <1>4 DEF TransferInv

-----------------------------------------------------------------------------
(* The steps of a pull *)

\* The types of everything but the pullers and the lock.
DiskTypes ==
    /\ remote \in [Sources -> 0..MaxVersion] /\ faults \in 0..MaxFaults
    /\ dir \in Dir /\ data \in Bytes /\ durable \in [dir : Dir, data : Bytes]

\* Only the holder of the lock works.
LEMMA Holder ==
    ASSUME TransferInv, NEW p \in Pullers, Works(p)
    PROVE  lock = p
BY DEF TransferInv, LockInv

\* One puller is given a new record.
LEMMA SetFacts ==
    ASSUME Types, NEW p \in Pullers, NEW f \in Proc, Set(p, f)
    PROVE  proc' = [proc EXCEPT ![p] = f] /\ proc' \in [Pullers -> Proc] /\ proc'[p] = f
BY DEF Types, Set

\* A puller moves on: the lock stays with it.
LEMMA Moving ==
    ASSUME TransferAssumption, TransferInv, NEW p \in Pullers, NEW f \in Proc, Set(p, f),
           f.pc \notin {"idle", "ok", "failed"}, lock \in {p, Nobody}, lock' = p,
           DiskTypes', DirInv', PullerInv(p)'
    PROVE  TransferInv'
<1>1. proc' = [proc EXCEPT ![p] = f] /\ proc' \in [Pullers -> Proc] /\ proc'[p] = f
  BY SetFacts DEF TransferInv
<1>2. Works(p)'
  BY <1>1 DEF Works
<1>3. Types'
  BY <1>1 DEF Types, DiskTypes
<1> QED BY <1>1, <1>2, <1>3, OneMoves

\* A puller comes to rest: the lock is free.
LEMMA Resting ==
    ASSUME TransferAssumption, TransferInv, NEW p \in Pullers, NEW f \in Proc, Set(p, f),
           f.pc \in {"idle", "ok", "failed"}, lock \in {p, Nobody}, lock' = Nobody,
           DiskTypes', DirInv'
    PROVE  TransferInv'
<1>1. proc' = [proc EXCEPT ![p] = f] /\ proc' \in [Pullers -> Proc] /\ proc'[p] = f
  BY SetFacts DEF TransferInv
<1>2. ~Works(p)'
  BY <1>1 DEF Works
<1>3. Types'
  BY <1>1 DEF Types, DiskTypes
<1>4. PullerInv(p)'
  BY <1>2, AtRest
<1>5. lock' # p
  BY DEF TransferAssumption
<1> QED BY <1>1, <1>2, <1>3, <1>4, <1>5, OneMoves

\* Return gives the lock back.
LEMMA Returning ==
    ASSUME TransferAssumption, TransferInv, NEW p \in Pullers, NEW result \in {"ok", "failed"},
           Return(p, result), lock = p, DiskTypes', DirInv'
    PROVE  TransferInv'
<1> DEFINE f == [Rest EXCEPT !.pc = result, !.src = proc[p].src]
<1>1. proc[p].src \in Names
  BY DEF TransferInv, Types, Proc
<1>2. f \in Proc /\ f.pc = result
  BY <1>1, ConstantTypes DEF Proc, Pcs
<1>3. Set(p, f) /\ lock' = Nobody
  BY DEF Return
<1> HIDE DEF f
<1> QED BY <1>2, <1>3, Resting

\* A pull takes the staging lock before it looks at any file.
LEMMA StartPullInv ==
    ASSUME TransferAssumption, TransferInv, NEW p \in Pullers, NEW s \in Sources, NEW n \in RangeLens,
           StartPull(p, s, n)
    PROVE  TransferInv'
<1> DEFINE f == [Rest EXCEPT !.pc = "check", !.src = s, !.rangeLen = n]
<1>1. f \in Proc /\ f.pc = "check" /\ f.src = s /\ f.rangeLen = n /\ f.flight = {}
  BY ConstantTypes DEF Proc, Pcs, Names, Lens, Rest
<1>2. Set(p, f) /\ lock = Nobody /\ lock' = p /\ UNCHANGED <<remote, dir, data, durable, faults>>
  BY DEF StartPull, LockIsFree
<1> HIDE DEF f
<1>3. proc'[p] = f
  BY <1>1, <1>2, SetFacts DEF TransferInv
<1>4. DiskTypes' /\ DirInv'
  BY <1>2, DirFrame DEF TransferInv, Types, DiskTypes
<1>5. PullerInv(p)'
  BY <1>1, <1>3 DEF PullerInv, Works, Copying, Writing, Linking
<1> QED BY <1>1, <1>2, <1>4, <1>5, Moving

\* Removing names keeps what the sidecar says.
LEMMA AdoptStagedInv ==
    ASSUME TransferAssumption, TransferInv, NEW p \in Pullers, AdoptStaged(p)
    PROVE  TransferInv'
<1>1. lock = p
  BY Holder DEF AdoptStaged, At, Works
<1>2. DiskTypes' /\ DirInv'
  <2>1. CASE dir' = [dir EXCEPT !.partial = FALSE]
    <3>1. dir' \in Dir /\ dir'.side = dir.side /\ dir'.staged = dir.staged
      BY <2>1 DEF TransferInv, Types, Dir
    <3> QED BY <3>1 DEF AdoptStaged, TransferInv, Types, DiskTypes, DirInv, SideInv, Survives
  <2>2. CASE UNCHANGED dir
    BY <2>2, DirFrame DEF AdoptStaged, TransferInv, Types, DiskTypes
  <2> QED BY <2>1, <2>2 DEF AdoptStaged
<1>3. Return(p, "ok") \/ Return(p, "failed")
  BY DEF AdoptStaged
<1> QED BY <1>1, <1>2, <1>3, Returning

\* The sidecar a pull goes on with: of its source, and with proofs that hold.
LEMMA ResumedFacts ==
    ASSUME TransferAssumption, TransferInv, NEW p \in Pullers, At(p, "check"),
           dir.side.exists => CheckSource(dir.side, proc[p].src)
    PROVE  /\ Resumed(p) \in Side /\ SideInv(Resumed(p))
           /\ Resumed(p).exists /\ Resumed(p).src = proc[p].src
           /\ Resumed(p).proofs \subseteq dir.side.proofs
           /\ \A q \in Resumed(p).proofs : dir.partial /\ Digest(data, q.range) = q.digest
<1> DEFINE old == dir.side
           named == IF SourceIsKnown(old) THEN old ELSE [old EXCEPT !.proofs = {}]
           base == IF old.exists THEN Verified(named, dir.partial)
                   ELSE [NoSide EXCEPT !.exists = TRUE, !.rangeLen = proc[p].rangeLen]
<1>1. Resumed(p) = [base EXCEPT !.src = proc[p].src]
  BY DEF Resumed
<1>2. old \in Side /\ SideInv(old) /\ dir.partial \in BOOLEAN
  BY DEF TransferInv, Types, Dir, DirInv
<1>3. proc[p].src \in Names /\ proc[p].rangeLen \in RangeLens /\ proc[p].src \in Sources
  BY DEF TransferInv, Types, Proc, PullerInv, At, Works
<1>4. CASE ~old.exists
  <2>1. base \in Side /\ base.exists /\ base.rangeLen = proc[p].rangeLen /\ base.proofs = {}
    BY <1>3, <1>4, ConstantTypes DEF NoSide, Side, Lens
  <2> HIDE DEF base
  <2>2. /\ Resumed(p) \in Side /\ Resumed(p).exists /\ Resumed(p).src = proc[p].src
        /\ Resumed(p).rangeLen = proc[p].rangeLen /\ Resumed(p).proofs = {}
    BY <1>1, <1>3, <2>1 DEF Side
  <2> QED BY <2>2, <1>3 DEF SideInv
<1>5. CASE old.exists
  <2>1. /\ named \in Side /\ named.exists /\ named.rangeLen = old.rangeLen
        /\ named.proofs = (IF SourceIsKnown(old) THEN old.proofs ELSE {})
    BY <1>2, <1>5 DEF Side
  <2> HIDE DEF named
  <2>2. /\ base \in Side /\ base.exists /\ base.rangeLen = old.rangeLen
        /\ base.proofs = {q \in named.proofs : dir.partial /\ Digest(data, q.range) = q.digest}
    BY <1>2, <1>5, <2>1, VerifiedFacts
  <2> HIDE DEF base
  <2>3. /\ Resumed(p) \in Side /\ Resumed(p).exists /\ Resumed(p).rangeLen = old.rangeLen
        /\ Resumed(p).src = proc[p].src
        /\ Resumed(p).proofs = {q \in named.proofs : dir.partial /\ Digest(data, q.range) = q.digest}
    BY <1>1, <1>3, <2>2 DEF Side
  <2>4. Resumed(p).proofs # {} => old.src = proc[p].src
    BY <2>1, <2>3, <1>5 DEF SourceIsKnown, CheckSource
  <2>5. Resumed(p).proofs \subseteq old.proofs
    BY <2>1, <2>3
  <2>6. SideInv(Resumed(p))
    BY <1>2, <1>5, <2>3, <2>4, <2>5 DEF SideInv
  <2> QED BY <2>3, <2>5, <2>6
<1> QED BY <1>4, <1>5

\* A sidecar of another source is refused; of the same one, only ranges that still
\* match are kept.
LEMMA LoadSidecarInv ==
    ASSUME TransferAssumption, TransferInv, NEW p \in Pullers, LoadSidecar(p)
    PROVE  TransferInv'
<1>1. lock = p /\ At(p, "check") /\ ~dir.staged /\ UNCHANGED <<remote, data, faults>>
  BY Holder DEF LoadSidecar, At, Works
<1>2. CASE dir.side.exists /\ ~CheckSource(dir.side, proc[p].src)
  <2>1. Return(p, "failed") /\ UNCHANGED <<dir, durable>>
    BY <1>2 DEF LoadSidecar
  <2>2. DiskTypes' /\ DirInv'
    BY <1>1, <2>1, DirFrame DEF TransferInv, Types, DiskTypes
  <2> QED BY <1>1, <2>1, <2>2, Returning
<1>3. CASE ~(dir.side.exists /\ ~CheckSource(dir.side, proc[p].src))
  <2> DEFINE side == Resumed(p)
             f == [proc[p] EXCEPT !.pc = "open", !.side = side, !.todo = Remaining(side)]
  <2>1. /\ dir' = [dir EXCEPT !.side = side] /\ durable' = [durable EXCEPT !.dir = dir']
        /\ Set(p, f) /\ UNCHANGED lock
    BY <1>3 DEF LoadSidecar, SyncDir
  <2>2. /\ side \in Side /\ SideInv(side) /\ side.exists /\ side.src = proc[p].src
        /\ side.proofs \subseteq dir.side.proofs
        /\ \A q \in side.proofs : dir.partial /\ Digest(data, q.range) = q.digest
    BY <1>1, <1>3, ResumedFacts
  <2> HIDE DEF side
  <2>3. /\ dir' \in Dir /\ dir'.side = side /\ ~dir'.staged /\ dir'.partial = dir.partial
        /\ durable' \in [dir : Dir, data : Bytes] /\ durable'.dir = dir' /\ durable'.data = durable.data
    BY <1>1, <2>1, <2>2 DEF TransferInv, Types, Dir
  <2>4. DiskTypes' /\ DirInv'
    BY <1>1, <2>2, <2>3 DEF TransferInv, Types, DiskTypes, DirInv, Survives
  <2>5. side.rangeLen \in RangeLens /\ Remaining(side) \in SUBSET Ranges
    BY <2>2, PlanFacts DEF SideInv, Remaining
  <2>6. /\ f \in Proc /\ f.pc = "open" /\ f.src = proc[p].src /\ f.side = side
        /\ f.todo = Remaining(side) /\ f.flight = {}
    <3>1. proc[p] \in Proc
      BY DEF TransferInv, Types
    <3>2. proc[p].flight = {}
      BY <1>1 DEF TransferInv, PullerInv, At
    <3>3. f.pc = "open" /\ f.src = proc[p].src /\ f.side = side /\ f.todo = Remaining(side) /\ f.flight = {}
      BY <3>1, <3>2 DEF Proc
    <3>4. f \in Proc
      BY <2>2, <2>5, <3>1 DEF Proc, Pcs
    <3> QED BY <3>3, <3>4
  <2> HIDE DEF f
  <2>7. proc'[p] = f
    BY <2>1, <2>6, SetFacts DEF TransferInv
  <2>8. PlanInv(p)'
    BY <2>6, <2>7 DEF PlanInv, Proven, Writing, Remaining
  <2>9. proc[p].src \in Sources
    BY <1>1 DEF TransferInv, PullerInv, At, Works
  <2>10. PullerInv(p)'
    <3>1. /\ proc'[p].pc = "open" /\ proc'[p].src = proc[p].src /\ proc'[p].side = side
          /\ proc'[p].flight = {} /\ ~Copying(p)' /\ ~Writing(p)' /\ ~Linking(p)'
      BY <2>6, <2>7 DEF Copying, Writing, Linking
    <3>2. \A q \in side.proofs : Digest(data, q.range)' = q.digest
      BY <1>1, <2>2 DEF Digest
    <3>3. side.proofs # {} => dir.partial
      BY <2>2
    <3> QED BY <2>2, <2>3, <2>8, <2>9, <3>1, <3>2, <3>3 DEF PullerInv
  <2> QED BY <1>1, <2>1, <2>4, <2>6, <2>10, Moving
<1> QED BY <1>2, <1>3

\* A missing partial file is created blank.
LEMMA OpenPartialInv ==
    ASSUME TransferAssumption, TransferInv, NEW p \in Pullers, OpenPartial(p)
    PROVE  TransferInv'
<1> DEFINE f == [proc[p] EXCEPT !.pc = "copy"]
<1>1. lock = p /\ At(p, "open") /\ UNCHANGED <<remote, lock, faults>> /\ Set(p, f)
  BY Holder DEF OpenPartial, At, Works, Goto
<1>2. PullerInv(p) /\ DirInv /\ Types
  BY DEF TransferInv
<1>3. /\ f \in Proc /\ f.pc = "copy" /\ f.src = proc[p].src /\ f.side = proc[p].side
      /\ f.todo = proc[p].todo /\ f.flight = proc[p].flight
  BY <1>2 DEF Types, Proc, Pcs
<1> HIDE DEF f
<1>4. proc'[p] = f
  BY <1>1, <1>2, <1>3, SetFacts
<1>5. dir' \in Dir /\ dir'.partial /\ dir'.side = dir.side /\ dir'.staged = dir.staged
  BY <1>2 DEF OpenPartial, Types, Dir
<1>6. /\ durable' \in [dir : Dir, data : Bytes] /\ durable'.dir = durable.dir /\ data' \in Bytes
      /\ dir.partial => UNCHANGED <<data, durable>>
  BY <1>2, ConstantTypes DEF OpenPartial, Types
<1>7. DiskTypes'
  BY <1>1, <1>2, <1>5, <1>6 DEF Types, DiskTypes
<1>8. dir.side.proofs # {} => dir.partial
  BY <1>1, <1>2 DEF PullerInv, At
<1>9. DirInv'
  BY <1>2, <1>5, <1>6, <1>8 DEF DirInv, SideInv, Survives
<1>10. PlanInv(p)'
  BY <1>1, <1>2, <1>3, <1>4 DEF PullerInv, PlanInv, Proven, Writing, At
<1>11. \A q \in dir'.side.proofs : Digest(data', q.range) = q.digest
  BY <1>1, <1>2, <1>5, <1>6, <1>8 DEF PullerInv, At
<1>12. PullerInv(p)'
  <2>1. /\ proc[p].src \in Sources /\ proc[p].side = dir.side /\ dir.side.exists
        /\ dir.side.src = proc[p].src /\ durable.dir.partial = dir.partial
    BY <1>1, <1>2 DEF PullerInv, Works, At
  <2>2. proc'[p].pc = "copy"
    BY <1>3, <1>4
  <2>3. dir'.side.proofs # {} => durable'.dir.partial
    BY <1>5, <1>6, <1>8, <2>1
  <2> QED BY <1>3, <1>4, <1>5, <1>10, <1>11, <2>1, <2>2, <2>3
     DEF PullerInv, Works, Copying, Writing, Linking, Digest
<1> QED BY <1>1, <1>3, <1>7, <1>9, <1>12, Moving

\* The ranges in flight are among those left to do.
LEMMA SpawnBatchInv ==
    ASSUME TransferAssumption, TransferInv, NEW p \in Pullers, SpawnBatch(p)
    PROVE  TransferInv'
<1> DEFINE batch == TakeSlots(proc[p].todo)
           f == [proc[p] EXCEPT !.flight = batch, !.todo = @ \ batch]
<1>1. /\ lock = p /\ At(p, "copy") /\ proc[p].flight = {} /\ Set(p, f)
      /\ UNCHANGED <<remote, dir, data, durable, lock, faults>>
  BY Holder DEF SpawnBatch, At, Works
<1>2. PullerInv(p) /\ DirInv /\ Types
  BY DEF TransferInv
<1>3. batch \subseteq proc[p].todo
  BY DEF TakeSlots
<1> HIDE DEF batch
<1>4. proc[p].todo \in SUBSET Ranges
  BY <1>2 DEF Types, Proc
<1>5. /\ f \in Proc /\ f.pc = "copy" /\ f.src = proc[p].src /\ f.side = proc[p].side
      /\ f.todo = proc[p].todo \ batch /\ f.flight = batch
  BY <1>1, <1>2, <1>3, <1>4 DEF Types, Proc, Pcs, At
<1> HIDE DEF f
<1>6. proc'[p] = f
  BY <1>1, <1>2, <1>5, SetFacts
<1>7. DiskTypes' /\ DirInv'
  BY <1>1, <1>2, DirFrame DEF Types, DiskTypes
<1>8. PlanInv(p)'
  BY <1>1, <1>2, <1>3, <1>5, <1>6 DEF PullerInv, PlanInv, Proven, Writing, Copying, At
<1>9. PullerInv(p)'
  BY <1>1, <1>2, <1>5, <1>6, <1>8 DEF PullerInv, Works, Copying, Writing, Linking, Digest, At
<1> QED BY <1>1, <1>5, <1>7, <1>9, Moving

\* A range written but not synced is not recorded.
LEMMA WriteRangeInv ==
    ASSUME TransferAssumption, TransferInv, NEW p \in Pullers, NEW r, WriteRange(p, r)
    PROVE  TransferInv'
<1> DEFINE f == [proc[p] EXCEPT !.pc = "sync", !.range = r, !.flight = @ \ {r}]
<1>1. /\ lock = p /\ At(p, "copy") /\ r \in proc[p].flight /\ Set(p, f)
      /\ UNCHANGED <<remote, dir, durable, lock, faults>>
  BY Holder DEF WriteRange, At, Works
<1>2. PullerInv(p) /\ DirInv /\ Types
  BY DEF TransferInv
<1>3. /\ proc[p].side = dir.side /\ PlanInv(p) /\ dir.side.exists /\ dir.side.src = proc[p].src
      /\ proc[p].src \in Sources /\ dir.partial /\ (dir.side.proofs # {} => durable.dir.partial)
      /\ \A q \in dir.side.proofs : Digest(data, q.range) = q.digest
  BY <1>1, <1>2 DEF PullerInv, Copying, Works, At
<1>4. dir.side.rangeLen \in RangeLens
  BY <1>2, <1>3 DEF DirInv, SideInv
<1>5. r \in PlanRanges(dir.side.rangeLen) /\ r \in Ranges /\ Blocks(r) \subseteq Offsets
  BY <1>1, <1>3, <1>4, PlanFacts DEF PlanInv
<1>6. \A q \in dir.side.proofs : Blocks(q.range) \cap Blocks(r) = {} /\ Blocks(q.range) \subseteq Offsets
  <2> SUFFICES ASSUME NEW q \in dir.side.proofs
               PROVE  Blocks(q.range) \cap Blocks(r) = {} /\ Blocks(q.range) \subseteq Offsets
    OBVIOUS
  <2>1. q.range \in PlanRanges(dir.side.rangeLen)
    BY <1>2 DEF DirInv, SideInv
  <2>2. q.range # r
    BY <1>1, <1>3, <1>5 DEF PlanInv, Proven
  <2> QED BY <2>1, <2>2, <1>4, <1>5, PlanFacts
<1>7. /\ f \in Proc /\ f.pc = "sync" /\ f.src = proc[p].src /\ f.side = proc[p].side
      /\ f.todo = proc[p].todo /\ f.flight = proc[p].flight \ {r} /\ f.range = r
  BY <1>2, <1>5 DEF Types, Proc, Pcs
<1> HIDE DEF f
<1>8. proc'[p] = f
  BY <1>1, <1>2, <1>7, SetFacts
<1>9. /\ data' \in Bytes
      /\ \A b \in Offsets : b \notin Blocks(r) => data'[b] = data[b]
      /\ \A b \in Blocks(r) : data'[b].src = proc[p].src
  <2>1. data' = [b \in Offsets |-> IF b \in Blocks(r) THEN [src |-> proc[p].src, ver |-> remote[proc[p].src]]
                                   ELSE data[b]]
    BY DEF WriteRange, Served
  <2>2. [src |-> proc[p].src, ver |-> remote[proc[p].src]] \in Block
    BY <1>2, <1>3 DEF Types, Block
  <2>3. \A b \in Offsets : data[b] \in Block
    BY <1>2 DEF Types, Bytes
  <2> QED BY <2>1, <2>2, <2>3, <1>5 DEF Bytes
<1>10. DiskTypes'
  BY <1>1, <1>2, <1>9 DEF Types, DiskTypes
<1>11. \A q \in dir.side.proofs : \A b \in Blocks(q.range) : data'[b] = data[b]
  BY <1>6, <1>9
<1>12. DirInv'
  BY <1>1, <1>2, <1>11 DEF DirInv, SideInv, Survives
<1>13. \A q \in dir'.side.proofs : Digest(data', q.range) = q.digest
  BY <1>1, <1>3, <1>11 DEF Digest
<1>14. PlanInv(p)'
  BY <1>1, <1>3, <1>5, <1>7, <1>8 DEF PlanInv, Proven, Writing, At
<1>15. PullerInv(p)'
  <2>1. proc'[p].pc = "sync" /\ proc'[p].range = r /\ proc'[p].src = proc[p].src
        /\ proc'[p].side = dir'.side
    BY <1>1, <1>3, <1>7, <1>8
  <2> QED BY <1>1, <1>3, <1>9, <1>13, <1>14, <2>1 DEF PullerInv, Works, Copying, Writing, Linking, Digest
<1> QED BY <1>1, <1>7, <1>10, <1>12, <1>15, Moving

\* Syncing makes the written range survive a power loss.
LEMMA SyncRangeInv ==
    ASSUME TransferAssumption, TransferInv, NEW p \in Pullers, SyncRange(p)
    PROVE  TransferInv'
<1> DEFINE f == [proc[p] EXCEPT !.pc = "record"]
<1>1. /\ lock = p /\ At(p, "sync") /\ Set(p, f) /\ UNCHANGED <<remote, dir, data, lock, faults>>
      /\ durable' = [durable EXCEPT !.data = data]
  BY Holder DEF SyncRange, At, Works, Goto
<1>2. PullerInv(p) /\ DirInv /\ Types
  BY DEF TransferInv
<1>3. /\ f \in Proc /\ f.pc = "record" /\ f.src = proc[p].src /\ f.side = proc[p].side
      /\ f.todo = proc[p].todo /\ f.flight = proc[p].flight /\ f.range = proc[p].range
  BY <1>2 DEF Types, Proc, Pcs
<1> HIDE DEF f
<1>4. proc'[p] = f
  BY <1>1, <1>2, <1>3, SetFacts
<1>5. durable' \in [dir : Dir, data : Bytes] /\ durable'.dir = durable.dir /\ durable'.data = data
  BY <1>1, <1>2 DEF Types
<1>6. DiskTypes' /\ DirInv'
  BY <1>1, <1>2, <1>5 DEF Types, DiskTypes, DirInv, SideInv, Survives
<1>7. PlanInv(p)'
  BY <1>1, <1>2, <1>3, <1>4 DEF PullerInv, PlanInv, Proven, Writing, Copying, At
<1>8. PullerInv(p)'
  BY <1>1, <1>2, <1>3, <1>4, <1>5, <1>7 DEF PullerInv, Works, Copying, Writing, Linking, Digest, At
<1> QED BY <1>1, <1>3, <1>6, <1>8, Moving

\* A range is recorded only after its bytes are durable.
LEMMA RecordRangeInv ==
    ASSUME TransferAssumption, TransferInv, NEW p \in Pullers, RecordRange(p)
    PROVE  TransferInv'
<1> DEFINE r == proc[p].range
           new == [range |-> r, digest |-> Digest(data, r)]
           side == Recorded(proc[p].side, r)
           f == [proc[p] EXCEPT !.pc = "copy", !.side = side]
<1>1. /\ lock = p /\ At(p, "record") /\ Set(p, f) /\ UNCHANGED <<remote, data, lock, faults>>
      /\ dir' = [dir EXCEPT !.side = side] /\ durable' = [durable EXCEPT !.dir = dir']
  BY Holder DEF RecordRange, At, Works, SyncDir
<1>2. PullerInv(p) /\ DirInv /\ Types
  BY DEF TransferInv
<1>3. /\ proc[p].side = dir.side /\ PlanInv(p) /\ dir.side.exists /\ dir.side.src = proc[p].src
      /\ proc[p].src \in Sources /\ dir.partial /\ durable.data = data
      /\ \A q \in dir.side.proofs : Digest(data, q.range) = q.digest
      /\ \A b \in Blocks(r) : data[b].src = proc[p].src
  BY <1>1, <1>2 DEF PullerInv, Copying, Writing, Works, At
<1>4. dir.side.rangeLen \in RangeLens
  BY <1>2, <1>3 DEF DirInv, SideInv
<1>5. r \in PlanRanges(dir.side.rangeLen) /\ r \in Ranges /\ Blocks(r) \subseteq Offsets
  BY <1>1, <1>3, <1>4, PlanFacts DEF PlanInv, Writing, At
<1>6. new \in Proof /\ new.range = r /\ new.digest = Digest(data, r)
  BY <1>2, <1>5, DigestType DEF Types
<1> HIDE DEF new
<1>7. /\ side \in Side /\ side.exists /\ side.src = proc[p].src /\ side.rangeLen = dir.side.rangeLen
      /\ side.proofs = dir.side.proofs \cup {new}
  <2>1. dir.side \in Side
    BY <1>2 DEF Types, Dir
  <2>2. side = [dir.side EXCEPT !.proofs = dir.side.proofs \cup {new}]
    BY <1>3 DEF Recorded, new
  <2> HIDE DEF side
  <2> QED BY <1>3, <1>6, <2>1, <2>2 DEF Side
<1> HIDE DEF side
<1>8. \A b \in Blocks(r) : new.digest[b] = data[b]
  BY <1>6 DEF Digest
<1>9. SideInv(side)
  BY <1>2, <1>3, <1>4, <1>5, <1>6, <1>7, <1>8 DEF DirInv, SideInv
<1>10. /\ f \in Proc /\ f.pc = "copy" /\ f.src = proc[p].src /\ f.side = side
       /\ f.todo = proc[p].todo /\ f.flight = proc[p].flight
  BY <1>2, <1>7 DEF Types, Proc, Pcs
<1> HIDE DEF f
<1>11. proc'[p] = f
  BY <1>1, <1>2, <1>10, SetFacts
<1>12. /\ dir' \in Dir /\ dir'.side = side /\ dir'.staged = dir.staged /\ dir'.partial = dir.partial
       /\ durable' \in [dir : Dir, data : Bytes] /\ durable'.dir = dir' /\ durable'.data = durable.data
  BY <1>1, <1>2, <1>7 DEF Types, Dir
<1>13. DiskTypes'
  BY <1>1, <1>2, <1>12 DEF Types, DiskTypes
<1>14. Survives'
  BY <1>1, <1>3, <1>12 DEF Survives
<1>15. DirInv'
  BY <1>2, <1>7, <1>9, <1>12, <1>14 DEF DirInv
<1>16. \A q \in dir'.side.proofs : Digest(data', q.range) = q.digest
  BY <1>1, <1>3, <1>6, <1>7, <1>12
<1>17. PlanInv(p)'
  BY <1>1, <1>3, <1>5, <1>6, <1>7, <1>10, <1>11 DEF PlanInv, Proven, Writing, At
<1>18. PullerInv(p)'
  <2>1. proc'[p].pc = "copy" /\ proc'[p].src = proc[p].src /\ proc'[p].side = dir'.side
    BY <1>10, <1>11, <1>12
  <2> QED BY <1>3, <1>7, <1>12, <1>16, <1>17, <2>1 DEF PullerInv, Works, Copying, Writing, Linking, Digest
<1> QED BY <1>1, <1>10, <1>13, <1>15, <1>18, Moving

\* The partial file is staged when every range is recorded.
LEMMA LinkStagedInv ==
    ASSUME TransferAssumption, TransferInv, NEW p \in Pullers, LinkStaged(p)
    PROVE  TransferInv'
<1> DEFINE f == [proc[p] EXCEPT !.pc = "unlink"]
<1>1. /\ lock = p /\ At(p, "copy") /\ Complete(p) /\ Set(p, f)
      /\ UNCHANGED <<remote, data, durable, lock, faults>> /\ dir' = [dir EXCEPT !.staged = TRUE]
  BY Holder DEF LinkStaged, At, Works, Goto
<1>2. PullerInv(p) /\ DirInv /\ Types
  BY DEF TransferInv
<1>3. /\ f \in Proc /\ f.pc = "unlink" /\ f.src = proc[p].src /\ f.side = proc[p].side
      /\ f.todo = proc[p].todo /\ f.flight = proc[p].flight /\ f.range = proc[p].range
  BY <1>2 DEF Types, Proc, Pcs
<1> HIDE DEF f
<1>4. proc'[p] = f
  BY <1>1, <1>2, <1>3, SetFacts
<1>5. dir' \in Dir /\ dir'.side = dir.side /\ dir'.staged
  BY <1>1, <1>2 DEF Types, Dir
<1>6. PlanInv(p) /\ proc[p].side = dir.side /\ dir.side.exists /\ dir.side.rangeLen \in RangeLens
  BY <1>1, <1>2 DEF PullerInv, Copying, At, DirInv, SideInv
<1>7. dir.side.proofs # {}
  <2>1. PICK r \in PlanRanges(dir.side.rangeLen) : TRUE
    BY <1>6, PlanFacts
  <2>2. Proven(p, r)
    BY <1>1, <1>6, <2>1 DEF PlanInv, Complete, Writing, At
  <2> QED BY <1>6, <2>2 DEF Proven
<1>8. durable.dir.partial
  BY <1>1, <1>2, <1>7 DEF PullerInv, Copying, At
<1>9. DiskTypes' /\ DirInv'
  BY <1>1, <1>2, <1>5, <1>6, <1>8 DEF Types, DiskTypes, DirInv, SideInv, Survives
<1>10. PlanInv(p)'
  BY <1>1, <1>3, <1>4, <1>6 DEF PlanInv, Proven, Writing, At
<1>11. PullerInv(p)'
  BY <1>1, <1>2, <1>3, <1>4, <1>5, <1>10
     DEF PullerInv, Works, Copying, Writing, Linking, Digest, At, Complete
<1> QED BY <1>1, <1>3, <1>9, <1>11, Moving

\* The partial name goes once the staged name stands; the sidecar stays.
LEMMA DropPartialInv ==
    ASSUME TransferAssumption, TransferInv, NEW p \in Pullers, DropPartial(p)
    PROVE  TransferInv'
<1> DEFINE f == [proc[p] EXCEPT !.pc = "settle"]
<1>1. /\ lock = p /\ At(p, "unlink") /\ Set(p, f)
      /\ UNCHANGED <<remote, data, durable, lock, faults>> /\ dir' = [dir EXCEPT !.partial = FALSE]
  BY Holder DEF DropPartial, At, Works, Goto
<1>2. PullerInv(p) /\ DirInv /\ Types
  BY DEF TransferInv
<1>3. /\ f \in Proc /\ f.pc = "settle" /\ f.src = proc[p].src /\ f.side = proc[p].side
      /\ f.todo = proc[p].todo /\ f.flight = proc[p].flight /\ f.range = proc[p].range
  BY <1>2 DEF Types, Proc, Pcs
<1> HIDE DEF f
<1>4. proc'[p] = f
  BY <1>1, <1>2, <1>3, SetFacts
<1>5. dir' \in Dir /\ dir'.side = dir.side /\ dir'.staged = dir.staged
  BY <1>1, <1>2 DEF Types, Dir
<1>6. DiskTypes' /\ DirInv'
  BY <1>1, <1>2, <1>5 DEF Types, DiskTypes, DirInv, SideInv, Survives
<1>7. PlanInv(p)'
  BY <1>1, <1>2, <1>3, <1>4 DEF PullerInv, PlanInv, Proven, Writing, Linking, At
<1>8. PullerInv(p)'
  <2>1. /\ proc[p].src \in Sources /\ proc[p].side = dir.side /\ dir.side.exists /\ dir.staged
        /\ dir.side.src = proc[p].src /\ proc[p].todo = {} /\ proc[p].flight = {}
        /\ \A q \in dir.side.proofs : Digest(data, q.range) = q.digest
    BY <1>1, <1>2 DEF PullerInv, Works, Linking, At
  <2>2. /\ proc'[p].pc = "settle" /\ proc'[p].src \in Sources /\ proc'[p].side = dir'.side
        /\ dir'.side.exists /\ dir'.side.src = proc'[p].src /\ dir'.staged
        /\ proc'[p].todo = {} /\ proc'[p].flight = {}
    BY <1>3, <1>4, <1>5, <2>1
  <2>3. \A q \in dir'.side.proofs : Digest(data', q.range) = q.digest
    BY <1>1, <1>5, <2>1
  <2> QED BY <1>7, <2>2, <2>3 DEF PullerInv, Works, Copying, Writing, Linking, Digest
<1> QED BY <1>1, <1>3, <1>6, <1>8, Moving

\* The pull ends on the staged file.
LEMMA SettleStagedInv ==
    ASSUME TransferAssumption, TransferInv, NEW p \in Pullers, SettleStaged(p)
    PROVE  TransferInv'
<1>1. /\ lock = p /\ At(p, "settle") /\ Return(p, "ok") /\ UNCHANGED <<remote, dir, data, faults>>
      /\ durable' = [durable EXCEPT !.dir = dir]
  BY Holder DEF SettleStaged, At, Works, SyncDir
<1>2. DirInv /\ Types
  BY DEF TransferInv
<1>3. durable' \in [dir : Dir, data : Bytes] /\ durable'.dir = dir /\ durable'.data = durable.data
  BY <1>1, <1>2 DEF Types
<1>4. DiskTypes' /\ DirInv'
  BY <1>1, <1>2, <1>3 DEF Types, DiskTypes, DirInv, SideInv, Survives
<1> QED BY <1>1, <1>4, Returning

\* A failed fetch keeps what was recorded and releases the lock.
LEMMA FetchFailsInv ==
    ASSUME TransferAssumption, TransferInv, NEW p \in Pullers, FetchFails(p)
    PROVE  TransferInv'
<1>1. lock = p /\ Return(p, "failed") /\ UNCHANGED <<remote, dir, data, durable>>
  BY Holder DEF FetchFails, At, Works
<1>2. DiskTypes' /\ DirInv'
  <2>1. faults' \in 0..MaxFaults
    BY DEF FetchFails, TransferInv, Types, TransferAssumption
  <2> QED BY <1>1, <2>1, DirFrame DEF TransferInv, Types, DiskTypes
<1> QED BY <1>1, <1>2, Returning

-----------------------------------------------------------------------------
(* Cleanup and faults *)

\* Cleanup takes the same lock as a pull.
LEMMA StartCleanupInv ==
    ASSUME TransferAssumption, TransferInv, NEW p \in Pullers, StartCleanup(p)
    PROVE  TransferInv'
<1>1. lock = Nobody /\ UNCHANGED <<remote, dir, data, durable, faults>>
  BY DEF StartCleanup, LockIsFree
<1>2. Types /\ DiskTypes' /\ DirInv'
  BY <1>1, DirFrame DEF TransferInv, Types, DiskTypes
<1>3. CASE Goto(p, "failed") /\ UNCHANGED lock
  <2> DEFINE f == [proc[p] EXCEPT !.pc = "failed"]
  <2>1. f \in Proc /\ f.pc = "failed" /\ Set(p, f)
    BY <1>2, <1>3 DEF Types, Proc, Pcs, Goto
  <2> HIDE DEF f
  <2> QED BY <1>1, <1>2, <1>3, <2>1, Resting
<1>4. CASE Goto(p, "cleanStaged") /\ lock' = p
  <2> DEFINE f == [proc[p] EXCEPT !.pc = "cleanStaged"]
  <2>1. f \in Proc /\ f.pc = "cleanStaged" /\ Set(p, f)
    BY <1>2, <1>4 DEF Types, Proc, Pcs, Goto
  <2> HIDE DEF f
  <2>2. proc'[p] = f
    BY <1>2, <2>1, SetFacts
  <2>3. PullerInv(p)'
    BY <2>1, <2>2 DEF PullerInv, Works, Copying, Writing, Linking
  <2> QED BY <1>1, <1>2, <1>4, <2>1, <2>3, Moving
<1> QED BY <1>3, <1>4 DEF StartCleanup

\* Cleanup removes the staged name.
LEMMA CleanStagedInv ==
    ASSUME TransferAssumption, TransferInv, NEW p \in Pullers, CleanStaged(p)
    PROVE  TransferInv'
<1> DEFINE f == [proc[p] EXCEPT !.pc = "cleanSide"]
<1>1. /\ lock = p /\ Set(p, f) /\ UNCHANGED <<remote, data, durable, lock, faults>>
      /\ dir' = [dir EXCEPT !.staged = FALSE]
  BY Holder DEF CleanStaged, At, Works, Goto
<1>2. DirInv /\ Types
  BY DEF TransferInv
<1>3. f \in Proc /\ f.pc = "cleanSide"
  BY <1>2 DEF Types, Proc, Pcs
<1> HIDE DEF f
<1>4. proc'[p] = f
  BY <1>1, <1>2, <1>3, SetFacts
<1>5. dir' \in Dir /\ dir'.side = dir.side /\ ~dir'.staged
  BY <1>1, <1>2 DEF Types, Dir
<1>6. DiskTypes' /\ DirInv'
  BY <1>1, <1>2, <1>5 DEF Types, DiskTypes, DirInv, SideInv, Survives
<1>7. PullerInv(p)'
  BY <1>3, <1>4, <1>5 DEF PullerInv, Works, Copying, Writing, Linking
<1> QED BY <1>1, <1>3, <1>6, <1>7, Moving

\* Cleanup removes the sidecar.
LEMMA CleanSideInv ==
    ASSUME TransferAssumption, TransferInv, NEW p \in Pullers, CleanSide(p)
    PROVE  TransferInv'
<1>1. /\ lock = p /\ ~dir.staged /\ UNCHANGED <<remote, data, faults>>
      /\ Set(p, Rest) /\ lock' = Nobody
      /\ dir' = [dir EXCEPT !.side = NoSide] /\ durable' = [durable EXCEPT !.dir = dir']
  BY Holder DEF CleanSide, At, Works, SyncDir, TransferInv, PullerInv
<1>2. Types
  BY DEF TransferInv
<1>3. /\ dir' \in Dir /\ dir'.side = NoSide /\ ~dir'.staged
      /\ durable' \in [dir : Dir, data : Bytes] /\ durable'.dir = dir'
  BY <1>1, <1>2, ConstantTypes DEF Types, Dir
<1>4. DiskTypes' /\ DirInv'
  <2>1. dir'.side.proofs = {} /\ ~dir'.side.exists
    BY <1>3 DEF NoSide
  <2> QED BY <1>1, <1>2, <1>3, <2>1 DEF Types, DiskTypes, DirInv, SideInv, Survives
<1>5. Rest \in Proc /\ Rest.pc = "idle"
  BY ConstantTypes DEF Rest
<1> QED BY <1>1, <1>4, <1>5, Resting

\* A puller without the lock may die as well.
LEMMA CrashInv ==
    ASSUME TransferAssumption, TransferInv, NEW p \in Pullers, Crash(p)
    PROVE  TransferInv'
<1>1. Types /\ LockInv /\ DirInv /\ UNCHANGED <<remote, dir, data, durable>> /\ Set(p, Rest)
  BY DEF TransferInv, Crash
<1>2. faults' \in 0..MaxFaults
  BY <1>1 DEF Crash, Fault, Types, TransferAssumption
<1>3. DiskTypes' /\ DirInv'
  BY <1>1, <1>2, DirFrame DEF Types, DiskTypes
<1>4. Rest \in Proc /\ Rest.pc = "idle"
  BY ConstantTypes DEF Rest
<1>5. CASE lock \in {p, Nobody}
  <2>1. lock' = Nobody
    BY <1>5 DEF Crash
  <2> QED BY <1>1, <1>3, <1>4, <1>5, <2>1, Resting
<1>6. CASE lock \notin {p, Nobody}
  <2>1. UNCHANGED lock
    BY <1>6 DEF Crash
  <2>2. proc' = [proc EXCEPT ![p] = Rest] /\ proc' \in [Pullers -> Proc] /\ proc'[p] = Rest
    BY <1>1, <1>4, SetFacts
  <2>3. \A q \in Pullers : q # p => proc'[q] = proc[q]
    BY <1>1, <2>2 DEF Types
  <2>4. Types'
    BY <1>1, <1>3, <2>1, <2>2 DEF Types, DiskTypes
  <2>5. ~Works(p)'
    BY <1>4, <2>2 DEF Works
  <2>6. LockInv'
    BY <1>1, <1>6, <2>1, <2>3, <2>5 DEF LockInv, Works
  <2>7. ASSUME NEW q \in Pullers PROVE PullerInv(q)'
    <3>1. CASE q = p
      BY <3>1, <2>5, AtRest
    <3>2. CASE q # p
      <4>1. PullerInv(q) /\ proc'[q] = proc[q]
        BY <3>2, <2>3 DEF TransferInv
      <4> QED BY <1>1, <4>1 DEF PullerInv, PlanInv, Proven, Works, Copying, Writing, Linking, Digest
    <3> QED BY <3>1, <3>2
  <2> QED BY <1>3, <2>4, <2>6, <2>7 DEF TransferInv
<1> QED BY <1>5, <1>6

\* When every puller is at rest and the lock is free, the disk is all there is.
LEMMA AllAtRest ==
    ASSUME TransferAssumption, proc' = [p \in Pullers |-> Rest], lock' = Nobody, DiskTypes', DirInv'
    PROVE  TransferInv'
<1>1. Rest \in Proc /\ Rest.pc = "idle"
  BY ConstantTypes DEF Rest
<1>2. Types'
  BY <1>1 DEF Types, DiskTypes
<1>3. \A p \in Pullers : ~Works(p)' /\ lock' # p
  BY <1>1 DEF Works, TransferAssumption
<1> QED BY <1>2, <1>3, AtRest DEF TransferInv, LockInv

\* A power loss keeps what was synced: every recorded range is among it.
LEMMA PowerLossInv ==
    ASSUME TransferAssumption, TransferInv, PowerLoss
    PROVE  TransferInv'
<1>1. Types /\ DirInv
  BY DEF TransferInv
<1>2. faults' \in 0..MaxFaults
  BY <1>1 DEF PowerLoss, Fault, Types, TransferAssumption
<1>3. PICK d \in {dir, durable.dir} : dir' = d /\ durable' = [dir |-> d, data |-> data']
  BY DEF PowerLoss
<1>4. d \in Dir /\ d.side = dir.side
  BY <1>1, <1>3 DEF Types, DirInv
<1>5. data' \in Bytes
  <2>1. PICK kept \in SUBSET Offsets, torn \in BOOLEAN :
          data' = [b \in Offsets |-> IF data[b] = durable.data[b] \/ b \in kept THEN data[b]
                                      ELSE IF torn THEN Torn ELSE durable.data[b]]
    BY DEF PowerLoss
  <2>2. \A b \in Offsets : data[b] \in Block /\ durable.data[b] \in Block
    BY <1>1 DEF Types, Bytes
  <2> QED BY <2>1, <2>2, ConstantTypes DEF Bytes
<1>6. durable' \in [dir : Dir, data : Bytes] /\ durable'.dir = dir' /\ durable'.data = data'
  BY <1>3, <1>4, <1>5
<1>7. DiskTypes'
  BY <1>1, <1>2, <1>3, <1>4, <1>5, <1>6 DEF PowerLoss, Types, DiskTypes
<1>8. SideInv(dir.side)' /\ (dir'.staged => dir'.side.exists)
  BY <1>1, <1>3, <1>4 DEF DirInv, SideInv
<1>9. DirInv'
  BY <1>6, <1>8 DEF DirInv, Survives
<1> QED BY <1>7, <1>9, AllAtRest DEF PowerLoss

\* Bytes that decay are torn, which no recorded digest matches.
LEMMA DecayInv ==
    ASSUME TransferAssumption, TransferInv, NEW b \in Offsets, Decay(b)
    PROVE  TransferInv'
<1>1. Types /\ DirInv
  BY DEF TransferInv
<1>2. faults' \in 0..MaxFaults
  BY <1>1 DEF Decay, Fault, Types, TransferAssumption
<1>3. data' \in Bytes /\ \A c \in Offsets : data'[c] = IF c = b THEN Torn ELSE data[c]
  BY <1>1, ConstantTypes DEF Decay, Types, Bytes
<1>4. /\ durable' \in [dir : Dir, data : Bytes] /\ durable'.dir = durable.dir
      /\ \A c \in Offsets : durable'.data[c] = IF c = b THEN Torn ELSE durable.data[c]
  BY <1>1, ConstantTypes DEF Decay, Types, Bytes
<1>5. DiskTypes'
  BY <1>1, <1>2, <1>3, <1>4 DEF Decay, Types, DiskTypes
<1>6. Survives'
  <2> SUFFICES ASSUME NEW q \in dir.side.proofs, NEW c \in Blocks(q.range), data'[c] = q.digest[c]
               PROVE  durable'.data[c] = data'[c]
    BY DEF Survives, Decay
  <2>1. c \in Offsets
    BY <1>1, PlanFacts DEF DirInv, SideInv
  <2>2. c # b => data[c] = q.digest[c] /\ durable.data[c] = data[c]
    BY <1>1, <1>3, <2>1 DEF DirInv, Survives
  <2> QED BY <1>3, <1>4, <2>1, <2>2
<1>7. DirInv'
  BY <1>1, <1>4, <1>6 DEF Decay, DirInv, SideInv
<1> QED BY <1>5, <1>7, AllAtRest DEF Decay

\* The remote file may be replaced while it is pulled.
LEMMA RemoteChangesInv ==
    ASSUME TransferAssumption, TransferInv, NEW s \in Sources, RemoteChanges(s)
    PROVE  TransferInv'
<1>1. Types' /\ DirInv' /\ UNCHANGED <<dir, data, durable, lock, proc, faults>>
  BY DirFrame DEF TransferInv, Types, RemoteChanges, TransferAssumption
<1> QED BY <1>1 DEF TransferInv, LockInv, PullerInv, PlanInv, Proven, Works, Copying, Writing, Linking, Digest

-----------------------------------------------------------------------------
(* The theorems *)

\* The invariant is inductive.
LEMMA StepInv ==
    ASSUME TransferAssumption, TransferInv, [Next]_vars
    PROVE  TransferInv'
<1>1. CASE UNCHANGED vars
  BY <1>1 DEF vars, TransferInv, Types, LockInv, DirInv, SideInv, Survives, PullerInv, PlanInv, Proven,
              Works, Copying, Writing, Linking, Digest
<1>2. ASSUME NEW p \in Pullers, Pull(p) PROVE TransferInv'
  BY <1>2, StartPullInv, AdoptStagedInv, LoadSidecarInv, OpenPartialInv, SpawnBatchInv, WriteRangeInv,
     SyncRangeInv, RecordRangeInv, LinkStagedInv, DropPartialInv, SettleStagedInv DEF Pull
<1>3. ASSUME NEW p \in Pullers, Cleanup(p) \/ FetchFails(p) \/ Crash(p) PROVE TransferInv'
  BY <1>3, StartCleanupInv, CleanStagedInv, CleanSideInv, FetchFailsInv, CrashInv DEF Cleanup
<1> QED BY <1>1, <1>2, <1>3, PowerLossInv, DecayInv, RemoteChangesInv DEF Next

\* The invariant of the range transfer: at every moment, crashes and power
\* losses included, the sidecar proves only bytes of the source it names, the
\* proved bytes that are still there survive a power loss, and the puller with
\* the lock has partitioned the plan.
THEOREM TransferInvHolds ==
    ASSUME TransferAssumption
    PROVE  Spec => []TransferInv
<1>1. Init => TransferInv
  BY InitInv
<1>2. TransferInv /\ [Next]_vars => TransferInv'
  BY StepInv
<1> QED BY <1>1, <1>2, PTL DEF Spec

\* Types; a staged file always has its sidecar (cleanup_staged removes the
\* staged name first).
THEOREM TransferTypeCorrect ==
    ASSUME TransferAssumption
    PROVE  Spec => []TransferTypeOK
<1>1. TransferInv => TransferTypeOK
  BY DEF TransferInv, Types, LockInv, Works, DirInv, TransferTypeOK, Bytes, Block
<1> QED BY <1>1, TransferInvHolds, PTL

\* Only adopting and settling end a pull with success.
LEMMA ReturnSteps ==
    ASSUME TransferAssumption, TransferInv, Next, NEW p \in Pullers, Returns(p)
    PROVE  AdoptStaged(p) \/ SettleStaged(p)
<1>1. proc[p].pc # "ok" /\ proc'[p].pc = "ok" /\ Rest.pc = "idle" /\ Types
  BY DEF Returns, Rest, TransferInv
<1>2. ASSUME NEW q \in Pullers, NEW f, Set(q, f) PROVE q = p /\ f.pc = "ok"
  BY <1>1, <1>2 DEF Set, Types
<1>3. ASSUME NEW q \in Pullers, NEW f \in Proc, f.pc # "ok" PROVE ~Set(q, f)
  BY <1>2, <1>3
<1>4. ASSUME NEW q \in Pullers, NEW x \in Pcs \ {"ok"} PROVE ~Goto(q, x)
  <2>1. [proc[q] EXCEPT !.pc = x] \in Proc /\ [proc[q] EXCEPT !.pc = x].pc = x
    BY <1>1 DEF Types, Proc
  <2> QED BY <2>1, <1>3 DEF Goto
<1>5. ASSUME NEW q \in Pullers, Return(q, "failed") PROVE FALSE
  <2>1. [Rest EXCEPT !.pc = "failed", !.src = proc[q].src].pc = "failed"
    BY DEF Rest
  <2> QED BY <1>2, <1>5, <2>1 DEF Return
<1>6. ~UNCHANGED proc /\ ~(proc' = [q \in Pullers |-> Rest])
  BY <1>1
<1>7. ASSUME NEW q \in Pullers, Cleanup(q) \/ FetchFails(q) \/ Crash(q) PROVE FALSE
  BY <1>1, <1>2, <1>4, <1>5, <1>7
     DEF Cleanup, StartCleanup, CleanStaged, CleanSide, FetchFails, Crash, Pcs
<1>8. ASSUME NEW q \in Pullers, Pull(q) PROVE AdoptStaged(p) \/ SettleStaged(p)
  <2>1. ~\E s \in Sources, n \in RangeLens : StartPull(q, s, n)
    <3>1. \A s, n : [Rest EXCEPT !.pc = "check", !.src = s, !.rangeLen = n].pc = "check"
      BY DEF Rest
    <3> QED BY <3>1, <1>2 DEF StartPull
  <2>2. ~LoadSidecar(q)
    <3>1. \A a, b : [proc[q] EXCEPT !.pc = "open", !.side = a, !.todo = b].pc = "open"
      BY <1>1 DEF Types, Proc
    <3> QED BY <3>1, <1>2, <1>5 DEF LoadSidecar
  <2>3. ~SpawnBatch(q)
    <3>1. proc[q].pc # "ok" => \A a, b : [proc[q] EXCEPT !.flight = a, !.todo = b].pc # "ok"
      BY <1>1 DEF Types, Proc
    <3> QED BY <3>1, <1>2 DEF SpawnBatch, At
  <2>4. ~\E r \in proc[q].flight : WriteRange(q, r)
    <3>1. \A a, b : [proc[q] EXCEPT !.pc = "sync", !.range = a, !.flight = b].pc = "sync"
      BY <1>1 DEF Types, Proc
    <3> QED BY <3>1, <1>2 DEF WriteRange
  <2>5. ~RecordRange(q)
    <3>1. \A a : [proc[q] EXCEPT !.pc = "copy", !.side = a].pc = "copy"
      BY <1>1 DEF Types, Proc
    <3> QED BY <3>1, <1>2 DEF RecordRange
  <2>6. ~(OpenPartial(q) \/ SyncRange(q) \/ LinkStaged(q) \/ DropPartial(q))
    BY <1>4 DEF OpenPartial, SyncRange, LinkStaged, DropPartial, Pcs
  <2>7. AdoptStaged(q) \/ SettleStaged(q)
    BY <1>8, <2>1, <2>2, <2>3, <2>4, <2>5, <2>6 DEF Pull
  <2>8. q = p
    BY <1>2, <2>7 DEF AdoptStaged, SettleStaged, Return
  <2> QED BY <2>7, <2>8
<1>9. ~PowerLoss /\ ~(\E b \in Offsets : Decay(b)) /\ ~(\E s \in Sources : RemoteChanges(s))
  BY <1>6 DEF PowerLoss, Decay, RemoteChanges
<1> QED BY <1>7, <1>8, <1>9 DEF Next

\* The sidecar proves the whole file.
Whole ==
    /\ dir.staged /\ dir.side.exists
    /\ \A r \in PlanRanges(dir.side.rangeLen) :
         \E q \in dir.side.proofs : q.range = r /\ Digest(data, r) = q.digest

\* Then every block is of the named source, and all of it survives a power loss.
LEMMA WholeFacts ==
    ASSUME TransferAssumption, TransferInv, Whole
    PROVE  /\ dir.side.src # NoSource => \A b \in Offsets : data[b].src = dir.side.src
           /\ durable.data = data
           /\ \A r \in PlanRanges(dir.side.rangeLen) :
                [range |-> r, digest |-> Digest(data, r)] \in dir.side.proofs
<1>1. dir.side.rangeLen \in RangeLens /\ SideInv(dir.side) /\ Survives /\ dir.side \in Side
  BY DEF TransferInv, DirInv, SideInv, Whole, Types, Dir
<1>2. ASSUME NEW b \in Offsets
      PROVE  \E q \in dir.side.proofs : b \in Blocks(q.range) /\ data[b] = q.digest[b]
  <2>1. PICK r \in PlanRanges(dir.side.rangeLen) : b \in Blocks(r)
    BY <1>1, PlanFacts
  <2>2. PICK q \in dir.side.proofs : q.range = r /\ Digest(data, r) = q.digest
    BY DEF Whole
  <2> QED BY <2>1, <2>2 DEF Digest
<1>3. dir.side.src # NoSource => \A b \in Offsets : data[b].src = dir.side.src
  BY <1>1, <1>2 DEF SideInv
<1>4. \A b \in Offsets : durable.data[b] = data[b]
  BY <1>1, <1>2 DEF Survives
<1>5. data \in Bytes /\ durable.data \in Bytes
  BY DEF TransferInv, Types
<1>6. durable.data = data
  BY <1>4, <1>5 DEF Bytes
<1>7. ASSUME NEW r \in PlanRanges(dir.side.rangeLen)
      PROVE  [range |-> r, digest |-> Digest(data, r)] \in dir.side.proofs
  <2>1. PICK q \in dir.side.proofs : q.range = r /\ Digest(data, r) = q.digest
    BY DEF Whole
  <2>2. q \in Proof
    BY <1>1 DEF Side
  <2>3. q = [range |-> r, digest |-> Digest(data, r)]
    BY <2>1, <2>2 DEF Proof
  <2> QED BY <2>3
<1> QED BY <1>3, <1>6, <1>7

\* The two ways to return find the file whole.
LEMMA ReturnsProved ==
    ASSUME TransferAssumption, TransferInv, NEW p \in Pullers, AdoptStaged(p) \/ SettleStaged(p), Returns(p)
    PROVE  Whole /\ dir.side.src = proc[p].src /\ proc[p].src # NoSource
<1>1. CASE AdoptStaged(p)
  <2>1. Adoptable(p)
    <3>1. ~Return(p, "failed")
      <4>1. [Rest EXCEPT !.pc = "failed", !.src = proc[p].src].pc = "failed"
        BY DEF Rest
      <4> QED BY <4>1 DEF Return, Set, Returns, TransferInv, Types
    <3> QED BY <1>1, <3>1 DEF AdoptStaged
  <2> DEFINE kept == Verified(dir.side, TRUE)
  <2>2. /\ dir.side.exists /\ dir.side.src # NoSource /\ dir.side.src = proc[p].src /\ Remaining(kept) = {}
    BY <2>1 DEF Adoptable, CheckSource, SourceIsKnown
  <2>3. /\ kept.rangeLen = dir.side.rangeLen
        /\ kept.proofs = {q \in dir.side.proofs : Digest(data, q.range) = q.digest}
    BY VerifiedFacts DEF TransferInv, Types, Dir
  <2> HIDE DEF kept
  <2>4. \A r \in PlanRanges(dir.side.rangeLen) :
           \E q \in dir.side.proofs : q.range = r /\ Digest(data, r) = q.digest
    BY <2>2, <2>3 DEF Remaining
  <2> QED BY <1>1, <2>2, <2>4 DEF Whole, AdoptStaged
<1>2. CASE SettleStaged(p)
  <2>1. PullerInv(p) /\ Linking(p)
    BY <1>2 DEF SettleStaged, At, TransferInv, Linking
  <2>2. /\ dir.staged /\ dir.side.exists /\ dir.side.src = proc[p].src /\ proc[p].side = dir.side
        /\ PlanInv(p) /\ proc[p].todo = {} /\ proc[p].flight = {} /\ ~Writing(p)
        /\ \A q \in dir.side.proofs : Digest(data, q.range) = q.digest
        /\ proc[p].src \in Sources
    BY <2>1 DEF PullerInv, Linking, Works, Writing
  <2>3. \A r \in PlanRanges(dir.side.rangeLen) : \E q \in dir.side.proofs : q.range = r
    BY <2>2 DEF PlanInv, Proven
  <2> QED BY <2>2, <2>3 DEF Whole, TransferAssumption
<1> QED BY <1>1, <1>2

\* A pull returns only a staged file of which every block came from the source
\* asked for (pull_file, with resume and adoption).
THEOREM PullsReturnWhole ==
    ASSUME TransferAssumption
    PROVE  Spec => [][ReturnsWhole]_vars
<1>1. ASSUME TransferInv, Next PROVE ReturnsWhole
  <2> SUFFICES ASSUME NEW p \in Pullers, Returns(p)
               PROVE  dir'.staged /\ \A b \in Offsets : data'[b].src = proc[p].src
    BY DEF ReturnsWhole
  <2>1. AdoptStaged(p) \/ SettleStaged(p)
    BY <1>1, ReturnSteps
  <2>2. Whole /\ dir.side.src = proc[p].src /\ proc[p].src # NoSource
    BY <1>1, <2>1, ReturnsProved
  <2>3. \A b \in Offsets : data[b].src = proc[p].src
    BY <1>1, <2>2, WholeFacts
  <2>4. UNCHANGED data /\ dir'.staged = dir.staged
    BY <1>1, <2>1 DEF AdoptStaged, SettleStaged, TransferInv, Types, Dir
  <2> QED BY <2>2, <2>3, <2>4 DEF Whole
<1>2. TransferInv /\ [Next]_vars => [ReturnsWhole]_vars
  BY <1>1
<1> QED BY <1>2, TransferInvHolds, PTL DEF Spec

\* What a pull has returned survives a power loss, whole and proved, under one
\* of its two names.
THEOREM PullsReturnDurable ==
    ASSUME TransferAssumption
    PROVE  Spec => [][ReturnsDurable]_vars
<1>1. ASSUME TransferInv, Next PROVE ReturnsDurable
  <2> SUFFICES ASSUME NEW p \in Pullers, Returns(p) PROVE ProofSynced'
    BY DEF ReturnsDurable
  <2>1. AdoptStaged(p) \/ SettleStaged(p)
    BY <1>1, ReturnSteps
  <2>2. Whole
    BY <1>1, <2>1, ReturnsProved
  <2>3. /\ durable.data = data
        /\ \A r \in PlanRanges(dir.side.rangeLen) :
              [range |-> r, digest |-> Digest(data, r)] \in dir.side.proofs
    BY <1>1, <2>2, WholeFacts
  <2>4. /\ UNCHANGED data /\ durable'.data = durable.data /\ durable'.dir.side = dir.side
        /\ durable'.dir.staged \/ durable'.dir.partial
    BY <1>1, <2>1, <2>2 DEF AdoptStaged, SettleStaged, SyncDir, TransferInv, Types, DirInv, Whole
  <2> QED BY <2>2, <2>3, <2>4 DEF ProofSynced, Whole, Digest
<1>2. TransferInv /\ [Next]_vars => [ReturnsDurable]_vars
  BY <1>1
<1> QED BY <1>2, TransferInvHolds, PTL DEF Spec

\* Only SpawnBatch puts a range in flight, and it takes it from the ones to fetch.
LEMMA FlightSteps ==
    ASSUME TransferInv, Next, NEW p \in Pullers, NEW r \in proc'[p].flight \ proc[p].flight
    PROVE  At(p, "copy") /\ r \in proc[p].todo
<1>1. Types /\ Rest.flight = {}
  BY DEF TransferInv, Rest
<1>2. ASSUME NEW q \in Pullers, NEW f, Set(q, f) PROVE q = p /\ r \in f.flight
  BY <1>1, <1>2 DEF Set, Types
<1>3. ASSUME NEW q \in Pullers, NEW f, f.flight \subseteq proc[q].flight PROVE ~Set(q, f)
  BY <1>2, <1>3
<1>4. ASSUME NEW q \in Pullers, NEW x PROVE ~Goto(q, x)
  <2>1. [proc[q] EXCEPT !.pc = x].flight = proc[q].flight
    BY <1>1 DEF Types, Proc
  <2> QED BY <2>1, <1>3 DEF Goto
<1>5. ASSUME NEW q \in Pullers, NEW x PROVE ~Return(q, x)
  <2>1. [Rest EXCEPT !.pc = x, !.src = proc[q].src].flight = {}
    BY DEF Rest
  <2> QED BY <1>3, <2>1 DEF Return
<1>6. ~UNCHANGED proc /\ ~(proc' = [q \in Pullers |-> Rest])
  BY <1>1
<1>7. ASSUME NEW q \in Pullers, Cleanup(q) \/ FetchFails(q) \/ Crash(q) PROVE FALSE
  BY <1>1, <1>2, <1>4, <1>5, <1>7
     DEF Cleanup, StartCleanup, CleanStaged, CleanSide, FetchFails, Crash
<1>8. ASSUME NEW q \in Pullers, Pull(q) PROVE SpawnBatch(q)
  <2>1. ~\E s \in Sources, n \in RangeLens : StartPull(q, s, n)
    <3>1. \A s, n : [Rest EXCEPT !.pc = "check", !.src = s, !.rangeLen = n].flight = {}
      BY DEF Rest
    <3> QED BY <3>1, <1>2 DEF StartPull
  <2>2. ~LoadSidecar(q)
    <3>1. \A a, b : [proc[q] EXCEPT !.pc = "open", !.side = a, !.todo = b].flight = proc[q].flight
      BY <1>1 DEF Types, Proc
    <3> QED BY <3>1, <1>3, <1>5 DEF LoadSidecar
  <2>3. ~\E x \in proc[q].flight : WriteRange(q, x)
    <3> SUFFICES ASSUME NEW x, WriteRange(q, x) PROVE FALSE
      OBVIOUS
    <3> DEFINE f == [proc[q] EXCEPT !.pc = "sync", !.range = x, !.flight = @ \ {x}]
    <3>1. f.flight \subseteq proc[q].flight
      BY <1>1 DEF Types, Proc
    <3>2. Set(q, f)
      BY DEF WriteRange
    <3> QED BY <3>1, <3>2, <1>3
  <2>4. ~RecordRange(q)
    <3>1. \A a : [proc[q] EXCEPT !.pc = "copy", !.side = a].flight = proc[q].flight
      BY <1>1 DEF Types, Proc
    <3> QED BY <3>1, <1>3 DEF RecordRange
  <2>5. ~(OpenPartial(q) \/ SyncRange(q) \/ LinkStaged(q) \/ DropPartial(q))
    BY <1>4 DEF OpenPartial, SyncRange, LinkStaged, DropPartial
  <2>6. ~(AdoptStaged(q) \/ SettleStaged(q))
    BY <1>5 DEF AdoptStaged, SettleStaged
  <2> QED BY <1>8, <2>1, <2>2, <2>3, <2>4, <2>5, <2>6 DEF Pull
<1>9. ~PowerLoss /\ ~(\E b \in Offsets : Decay(b)) /\ ~(\E s \in Sources : RemoteChanges(s))
  BY <1>6 DEF PowerLoss, Decay, RemoteChanges
<1>10. PICK q \in Pullers : SpawnBatch(q)
  BY <1>7, <1>8, <1>9 DEF Next
<1> DEFINE batch == TakeSlots(proc[q].todo)
<1>11. [proc[q] EXCEPT !.flight = batch, !.todo = @ \ batch].flight = batch
  BY <1>1 DEF Types, Proc
<1>12. q = p /\ r \in batch
  BY <1>2, <1>10, <1>11 DEF SpawnBatch
<1> QED BY <1>10, <1>12 DEF SpawnBatch, TakeSlots

\* A pull never fetches a range its sidecar already proves.
THEOREM OnlyMissingIsFetched ==
    ASSUME TransferAssumption
    PROVE  Spec => [][FetchesMissing]_vars
<1>1. ASSUME TransferInv, Next PROVE FetchesMissing
  <2> SUFFICES ASSUME NEW p \in Pullers, NEW r \in proc'[p].flight \ proc[p].flight,
                      NEW q \in dir.side.proofs, q.range = r
               PROVE  FALSE
    BY DEF FetchesMissing
  <2>1. At(p, "copy") /\ r \in proc[p].todo
    BY <1>1, FlightSteps
  <2>2. PlanInv(p) /\ proc[p].side = dir.side
    BY <1>1, <2>1 DEF TransferInv, PullerInv, Copying, At
  <2> QED BY <2>1, <2>2 DEF PlanInv, Proven
<1>2. TransferInv /\ [Next]_vars => [FetchesMissing]_vars
  BY <1>1
<1> QED BY <1>2, TransferInvHolds, PTL DEF Spec

=============================================================================
