---------------------------- MODULE DaemonProofs ----------------------------
(***************************************************************************)
(* Proofs about the daemons at home, for every set of roles, PIDs,         *)
(* gateways and pulls.  The variables are in the slots of Daemons: sup is  *)
(* s1, child s2, proc s3 and binary s5 of the supervisor.  Then the codec  *)
(* of the objects they exchange, for every kind; and the seedbox daemon:   *)
(* its walker, for every file system, and the calls on it, for every       *)
(* release.                                                                *)
(***************************************************************************)
EXTENDS Daemons, ObjectCodec, SeedboxWalker, Integers, Sequences, TLAPS, FiniteSetTheorems, WellFoundedInduction

CONSTANTS FileNames, Keys, OutputOf, PlacementOf, Titles, Releases, Boxes, Ops, MaxCalls

VARIABLES box, files, queue, monitored, applied, call, result, calls

\* daemon, changes and MaxChanges have another meaning here than in SeedboxWalker.
C == INSTANCE ControlWire

-----------------------------------------------------------------------------
(* The supervisor                                                          *)

\* ROLES has a first position, and the positions are numbered up to its length.
LEMMA SupervisorPositions ==
    /\ Len(Roles) \in Nat /\ Len(Roles) >= 1 /\ R!Positions = 1 .. Len(Roles)
    /\ \A i \in R!Positions : Roles[i] \notin {"free", "foreign"}
    /\ \A i, j \in R!Positions : Roles[i] = Roles[j] => i = j
  BY DaemonsAssumption DEF R!SupervisorAssumption, R!Positions

\* No handle exists before spawn_children.
LEMMA SupervisorInitInv == R!SupervisorInit => R!SupervisorInv
<1> SUFFICES ASSUME R!SupervisorInit PROVE R!SupervisorInv
  OBVIOUS
<1>1. R!StateTyped
  BY SupervisorPositions DEF R!SupervisorInit, R!StateTyped, R!NoChild, R!FreePid, R!Process
<1>2. R!HandlesName /\ R!NotStarted /\ R!EndsReaped
  BY DEF R!SupervisorInit, R!HandlesName, R!Unreaped, R!NoChild, R!NotStarted, R!EndsReaped
<1>3. R!RolesAreHeld /\ R!FreeIsBlank /\ R!ForeignNeverSignalled
  BY DEF R!SupervisorInit, R!RolesAreHeld, R!FreeIsBlank, R!FreePid, R!ForeignNeverSignalled
<1> QED BY <1>1, <1>2, <1>3 DEF R!SupervisorInv

\* Two unreaped handles never name one process.
LEMMA HandlesDiffer ==
    ASSUME R!SupervisorInv, NEW i \in R!Positions, NEW j \in R!Positions,
           R!Unreaped(i), R!Unreaped(j), s2[i].pid = s2[j].pid
    PROVE  i = j
  BY SupervisorPositions DEF R!SupervisorInv, R!HandlesName

\* An unreaped handle has a PID and is not the blank one.
LEMMA UnreapedHasPid ==
    ASSUME R!SupervisorInv, NEW i \in R!Positions
    PROVE  /\ ~s2[i].reaped <=> R!Unreaped(i)
           /\ R!Unreaped(i) => s2[i].pid \in Pids /\ s2[i] \in [pid : Pids, reaped : BOOLEAN]
  BY DEF R!SupervisorInv, R!StateTyped, R!Unreaped, R!NoChild

\* spawn_role keeps the bookkeeping when the handle it replaces was reaped.
LEMMA SpawnKeeps ==
    ASSUME R!SupervisorInv, NEW i \in R!Positions, ~R!Unreaped(i), R!SpawnRole(i)
    PROVE  /\ s2' \in [R!Positions -> [pid : Pids, reaped : BOOLEAN] \cup {R!NoChild}]
           /\ s3' \in [Pids -> R!Process]
           /\ R!HandlesName' /\ R!RolesAreHeld' /\ R!FreeIsBlank' /\ R!ForeignNeverSignalled'
           /\ \A j \in R!Positions : j # i => s2'[j] = s2[j]
<1> PICK p \in Pids, stubborn \in BOOLEAN :
        /\ s3[p] = R!FreePid
        /\ s3' = [s3 EXCEPT ![p] =
               [R!FreePid EXCEPT !.role = Roles[i], !.alive = TRUE, !.stubborn = stubborn]]
        /\ s2' = [s2 EXCEPT ![i] = [pid |-> p, reaped |-> FALSE]]
  BY DEF R!SpawnRole
<1> USE SupervisorPositions
<1>1. s2 \in [R!Positions -> [pid : Pids, reaped : BOOLEAN] \cup {R!NoChild}] /\ s3 \in [Pids -> R!Process]
  BY DEF R!SupervisorInv, R!StateTyped
<1>2. /\ s2' \in [R!Positions -> [pid : Pids, reaped : BOOLEAN] \cup {R!NoChild}]
      /\ \A j \in R!Positions : j # i => s2'[j] = s2[j]
      /\ s2'[i] = [pid |-> p, reaped |-> FALSE]
  BY <1>1
<1>3. /\ s3' \in [Pids -> R!Process]
      /\ \A q \in Pids : q # p => s3'[q] = s3[q]
      /\ s3'[p].role = Roles[i] /\ ~s3'[p].term /\ ~s3'[p].kill
  BY <1>1 DEF R!Process, R!FreePid
<1>4. \A j \in R!Positions : j # i => (R!Unreaped(j)' <=> R!Unreaped(j))
  BY <1>2 DEF R!Unreaped, R!NoChild
<1>5. R!Unreaped(i)'
  BY <1>2 DEF R!Unreaped, R!NoChild
<1>6. R!HandlesName'
  <2> SUFFICES ASSUME NEW j \in R!Positions, R!Unreaped(j)' PROVE s3'[s2'[j].pid].role = Roles[j]
    BY DEF R!HandlesName
  <2>1. CASE j = i
    BY <2>1, <1>2, <1>3
  <2>2. CASE j # i
    <3>1. s2'[j] = s2[j] /\ R!Unreaped(j) /\ s3[s2[j].pid].role = Roles[j] /\ s2[j].pid \in Pids
      BY <2>2, <1>2, <1>4, UnreapedHasPid DEF R!SupervisorInv, R!HandlesName
    <3>2. s2[j].pid # p
      BY <3>1 DEF R!FreePid
    <3> QED BY <3>1, <3>2, <1>3
  <2> QED BY <2>1, <2>2
<1>7. R!RolesAreHeld'
  <2> SUFFICES ASSUME NEW q \in Pids, s3'[q].role \notin {"free", "foreign"}
               PROVE  \E j \in R!Positions : R!Unreaped(j)' /\ s2'[j].pid = q
    BY DEF R!RolesAreHeld, R!Signalled
  <2>1. CASE q = p
    BY <2>1, <1>2, <1>5
  <2>2. CASE q # p
    <3>1. PICK j \in R!Positions : R!Unreaped(j) /\ s2[j].pid = q
      BY <2>2, <1>3 DEF R!SupervisorInv, R!RolesAreHeld, R!Signalled
    <3> QED BY <3>1, <1>2, <1>4
  <2> QED BY <2>1, <2>2
<1>8. R!FreeIsBlank' /\ R!ForeignNeverSignalled'
  BY <1>3 DEF R!SupervisorInv, R!FreeIsBlank, R!ForeignNeverSignalled
<1> QED BY <1>2, <1>3, <1>6, <1>7, <1>8

\* Reaping frees the PID of the handle and of no other.
LEMMA ReapKeeps ==
    ASSUME R!SupervisorInv, NEW i \in R!Positions, R!Gone(i), R!Reap(i)
    PROVE  /\ s2' \in [R!Positions -> [pid : Pids, reaped : BOOLEAN] \cup {R!NoChild}]
           /\ s3' \in [Pids -> R!Process]
           /\ R!HandlesName' /\ R!RolesAreHeld' /\ R!FreeIsBlank' /\ R!ForeignNeverSignalled'
           /\ \A j \in R!Positions : j # i => s2'[j] = s2[j]
           /\ s2[i] # R!NoChild /\ s2'[i].reaped
<1> USE SupervisorPositions
<1>1. R!Unreaped(i) /\ s2[i].pid \in Pids /\ s2[i] \in [pid : Pids, reaped : BOOLEAN]
  BY UnreapedHasPid DEF R!Gone
<1>2. s2 \in [R!Positions -> [pid : Pids, reaped : BOOLEAN] \cup {R!NoChild}] /\ s3 \in [Pids -> R!Process]
  BY DEF R!SupervisorInv, R!StateTyped
<1>3. /\ s2' \in [R!Positions -> [pid : Pids, reaped : BOOLEAN] \cup {R!NoChild}]
      /\ \A j \in R!Positions : j # i => s2'[j] = s2[j]
      /\ s2'[i].reaped
  BY <1>1, <1>2 DEF R!Reap
<1>4. /\ s3' \in [Pids -> R!Process]
      /\ \A q \in Pids : q # s2[i].pid => s3'[q] = s3[q]
      /\ s3'[s2[i].pid] = R!FreePid
  BY <1>1, <1>2 DEF R!Reap, R!Process, R!FreePid
<1>5. \A j \in R!Positions : R!Unreaped(j)' <=> R!Unreaped(j) /\ j # i
  BY <1>3 DEF R!Unreaped, R!NoChild
<1>6. R!HandlesName'
  <2> SUFFICES ASSUME NEW j \in R!Positions, R!Unreaped(j)' PROVE s3'[s2'[j].pid].role = Roles[j]
    BY DEF R!HandlesName
  <2>1. j # i /\ R!Unreaped(j) /\ s2'[j] = s2[j] /\ s2[j].pid \in Pids /\ s2[j].pid # s2[i].pid
    BY <1>1, <1>3, <1>5, UnreapedHasPid, HandlesDiffer
  <2> QED BY <2>1, <1>4 DEF R!SupervisorInv, R!HandlesName
<1>7. R!RolesAreHeld'
  <2> SUFFICES ASSUME NEW q \in Pids, s3'[q].role \notin {"free", "foreign"}
               PROVE  \E j \in R!Positions : R!Unreaped(j)' /\ s2'[j].pid = q
    BY DEF R!RolesAreHeld, R!Signalled
  <2>1. q # s2[i].pid /\ s3[q].role \notin {"free", "foreign"}
    BY <1>4 DEF R!FreePid
  <2>2. PICK j \in R!Positions : R!Unreaped(j) /\ s2[j].pid = q
    BY <2>1 DEF R!SupervisorInv, R!RolesAreHeld, R!Signalled
  <2> QED BY <2>1, <2>2, <1>3, <1>5
<1>8. R!FreeIsBlank' /\ R!ForeignNeverSignalled'
  BY <1>4 DEF R!SupervisorInv, R!FreeIsBlank, R!ForeignNeverSignalled, R!FreePid
<1> QED BY <1>1, <1>3, <1>4, <1>6, <1>7, <1>8 DEF R!Unreaped

\* What the bookkeeping of processes asks of a step that leaves the handles alone.
ProcessesKept ==
    /\ s2' = s2
    /\ s3' \in [Pids -> R!Process]
    /\ \A p \in Pids : s3[p].role # "free" => s3'[p].role = s3[p].role
    /\ \A p \in Pids : s3[p].role = "free" => s3'[p] = s3[p] \/ s3'[p].role = "foreign"
    /\ R!ForeignNeverSignalled'

\* A step that only changes processes keeps every handle with its process.
LEMMA KeptKeeps ==
    ASSUME R!SupervisorInv, ProcessesKept
    PROVE  R!HandlesName' /\ R!RolesAreHeld' /\ R!FreeIsBlank'
<1> USE SupervisorPositions
<1>1. \A j \in R!Positions : R!Unreaped(j)' <=> R!Unreaped(j)
  BY DEF ProcessesKept, R!Unreaped
<1>2. R!HandlesName'
  BY <1>1, UnreapedHasPid DEF R!SupervisorInv, R!HandlesName, ProcessesKept
<1>3. R!RolesAreHeld'
  <2> SUFFICES ASSUME NEW q \in Pids, s3'[q].role \notin {"free", "foreign"}
               PROVE  \E j \in R!Positions : R!Unreaped(j)' /\ s2'[j].pid = q
    BY DEF R!RolesAreHeld, R!Signalled
  <2>1. s3[q].role \notin {"free", "foreign"}
    BY DEF ProcessesKept
  <2>2. PICK j \in R!Positions : R!Unreaped(j) /\ s2[j].pid = q
    BY <2>1 DEF R!SupervisorInv, R!RolesAreHeld, R!Signalled
  <2> QED BY <2>2, <1>1 DEF ProcessesKept
<1>4. R!FreeIsBlank'
  BY DEF R!SupervisorInv, R!FreeIsBlank, ProcessesKept
<1> QED BY <1>2, <1>3, <1>4

\* A process that is signalled is a role: its handle says so.
LEMMA SignalledIsRole ==
    ASSUME R!SupervisorInv, NEW p \in R!Signalled
    PROVE  p \in Pids /\ s3[p].role \notin {"free", "foreign"}
<1>1. PICK i \in R!Positions : R!Unreaped(i) /\ s2[i].pid = p
  BY DEF R!Signalled
<1> QED BY <1>1, UnreapedHasPid, SupervisorPositions DEF R!SupervisorInv, R!HandlesName

\* SIGTERM and SIGKILL reach roles only.
LEMMA SignalsKeep ==
    ASSUME R!SupervisorInv, s2' = s2,
           \/ s3' = [p \in Pids |-> IF p \in R!Signalled THEN [s3[p] EXCEPT !.term = TRUE] ELSE s3[p]]
           \/ R!KillAll
    PROVE  ProcessesKept
<1>1. s3 \in [Pids -> R!Process] /\ R!ForeignNeverSignalled
  BY DEF R!SupervisorInv, R!StateTyped
<1>2. s3' \in [Pids -> R!Process]
  <2>1. \A q \in R!Process : [q EXCEPT !.term = TRUE] \in R!Process /\ [q EXCEPT !.kill = TRUE] \in R!Process
    BY DEF R!Process
  <2> QED BY <1>1, <2>1 DEF R!KillAll
<1>3. \A p \in Pids : s3'[p].role = s3[p].role
  BY <1>1 DEF R!KillAll, R!Process
<1>4. \A p \in Pids : p \notin R!Signalled => s3'[p] = s3[p]
  BY <1>1 DEF R!KillAll
<1>5. \A p \in Pids : s3[p].role \in {"free", "foreign"} => s3'[p] = s3[p]
  BY <1>4, SignalledIsRole
<1> QED BY <1>1, <1>2, <1>3, <1>5 DEF ProcessesKept, R!ForeignNeverSignalled

\* Steps of the supervisor other than spawning and reaping keep the handles.
LEMMA QuietKeeps ==
    ASSUME R!SupervisorInv, UNCHANGED <<s2, s3>>
    PROVE  ProcessesKept
  BY DEF R!SupervisorInv, R!StateTyped, ProcessesKept, R!ForeignNeverSignalled

\* The position that follows the last one is never taken.
LEMMA NextTickKeeps ==
    ASSUME R!SupervisorInv, R!NextTick
    PROVE  s1' \in [pc : {"loop", s1.pc}, role : R!Positions]
  BY SupervisorPositions DEF R!SupervisorInv, R!StateTyped, R!NextTick, R!Goto

\* Every step of supervise, terminate_with_grace, a role or the operator keeps
\* the bookkeeping.
LEMMA SupervisorNextInv == R!SupervisorInv /\ [R!SupervisorNext]_R!vars => R!SupervisorInv'
<1> SUFFICES ASSUME R!SupervisorInv, [R!SupervisorNext]_R!vars PROVE R!SupervisorInv'
  OBVIOUS
<1> USE SupervisorPositions
<1>t. R!StateTyped
  BY DEF R!SupervisorInv
<1>k. ASSUME ProcessesKept, s1' \in [pc : {"loop", "tick", "term", "grace", "wait", "exit"}, role : R!Positions]
                            \/ s1' = s1,
             s1'.pc = "exit" => s1.pc = "exit" \/ R!AllReaped, s5' \in [R!Positions -> BOOLEAN]
      PROVE  R!SupervisorInv'
  <2>1. R!StateTyped'
    BY <1>k, <1>t DEF ProcessesKept, R!StateTyped
  <2>2. R!HandlesName' /\ R!RolesAreHeld' /\ R!FreeIsBlank' /\ R!ForeignNeverSignalled'
    BY <1>k, KeptKeeps DEF ProcessesKept
  <2>3. R!NotStarted'
    BY <1>k DEF R!SupervisorInv, R!NotStarted, ProcessesKept
  <2>4. R!AllReaped' <=> R!AllReaped
    BY <1>k DEF R!AllReaped, R!Handles, ProcessesKept
  <2>5. R!EndsReaped'
    BY <1>k, <2>4 DEF R!SupervisorInv, R!EndsReaped
  <2> QED BY <2>1, <2>2, <2>3, <2>5 DEF R!SupervisorInv
<1>1. CASE R!SpawnChildren
  <2>1. s1.pc = "start" /\ s1.role \in R!Positions /\ s5' = s5
    BY <1>1, <1>t DEF R!SpawnChildren, R!StateTyped
  <2>2. CASE ~s5[s1.role]
    BY <1>1, <2>2, <1>k, <1>t, QuietKeeps DEF R!SpawnChildren, R!Goto, R!StateTyped
  <2>3. CASE s5[s1.role]
    <3>1. R!SpawnRole(s1.role) /\ ~R!Unreaped(s1.role)
      BY <1>1, <2>1, <2>3 DEF R!SpawnChildren, R!SupervisorInv, R!NotStarted, R!Unreaped
    <3>2. \/ s1.role = Len(Roles) /\ s1' = [pc |-> "loop", role |-> 1]
          \/ s1.role # Len(Roles) /\ s1' = [s1 EXCEPT !.role = s1.role + 1]
      BY <1>1, <2>3 DEF R!SpawnChildren, R!Goto
    <3>3. R!StateTyped'
      BY <2>1, <3>1, <3>2, <1>t, SpawnKeeps DEF R!StateTyped
    <3>4. R!NotStarted' /\ R!EndsReaped'
      BY <2>1, <3>1, <3>2, <1>t, SpawnKeeps DEF R!NotStarted, R!EndsReaped, R!SupervisorInv, R!StateTyped
    <3> QED BY <2>1, <3>1, <3>3, <3>4, SpawnKeeps DEF R!SupervisorInv
  <2> QED BY <2>2, <2>3
<1>2. CASE R!TakeSignal
  BY <1>2, <1>k, <1>t, QuietKeeps DEF R!TakeSignal, R!Goto, R!StateTyped
<1>3. CASE R!Tick
  BY <1>3, <1>k, <1>t, QuietKeeps DEF R!Tick, R!Goto, R!StateTyped
<1>4. CASE R!CheckRunning
  BY <1>4, <1>k, <1>t, QuietKeeps, NextTickKeeps DEF R!CheckRunning, R!StateTyped
<1>5. CASE R!CheckExited
  <2>1. s1.role \in R!Positions /\ s1' = s1 /\ s5' = s5 /\ s1.pc = "tick" /\ R!Gone(s1.role) /\ R!Reap(s1.role)
    BY <1>5, <1>t DEF R!CheckExited, R!StateTyped
  <2>2. R!StateTyped' /\ R!NotStarted' /\ R!EndsReaped'
    BY <2>1, <1>t, ReapKeeps DEF R!StateTyped, R!NotStarted, R!EndsReaped
  <2> QED BY <2>1, <2>2, ReapKeeps DEF R!SupervisorInv
<1>6. CASE R!Respawn
  <2>1. s1.role \in R!Positions /\ s5' = s5 /\ s1.pc = "tick" /\ R!NextTick
    BY <1>6, <1>t DEF R!Respawn, R!StateTyped
  <2>2. CASE s5[s1.role]
    <3>1. R!SpawnRole(s1.role) /\ ~R!Unreaped(s1.role)
      BY <1>6, <2>1, <2>2 DEF R!Respawn, R!Unreaped
    <3>2. R!StateTyped' /\ R!NotStarted' /\ R!EndsReaped'
      BY <2>1, <3>1, <1>t, SpawnKeeps, NextTickKeeps DEF R!StateTyped, R!NotStarted, R!EndsReaped
    <3> QED BY <2>1, <3>1, <3>2, SpawnKeeps DEF R!SupervisorInv
  <2>3. CASE ~s5[s1.role]
    BY <1>6, <2>1, <2>3, <1>k, <1>t, QuietKeeps, NextTickKeeps DEF R!Respawn, R!StateTyped
  <2> QED BY <2>2, <2>3
<1>7. CASE R!SendTerm
  BY <1>7, <1>k, <1>t, SignalsKeep DEF R!SendTerm, R!Goto, R!StateTyped
<1>8. CASE R!WaitChild
  <2>1. PICK i \in R!Handles : R!Gone(i) /\ R!Reap(i)
    BY <1>8 DEF R!WaitChild
  <2>2. i \in R!Positions /\ s1' = s1 /\ s5' = s5 /\ s1.pc \in {"grace", "wait"}
    BY <1>8 DEF R!WaitChild, R!Handles
  <2>3. R!StateTyped' /\ R!NotStarted' /\ R!EndsReaped'
    BY <2>1, <2>2, <1>t, ReapKeeps DEF R!StateTyped, R!NotStarted, R!EndsReaped
  <2> QED BY <2>1, <2>2, <2>3, ReapKeeps DEF R!SupervisorInv
<1>9. CASE R!GraceExpires
  BY <1>9, <1>k, <1>t, SignalsKeep DEF R!GraceExpires, R!Goto, R!StateTyped
<1>10. CASE R!Finish
  BY <1>10, <1>k, <1>t, QuietKeeps DEF R!Finish, R!Goto, R!StateTyped
<1>11. ASSUME NEW p \in Pids, R!RoleFails(p) \/ R!RoleObeys(p) PROVE R!SupervisorInv'
  <2>1. s3[p].alive /\ R!Dies(p) /\ UNCHANGED <<s1, s2, s5>>
    BY <1>11 DEF R!RoleFails, R!RoleObeys
  <2>2. ProcessesKept
    <3>1. s3 \in [Pids -> R!Process] /\ s3[p].role # "free"
      BY <1>t, <2>1 DEF R!StateTyped, R!SupervisorInv, R!FreeIsBlank, R!FreePid
    <3>2. s3' \in [Pids -> R!Process] /\ \A q \in Pids : /\ q # p => s3'[q] = s3[q]
                                                         /\ s3'[q].role = s3[q].role
                                                         /\ s3'[q].term = s3[q].term
                                                         /\ s3'[q].kill = s3[q].kill
      BY <2>1, <3>1 DEF R!Dies, R!Process
    <3> QED BY <2>1, <3>1, <3>2 DEF ProcessesKept, R!SupervisorInv, R!ForeignNeverSignalled
  <2> QED BY <2>1, <2>2, <1>k, <1>t DEF R!StateTyped
<1>12. ASSUME NEW p \in Pids, R!ForeignStarts(p) PROVE R!SupervisorInv'
  <2>1. ProcessesKept
    <3>1. s3 \in [Pids -> R!Process] /\ s3[p].role = "free" /\ s2' = s2
      BY <1>t, <1>12 DEF R!StateTyped, R!ForeignStarts, R!FreePid
    <3>2. s3' \in [Pids -> R!Process] /\ \A q \in Pids : q # p => s3'[q] = s3[q]
      BY <1>12, <3>1 DEF R!ForeignStarts, R!FreePid, R!Process
    <3>3. s3'[p].role = "foreign" /\ ~s3'[p].term /\ ~s3'[p].kill
      BY <1>12, <3>1 DEF R!ForeignStarts, R!FreePid
    <3> QED BY <3>1, <3>2, <3>3 DEF ProcessesKept, R!SupervisorInv, R!ForeignNeverSignalled
  <2> QED BY <1>12, <2>1, <1>k, <1>t DEF R!StateTyped, R!ForeignStarts
<1>13. CASE R!Stop
  BY <1>13, <1>k, <1>t, QuietKeeps DEF R!Stop, R!StateTyped
<1>14. CASE R!ReplaceBinary
  BY <1>14, <1>k, <1>t, QuietKeeps DEF R!ReplaceBinary, R!StateTyped
<1>15. CASE UNCHANGED R!vars
  BY <1>15, <1>k, <1>t, QuietKeeps DEF R!vars, R!StateTyped
<1> QED BY <1>1, <1>2, <1>3, <1>4, <1>5, <1>6, <1>7, <1>8, <1>9, <1>10, <1>11, <1>12, <1>13, <1>14, <1>15
        DEF R!SupervisorNext, R!SupervisorStep

\* The invariant says what is promised of the supervisor.
LEMMA SupervisorInvImplies ==
    ASSUME R!SupervisorInv
    PROVE  R!SupervisorTypeOK /\ R!OneProcessPerRole /\ R!NoOrphans /\ R!ForeignNeverSignalled
<1> USE SupervisorPositions
<1>1. R!SupervisorTypeOK
  BY DEF R!SupervisorInv, R!StateTyped, R!HandlesName, R!SupervisorTypeOK
<1>2. ASSUME NEW p \in Pids, s3[p].alive, s3[p].role # "foreign"
      PROVE  \E i \in R!Positions : R!Unreaped(i) /\ s2[i].pid = p /\ s3[p].role = Roles[i]
  <2>1. s3[p].role # "free"
    BY <1>2 DEF R!SupervisorInv, R!FreeIsBlank, R!FreePid
  <2>2. PICK i \in R!Positions : R!Unreaped(i) /\ s2[i].pid = p
    BY <1>2, <2>1 DEF R!SupervisorInv, R!RolesAreHeld, R!Signalled
  <2> QED BY <2>2 DEF R!SupervisorInv, R!HandlesName
<1>3. R!OneProcessPerRole
  BY <1>2 DEF R!OneProcessPerRole
<1>4. R!NoOrphans
  BY <1>2 DEF R!NoOrphans, R!SupervisorInv, R!EndsReaped, R!AllReaped, R!Handles, R!Unreaped
<1> QED BY <1>1, <1>3, <1>4 DEF R!SupervisorInv

\* mediaops-home, whatever roles die, binaries vanish and PIDs are reused: a role
\* never runs twice, none is left running at the end, and shutdown signals nobody
\* else (supervise, terminate_with_grace).
THEOREM SupervisorIsSafe ==
    R!Spec => [](R!SupervisorTypeOK /\ R!OneProcessPerRole /\ R!NoOrphans /\ R!ForeignNeverSignalled)
<1>1. R!SupervisorInv =>
        R!SupervisorTypeOK /\ R!OneProcessPerRole /\ R!NoOrphans /\ R!ForeignNeverSignalled
  BY SupervisorInvImplies
<1> QED BY <1>1, SupervisorInitInv, SupervisorNextInv, PTL DEF R!Spec

-----------------------------------------------------------------------------
(* The pool: pool is s1, locked s2, streams s3, call s4, built s5, why s7  *)

\* A set of numbers that is not empty has a least element.
LEMMA Least ==
    ASSUME NEW S \in SUBSET Nat, S # {}
    PROVE  \E x \in S : \A y \in S : x <= y
<1> DEFINE Less == OpToRel(<, Nat)
<1>1. IsWellFoundedOn(Less, Nat)
  BY NatLessThanWellFounded
<1>2. \A x, y \in Nat : y < x => <<y, x>> \in Less
  BY DEF OpToRel
<1> HIDE DEF Less
<1>3. PICK x \in S : \A y \in S : ~ (<<y, x>> \in Less)
  BY <1>1, WFMin
<1>4. ASSUME NEW y \in S PROVE x <= y
  <2>1. ~ (y < x)
    BY <1>2, <1>3
  <2> QED BY <2>1
<1> QED BY <1>4

\* The sets of the component's module are those of this one.
LEMMA PoolSets == \A S : (O!IsFiniteSet(S) <=> IsFiniteSet(S)) /\ O!Cardinality(S) = Cardinality(S)
  BY DEF O!IsFiniteSet, IsFiniteSet, O!Cardinality, Cardinality

\* No stream is open and no pull runs.
LEMMA PoolInitInv == O!PoolInit => O!PoolInv
<1> SUFFICES ASSUME O!PoolInit PROVE O!PoolInv
  OBVIOUS
<1> USE DaemonsAssumption DEF O!PoolAssumption
<1>1. O!StateTyped
  BY FS_EmptySet, PoolSets DEF O!PoolInit, O!StateTyped, O!Call, O!NoCall
<1>2. O!LocksAreStreams /\ O!Admitted /\ O!FreshIsSized /\ O!ExhaustedHasCause
  BY DEF O!PoolInit, O!LocksAreStreams, O!Admitted, O!FreshIsSized, O!ExhaustedHasCause, O!NoCall, O!NoAnswer
<1> QED BY <1>1, <1>2 DEF O!PoolInv

\* try_checkout finds the first free slot of the current pool.
LEMMA CheckoutIsFree ==
    ASSUME O!PoolInv, O!Free # {}
    PROVE  <<s1.gen, O!Min({x[2] : x \in O!Free})>> \in O!Free
<1> DEFINE slotsFree == {x[2] : x \in O!Free}
<1>1. \A x \in O!Free : x = <<s1.gen, x[2]>> /\ x[2] \in Nat
  BY DaemonsAssumption DEF O!Free, O!Channels, O!PoolInv, O!StateTyped, O!PoolAssumption
<1>2. slotsFree \in SUBSET Nat /\ slotsFree # {}
  BY <1>1
<1>3. \E n \in slotsFree : \A k \in slotsFree : n <= k
  <2> HIDE DEF slotsFree
  <2> QED BY <1>2, Least
<1>4. O!Min(slotsFree) \in slotsFree
  <2> HIDE DEF slotsFree
  <2> QED BY <1>3 DEF O!Min
<1> QED BY <1>1, <1>4

\* The streams of a pull that gives up, one for one.
LEMMA AbandonedKeeps ==
    ASSUME O!PoolInv, NEW c \in Callers
    PROVE  /\ O!Abandoned(c) \subseteq O!Stream /\ IsFiniteSet(O!Abandoned(c))
           /\ {s.chan : s \in O!Abandoned(c)} = {s.chan : s \in s3}
           /\ \A s, t \in O!Abandoned(c) : s.chan = t.chan => s = t
<1> DEFINE after(s) == IF s.of = c THEN [s EXCEPT !.of = NoCaller] ELSE s
<1>1. s3 \subseteq O!Stream /\ IsFiniteSet(s3) /\ \A s, t \in s3 : s.chan = t.chan => s = t
  BY PoolSets DEF O!PoolInv, O!StateTyped, O!LocksAreStreams
<1>2. O!Abandoned(c) = {after(s) : s \in s3}
  BY DEF O!Abandoned
<1>3. \A s \in s3 : after(s) \in O!Stream /\ after(s).chan = s.chan
  BY <1>1 DEF O!Stream
<1>4. IsFiniteSet(O!Abandoned(c))
  <2>1. [s \in s3 |-> after(s)] \in Surjection(s3, O!Abandoned(c))
    BY <1>2 DEF Surjection
  <2> QED BY <1>1, <2>1, FS_Surjection
<1> HIDE DEF after
<1> QED BY <1>1, <1>2, <1>3, <1>4

\* A pull that is refused although the pool is as it left it has company: the
\* pool has a channel for each of the streams it may have.
LEMMA RefusedHasCause ==
    ASSUME O!PoolInv, NEW c \in Callers, O!MayRequest(c), O!Free = {}, s4[c].fresh
    PROVE  \E s \in s3 : s.of # c
<1> SUFFICES ASSUME \A s \in s3 : s.of = c PROVE FALSE
  OBVIOUS
<1>1. O!Own(c) = s3
  BY DEF O!Own
<1>2. s1.n \in Nat /\ s1.n = Want[c] /\ Cardinality(s3) < Want[c] /\ IsFiniteSet(s3)
  BY <1>1, PoolSets, DaemonsAssumption
     DEF O!PoolInv, O!StateTyped, O!FreshIsSized, O!MayRequest, O!PoolAssumption
<1>3. \A i \in 1 .. s1.n : \E s \in s3 : s.chan = <<s1.gen, i>>
  BY DEF O!Free, O!Channels, O!PoolInv, O!LocksAreStreams
<1> DEFINE holder == [i \in 1 .. s1.n |-> CHOOSE s \in s3 : s.chan = <<s1.gen, i>>]
<1>4. \A i \in 1 .. s1.n : holder[i] \in s3 /\ holder[i].chan = <<s1.gen, i>>
  BY <1>3
<1>5. holder \in Injection(1 .. s1.n, s3)
  <2>1. holder \in [1 .. s1.n -> s3]
    BY <1>4
  <2> HIDE DEF holder
  <2>2. \A i, j \in 1 .. s1.n : holder[i] = holder[j] => i = j
    BY <1>4
  <2> QED BY <2>1, <2>2 DEF Injection, IsInjective
<1>6. Cardinality(1 .. s1.n) <= Cardinality(s3)
  <2> HIDE DEF holder
  <2> QED BY <1>2, <1>5, FS_Injection
<1>7. Cardinality(1 .. s1.n) = s1.n /\ Cardinality(s3) \in Nat
  <2>1. Cardinality(1 .. s1.n) = IF 1 > s1.n THEN 0 ELSE s1.n - 1 + 1
    BY <1>2, FS_Interval
  <2> QED BY <1>2, <2>1, FS_CardinalityType
<1> QED BY <1>2, <1>6, <1>7

\* What a step must do to streams and locks.
StreamsKept ==
    /\ s3' \subseteq O!Stream /\ IsFiniteSet(s3')
    /\ s2' = {s.chan : s \in s3'}
    /\ \A s, t \in s3' : s.chan = t.chan => s = t

\* What a step must do to the pool and the calls.
CallsKept ==
    /\ s1' \in [gen : 0 .. MaxGen, n : 1 .. PoolCap] /\ s5' \in 0 .. MaxGen
    /\ s4' \in [Callers -> O!Call]
    /\ \A c \in Callers : s4'[c].pc # "idle" => O!Accepts(Want[c])
    /\ \A c \in Callers : s4'[c].pc = "ranges" /\ s4'[c].fresh => s1'.n = Want[c]

\* Together they are the invariant, with the answers that were given.
LEMMA KeptIsInv ==
    ASSUME StreamsKept, CallsKept, O!ExhaustedHasCause' PROVE O!PoolInv'
  BY PoolSets
     DEF StreamsKept, CallsKept, O!PoolInv, O!StateTyped, O!LocksAreStreams, O!Admitted, O!FreshIsSized, O!Accepts

\* What the steps that leave a part alone keep of it.
LEMMA PoolQuiet ==
    ASSUME O!PoolInv
    PROVE  /\ UNCHANGED <<s2, s3>> => StreamsKept
           /\ UNCHANGED <<s1, s4, s5>> => CallsKept
           /\ UNCHANGED s7 => O!ExhaustedHasCause'
<1>1. UNCHANGED <<s2, s3>> => StreamsKept
  BY PoolSets DEF StreamsKept, O!PoolInv, O!StateTyped, O!LocksAreStreams
<1>2. UNCHANGED <<s1, s4, s5>> => CallsKept
  BY DEF CallsKept, O!PoolInv, O!StateTyped, O!Admitted, O!FreshIsSized
<1>3. UNCHANGED s7 => O!ExhaustedHasCause'
  BY DEF O!PoolInv, O!ExhaustedHasCause, O!NoAnswer
<1> QED BY <1>1, <1>2, <1>3

\* A pull that ends makes room in the calls and nothing else.
LEMMA CallEnds ==
    ASSUME O!PoolInv, NEW c \in Callers, s4' = [s4 EXCEPT ![c] = O!NoCall], UNCHANGED <<s1, s5>>
    PROVE  CallsKept
<1>1. O!NoCall \in O!Call
  BY DEF O!NoCall, O!Call
<1>2. s4' \in [Callers -> O!Call] /\ \A d \in Callers : d # c => s4'[d] = s4[d]
  BY <1>1 DEF O!PoolInv, O!StateTyped
<1>3. s4'[c] = O!NoCall
  BY DEF O!PoolInv, O!StateTyped
<1> QED BY <1>2, <1>3 DEF CallsKept, O!PoolInv, O!StateTyped, O!Admitted, O!FreshIsSized, O!NoCall

\* Every step of the gateway, of a pull, or of a stream keeps the invariant.
LEMMA PoolNextInv == O!PoolInv /\ [O!PoolNext]_O!vars => O!PoolInv'
<1> SUFFICES ASSUME O!PoolInv, [O!PoolNext]_O!vars PROVE O!PoolInv'
  OBVIOUS
<1> USE DaemonsAssumption DEF O!PoolAssumption
<1>t. O!StateTyped /\ O!LocksAreStreams /\ O!Admitted /\ O!FreshIsSized
  BY DEF O!PoolInv
<1>1. ASSUME NEW c \in Callers, O!Configure(c) PROVE O!PoolInv'
  <2> DEFINE new == [O!NoCall EXCEPT !.pc = IF s1.n = Want[c] THEN "ranges" ELSE "connect"]
  <2>1. s4' = [s4 EXCEPT ![c] = new] /\ O!Accepts(Want[c]) /\ UNCHANGED <<s1, s2, s3, s5, s7>>
    BY <1>1 DEF O!Configure
  <2>2. new \in O!Call /\ (new.pc = "ranges" => s1.n = Want[c])
    BY DEF O!Call, O!NoCall
  <2> HIDE DEF new
  <2>3. s4' \in [Callers -> O!Call] /\ s4'[c] = new /\ \A d \in Callers : d # c => s4'[d] = s4[d]
    BY <2>1, <2>2, <1>t DEF O!StateTyped
  <2>4. CallsKept
    BY <2>1, <2>2, <2>3, <1>t DEF CallsKept, O!StateTyped, O!Admitted, O!FreshIsSized
  <2> QED BY <2>1, <2>4, PoolQuiet, KeptIsInv
<1>2. ASSUME NEW c \in Callers, O!SwapPool(c) PROVE O!PoolInv'
  <2>1. /\ s4[c].pc = "connect" /\ s5 < MaxGen /\ s5' = s5 + 1 /\ s1' = [gen |-> s5', n |-> Want[c]]
        /\ s4' = [d \in Callers |-> IF d = c THEN [s4[c] EXCEPT !.pc = "ranges"]
                                            ELSE [s4[d] EXCEPT !.fresh = FALSE]]
        /\ UNCHANGED <<s2, s3, s7>>
    BY <1>2 DEF O!SwapPool
  <2>2. Want[c] \in 1 .. PoolCap
    BY <2>1, <1>t DEF O!Admitted, O!Accepts
  <2>3. \A d \in Callers : s4[d] \in O!Call
    BY <1>t DEF O!StateTyped
  <2>4. \A d \in Callers : /\ s4'[d] \in O!Call
                           /\ d # c => ~s4'[d].fresh /\ s4'[d].pc = s4[d].pc
    BY <2>1, <2>3 DEF O!Call
  <2>5. s4' \in [Callers -> O!Call]
    BY <2>1, <2>4
  <2>6. CallsKept
    BY <2>1, <2>2, <2>4, <2>5, <1>t DEF CallsKept, O!StateTyped, O!Admitted
  <2> QED BY <2>1, <2>6, PoolQuiet, KeptIsInv
<1>3. ASSUME NEW c \in Callers, O!ConnectFails(c) \/ O!PullDone(c) PROVE O!PoolInv'
  <2>1. s4' = [s4 EXCEPT ![c] = O!NoCall] /\ UNCHANGED <<s1, s2, s3, s5, s7>>
    BY <1>3 DEF O!ConnectFails, O!PullDone
  <2> QED BY <2>1, CallEnds, PoolQuiet, KeptIsInv
<1>4. ASSUME NEW c \in Callers, O!GetRange(c) PROVE O!PoolInv'
  <2> DEFINE chan == <<s1.gen, O!Min({x[2] : x \in O!Free})>>
  <2>1. s2' = s2 \cup {chan} /\ s3' = s3 \cup {[of |-> c, chan |-> chan]} /\ UNCHANGED <<s1, s4, s5, s7>>
    BY <1>4 DEF O!GetRange
  <2>2. chan \in O!Free
    BY <1>4, CheckoutIsFree DEF O!GetRange
  <2> HIDE DEF chan
  <2>3. chan \notin s2 /\ chan \in (0 .. MaxGen) \X (1 .. PoolCap)
    BY <2>2, <1>t DEF O!Free, O!Channels, O!StateTyped
  <2>4. [of |-> c, chan |-> chan] \in O!Stream /\ \A s \in s3 : s.chan # chan
    BY <2>3, <1>t DEF O!Stream, O!LocksAreStreams
  <2>5. IsFiniteSet(s3')
    BY <2>1, <1>t, PoolSets, FS_AddElement DEF O!StateTyped
  <2>6. StreamsKept
    BY <2>1, <2>4, <2>5, <1>t DEF StreamsKept, O!StateTyped, O!LocksAreStreams
  <2> QED BY <2>1, <2>6, PoolQuiet, KeptIsInv
<1>5. ASSUME NEW c \in Callers, O!Exhausted(c) \/ O!RangeFails(c) PROVE O!PoolInv'
  <2>1. s4' = [s4 EXCEPT ![c] = O!NoCall] /\ s3' = O!Abandoned(c) /\ UNCHANGED <<s1, s2, s5>>
    BY <1>5 DEF O!Exhausted, O!RangeFails
  <2>2. StreamsKept
    BY <2>1, <1>t, AbandonedKeeps DEF StreamsKept, O!LocksAreStreams
  <2>3. O!ExhaustedHasCause'
    <3>1. CASE O!RangeFails(c)
      BY <3>1, PoolQuiet DEF O!RangeFails
    <3>2. CASE O!Exhausted(c)
      <4>1. O!MayRequest(c) /\ O!Free = {} /\ O!Cardinality(O!Own(c)) < Want[c]
        BY <3>2 DEF O!Exhausted, O!MayRequest
      <4>2. ~s4[c].fresh \/ \E s \in s3 : s.of # c
        BY <4>1, RefusedHasCause
      <4> QED BY <3>2, <4>1, <4>2 DEF O!Exhausted, O!ExhaustedHasCause
    <3> QED BY <1>5, <3>1, <3>2
  <2> QED BY <2>1, <2>2, <2>3, CallEnds, KeptIsInv
<1>6. ASSUME NEW c \in Callers, O!RangeDone(c) PROVE O!PoolInv'
  <2>1. PICK s \in O!Own(c) : s3' = (s3 \ {s}) \cup {[s EXCEPT !.of = NoCaller]}
    BY <1>6 DEF O!RangeDone
  <2>2. s4' = [s4 EXCEPT ![c].done = @ + 1] /\ UNCHANGED <<s1, s2, s5, s7>>
    BY <1>6 DEF O!RangeDone
  <2>3. s \in s3 /\ s \in O!Stream
    BY <2>1, <1>t DEF O!Own, O!StateTyped
  <2>4. [s EXCEPT !.of = NoCaller] \in O!Stream /\ [s EXCEPT !.of = NoCaller].chan = s.chan
    BY <2>3 DEF O!Stream
  <2>5. IsFiniteSet(s3')
    BY <2>1, <1>t, PoolSets, FS_AddElement, FS_RemoveElement DEF O!StateTyped
  <2>6. StreamsKept
    <3> DEFINE after == [s EXCEPT !.of = NoCaller]
    <3>1. after \in O!Stream /\ after.chan = s.chan /\ s3' = (s3 \ {s}) \cup {after}
      BY <2>1, <2>4
    <3> HIDE DEF after
    <3>2. \A u \in s3 : u = s \/ u.chan # s.chan
      BY <2>3, <1>t DEF O!LocksAreStreams
    <3>3. s2' = {u.chan : u \in s3'}
      BY <2>2, <2>3, <3>1, <1>t DEF O!LocksAreStreams
    <3>4. \A u, v \in s3' : u.chan = v.chan => u = v
      BY <3>1, <3>2, <1>t DEF O!LocksAreStreams
    <3> QED BY <2>5, <3>1, <3>3, <3>4, <1>t DEF StreamsKept, O!StateTyped
  <2>7. s4' \in [Callers -> O!Call] /\ \A d \in Callers : s4'[d].pc = s4[d].pc /\ s4'[d].fresh = s4[d].fresh
    BY <2>2, <1>t DEF O!StateTyped, O!Call
  <2>8. CallsKept
    BY <2>2, <2>7, <1>t DEF CallsKept, O!StateTyped, O!Admitted, O!FreshIsSized
  <2> QED BY <2>2, <2>6, <2>8, PoolQuiet, KeptIsInv
<1>7. CASE O!DropStream
  <2>1. PICK s \in s3 : s.of = NoCaller /\ s3' = s3 \ {s} /\ s2' = s2 \ {s.chan}
    BY <1>7 DEF O!DropStream
  <2>2. IsFiniteSet(s3')
    BY <2>1, <1>t, PoolSets, FS_RemoveElement DEF O!StateTyped
  <2>3. StreamsKept
    BY <2>1, <2>2, <1>t DEF StreamsKept, O!StateTyped, O!LocksAreStreams
  <2> QED BY <1>7, <2>3, PoolQuiet, KeptIsInv DEF O!DropStream
<1>8. ASSUME NEW c \in Callers, O!ControlCall(c) PROVE O!PoolInv'
  BY <1>8, PoolQuiet, KeptIsInv DEF O!ControlCall
<1>9. CASE O!ControlAnswer
  BY <1>9, PoolQuiet, KeptIsInv DEF O!ControlAnswer
<1>10. CASE UNCHANGED O!vars
  BY <1>10, PoolQuiet, KeptIsInv DEF O!vars
<1> QED BY <1>1, <1>2, <1>3, <1>4, <1>5, <1>6, <1>7, <1>8, <1>9, <1>10 DEF O!PoolNext

\* The invariant says what is promised of the pool.
LEMMA PoolInvImplies ==
    ASSUME O!PoolInv PROVE O!PoolTypeOK /\ O!OneStreamPerChannel /\ O!ExhaustedHasCause
<1>1. O!PoolTypeOK
  BY DEF O!PoolInv, O!StateTyped, O!LocksAreStreams, O!PoolTypeOK, O!Stream
<1>2. ASSUME NEW chan \in s2 PROVE O!Cardinality({s \in s3 : s.chan = chan}) = 1
  <2>1. PICK t \in s3 : t.chan = chan
    BY DEF O!PoolInv, O!LocksAreStreams
  <2>2. {s \in s3 : s.chan = chan} = {t}
    BY <2>1 DEF O!PoolInv, O!LocksAreStreams
  <2> QED BY <2>2, PoolSets, FS_Singleton
<1> QED BY <1>1, <1>2 DEF O!OneStreamPerChannel, O!PoolInv

\* A serving gateway, however pulls of different concurrency replace its pool: one
\* stream per channel, and Exhausted is never owed to the pull itself (get_range,
\* configure).
THEOREM PoolIsSafe == O!Spec => [](O!PoolTypeOK /\ O!OneStreamPerChannel /\ O!ExhaustedHasCause)
<1>1. O!PoolInv => O!PoolTypeOK /\ O!OneStreamPerChannel /\ O!ExhaustedHasCause
  BY PoolInvImplies
<1> QED BY <1>1, PoolInitInv, PoolNextInv, PTL DEF O!Spec

-----------------------------------------------------------------------------
(* The gateway: disk is s1, minting s2, secret s3, sock s6, gw s7          *)

\* The sets and sequences of the component's module are those of this one.
LEMMA GatewaySets ==
    /\ \A S : (G!IsFiniteSet(S) <=> IsFiniteSet(S)) /\ G!Cardinality(S) = Cardinality(S)
    /\ IsFiniteSet(Gateways) /\ Cardinality(Gateways) \in Nat /\ MaxVer \in Nat \ {0}
    /\ NoSecret \notin G!Specs /\ NoSocket \notin G!Entries
<1>1. \A S : (G!IsFiniteSet(S) <=> IsFiniteSet(S)) /\ G!Cardinality(S) = Cardinality(S)
  BY DEF G!IsFiniteSet, IsFiniteSet, G!Cardinality, Cardinality
<1> QED BY <1>1, DaemonsAssumption, FS_CardinalityType DEF G!GatewayAssumption

\* The five files of a bundle.
LEMMA FilesOfBundle ==
    /\ G!Files = {"ca.pem", "server.pem", "server.key", "client.pem", "client.key"}
    /\ Len(G!FileOrder) = 5
    /\ \A i \in 1 .. 5 : G!FileOrder[i] \in G!Files
<1>1. Len(G!FileOrder) = 5 /\ DOMAIN G!FileOrder = 1 .. 5
  BY DEF G!FileOrder
<1>2. /\ G!FileOrder[1] = "ca.pem" /\ G!FileOrder[2] = "server.pem" /\ G!FileOrder[3] = "server.key"
      /\ G!FileOrder[4] = "client.pem" /\ G!FileOrder[5] = "client.key"
  BY DEF G!FileOrder
<1>3. G!Files = {G!FileOrder[i] : i \in 1 .. 5}
  BY <1>1 DEF G!Files, G!ToSet
<1>4. \A i \in 1 .. 5 : i = 1 \/ i = 2 \/ i = 3 \/ i = 4 \/ i = 5
  OBVIOUS
<1>5. G!Files = {"ca.pem", "server.pem", "server.key", "client.pem", "client.key"}
  BY <1>2, <1>3, <1>4
<1> QED BY <1>1, <1>3, <1>5

\* There are more numbers than listeners: a new entry finds one that nobody holds.
LEMMA InodeIsFree ==
    ASSUME G!StateTyped PROVE G!FreeInode \in G!Inodes
<1> USE GatewaySets
<1> DEFINE taken == {s7[p].listens : p \in Gateways}
           free == {i \in G!Inodes : i \notin taken}
<1>1. G!Inodes = 1 .. Cardinality(Gateways) + 1
  BY DEF G!Inodes
<1>2. IsFiniteSet(taken) /\ Cardinality(taken) <= Cardinality(Gateways)
  <2>1. [p \in Gateways |-> s7[p].listens] \in Surjection(Gateways, taken)
    BY DEF Surjection
  <2> HIDE DEF taken
  <2> QED BY <2>1, FS_Surjection
<1>3. IsFiniteSet(G!Inodes) /\ Cardinality(G!Inodes) = Cardinality(Gateways) + 1
  BY <1>1, FS_Interval
<1>4. free # {}
  <2> SUFFICES ASSUME G!Inodes \subseteq taken PROVE FALSE
    OBVIOUS
  <2> HIDE DEF taken
  <2> QED BY <1>2, <1>3, FS_Subset, FS_CardinalityType
<1>5. free \in SUBSET Nat
  BY <1>1
<1>6. PICK i \in free : \A j \in free : i <= j
  <2> HIDE DEF free
  <2> QED BY <1>4, <1>5, Least
<1>7. \A j \in 1 .. i - 1 : j \in taken
  BY <1>1, <1>6
<1>8. i \in G!Inodes /\ i \notin taken /\ \A j \in 1 .. i - 1 : j \in taken
  BY <1>6, <1>7
<1> QED BY <1>8 DEF G!FreeInode

\* Nobody runs, the bundle on the disk is the first one.
LEMMA GatewayInitInv == G!GatewayInit => G!GatewayInv
<1> SUFFICES ASSUME G!GatewayInit PROVE G!GatewayInv
  OBVIOUS
<1> USE GatewaySets, FilesOfBundle
<1>1. G!Off \in G!Process /\ G!Sound(G!Off)
  BY DEF G!Off, G!Process, G!Sound, G!Early, G!Checked, G!Offering, G!NoBundle
<1>2. [ver |-> 1, pins |-> TRUE, address |-> TRUE] \in G!Specs
  BY DEF G!Specs
<1>3. s1 \in [G!Files -> 0 .. MaxVer] /\ s2 \in [ver : 1 .. MaxVer, next : 1 .. Len(G!FileOrder) + 1]
  BY DEF G!GatewayInit
<1>4. G!StateTyped
  BY <1>1, <1>2, <1>3 DEF G!GatewayInit, G!StateTyped
<1> QED BY <1>1, <1>4 DEF G!GatewayInit, G!GatewayInv

\* What a step must do to the processes.
GatewaysKept == s7' \in [Gateways -> G!Process] /\ \A p \in Gateways : G!Sound(s7'[p])

\* A step of one process is judged by the state it leaves that process in.
LEMMA OneGateway ==
    ASSUME G!GatewayInv, NEW p \in Gateways, NEW g \in G!Process, G!Sound(g), s7' = [s7 EXCEPT ![p] = g]
    PROVE  GatewaysKept
<1>1. s7 \in [Gateways -> G!Process] /\ \A q \in Gateways : G!Sound(s7[q])
  BY DEF G!GatewayInv, G!StateTyped
<1>2. s7' \in [Gateways -> G!Process] /\ s7'[p] = g /\ \A q \in Gateways : q # p => s7'[q] = s7[q]
  BY <1>1
<1> QED BY <1>1, <1>2 DEF GatewaysKept

\* An error or a crash puts the process back to where it began.
LEMMA ExitKeeps ==
    ASSUME G!GatewayInv, NEW p \in Gateways, G!Exit(p) PROVE GatewaysKept
<1>1. G!Off \in G!Process /\ G!Sound(G!Off)
  BY GatewaySets, FilesOfBundle DEF G!Off, G!Process, G!Sound, G!Early, G!Checked, G!Offering, G!NoBundle
<1> QED BY <1>1, OneGateway DEF G!Exit

\* A step that only goes on needs the new place to be sound.
LEMMA GotoKeeps ==
    ASSUME G!GatewayInv, NEW p \in Gateways, NEW pc \in G!Early \cup {"load"} \cup G!Checked, G!Goto(p, pc),
           G!Sound([s7[p] EXCEPT !.pc = pc])
    PROVE  GatewaysKept
<1>1. s7 \in [Gateways -> G!Process]
  BY DEF G!GatewayInv, G!StateTyped
<1>2. [s7[p] EXCEPT !.pc = pc] \in G!Process
  BY <1>1 DEF G!Process
<1>3. s7' = [s7 EXCEPT ![p] = [s7[p] EXCEPT !.pc = pc]]
  BY <1>1 DEF G!Goto
<1> QED BY <1>2, <1>3, OneGateway

\* The places a checked process goes on to are as good as the one it comes from.
LEMMA CheckedGoesOn ==
    ASSUME G!GatewayInv, NEW p \in Gateways, NEW pc \in G!Checked, G!Goto(p, pc), s7[p].pc \in G!Checked,
           pc \in G!Offering <=> s7[p].pc \in G!Offering
    PROVE  GatewaysKept
<1>1. s7[p] \in G!Process /\ G!Sound(s7[p])
  BY DEF G!GatewayInv, G!StateTyped
<1>2. G!Sound([s7[p] EXCEPT !.pc = pc])
  BY <1>1 DEF G!Sound, G!Process, G!Checked, G!Early, G!Offering
<1> QED BY <1>2, GotoKeeps

\* The watch of a serving process says nothing of its identity.
LEMMA WatchKeeps ==
    ASSUME G!GatewayInv, NEW g \in G!Process, G!Sound(g), NEW w \in {"none", "event", "open", "ended"}
    PROVE  [g EXCEPT !.watch = w] \in G!Process /\ G!Sound([g EXCEPT !.watch = w])
  BY DEF G!Process, G!Sound

\* Every step of a gateway keeps what its identity was checked for.
LEMMA GatewayStepKeeps ==
    ASSUME G!GatewayInv, NEW p \in Gateways, G!GatewayStep(p)
    PROVE  GatewaysKept /\ s6' \in G!Entries \cup {NoSocket} /\ UNCHANGED <<s1, s2, s3>>
<1> USE GatewaySets, FilesOfBundle
<1> DEFINE g == s7[p]
<1>t. G!StateTyped /\ g \in G!Process /\ G!Sound(g) /\ s7 \in [Gateways -> G!Process]
  BY DEF G!GatewayInv, G!StateTyped
<1>1. s6' = s6 \/ G!RemovePath(p) \/ G!BindPath(p)
  BY DEF G!GatewayStep, G!Spawn, G!WaitApi, G!WaitSecret, G!ReadFile, G!CheckIdentity, G!InspectPath, G!ProbePath,
         G!RecheckPath, G!ConnectBox, G!OpenWatch, G!ReadSecret, G!WatchEnded
<1>2. s6' \in G!Entries \cup {NoSocket}
  <2>1. CASE G!RemovePath(p)
    BY <2>1, <1>t DEF G!RemovePath, G!StateTyped
  <2>2. CASE G!BindPath(p)
    BY <2>2, <1>t, InodeIsFree DEF G!BindPath, G!StateTyped, G!Entries
  <2> QED BY <1>1, <1>t, <2>1, <2>2 DEF G!StateTyped
<1>3. UNCHANGED <<s1, s2, s3>>
  BY DEF G!GatewayStep, G!Spawn, G!WaitApi, G!WaitSecret, G!ReadFile, G!CheckIdentity, G!InspectPath, G!ProbePath,
         G!RecheckPath, G!RemovePath, G!BindPath, G!ConnectBox, G!OpenWatch, G!ReadSecret, G!WatchEnded, G!Frame
<1>4. GatewaysKept
  <2> USE DEF G!At
  <2>0. CASE G!Exit(p)
    BY <2>0, ExitKeeps
  <2>1. CASE G!Spawn(p)
    <3>1. g.pc = "off" /\ G!Goto(p, "wait_api")
      BY <2>1 DEF G!Spawn
    <3>2. G!Sound([g EXCEPT !.pc = "wait_api"])
      BY <3>1, <1>t DEF G!Sound, G!Process, G!Early, G!Checked, G!Offering
    <3> QED BY <3>1, <3>2, GotoKeeps DEF G!Early
  <2>2. CASE G!WaitApi(p)
    <3>1. g.pc = "wait_api" /\ (G!Goto(p, "wait_secret") \/ G!Exit(p))
      BY <2>2 DEF G!WaitApi
    <3>2. G!Sound([g EXCEPT !.pc = "wait_secret"])
      BY <3>1, <1>t DEF G!Sound, G!Process, G!Early, G!Checked, G!Offering
    <3> QED BY <3>1, <3>2, <2>0, GotoKeeps DEF G!Early
  <2>3. CASE G!WaitSecret(p)
    <3> DEFINE new == [g EXCEPT !.pc = "load", !.spec = s3, !.read = 1]
    <3>1. CASE ~G!Exit(p)
      <4>1. g.pc = "wait_secret" /\ s3 # NoSecret /\ s7' = [s7 EXCEPT ![p] = new]
        BY <2>3, <3>1, <1>t DEF G!WaitSecret
      <4>2. s3 \in G!Specs
        BY <4>1, <1>t DEF G!StateTyped
      <4>3. 1 \in 0 .. Len(G!FileOrder) + 1 /\ "load" \in G!Early \cup {"load"} \cup G!Checked
        OBVIOUS
      <4>4. new \in G!Process
        BY <4>2, <4>3, <1>t DEF G!Process
      <4>5. G!Sound(new)
        BY <4>1, <4>2, <1>t DEF G!Sound, G!Process, G!Early, G!Checked, G!Offering
      <4> HIDE DEF new
      <4> QED BY <4>1, <4>4, <4>5, OneGateway
    <3> QED BY <3>1, <2>0
  <2>4. CASE G!ReadFile(p)
    <3> DEFINE f == G!FileOrder[g.read]
               new == [g EXCEPT !.bundle = [g.bundle EXCEPT ![f] = s1[f]], !.read = g.read + 1]
    <3>1. CASE ~G!Exit(p)
      <4>1. g.pc = "load" /\ g.read <= 5 /\ s7' = [s7 EXCEPT ![p] = new]
        BY <2>4, <3>1, <1>t DEF G!ReadFile
      <4>2. g.read \in 1 .. 5 /\ g.spec \in G!Specs
        BY <4>1, <1>t DEF G!Sound, G!Process, G!Early
      <4>3. f \in G!Files /\ s1[f] \in 0 .. MaxVer
        BY <4>2, <1>t DEF G!StateTyped
      <4> HIDE DEF f
      <4>4. [g.bundle EXCEPT ![f] = s1[f]] \in [G!Files -> 0 .. MaxVer]
        BY <4>3, <1>t DEF G!Process
      <4>5. new \in G!Process
        <5>1. g.read + 1 \in 0 .. Len(G!FileOrder) + 1
          BY <4>2
        <5> QED BY <4>4, <5>1, <1>t DEF G!Process
      <4>6. G!Sound(new)
        BY <4>1, <4>2, <1>t DEF G!Sound, G!Process, G!Early, G!Checked, G!Offering
      <4> HIDE DEF new
      <4> QED BY <4>1, <4>5, <4>6, OneGateway
    <3> QED BY <3>1, <2>0
  <2>5. CASE G!CheckIdentity(p)
    <3>1. CASE ~G!Exit(p)
      <4>1. /\ g.pc = "load" /\ G!Goto(p, "inspect")
            /\ G!PinsMatch(g.spec, g.bundle) /\ G!ConfigsBuild(g.bundle)
        BY <2>5, <3>1 DEF G!CheckIdentity
      <4>2. G!Sound([g EXCEPT !.pc = "inspect"])
        BY <4>1, <1>t DEF G!Sound, G!Process, G!Early, G!Checked, G!Offering
      <4> QED BY <4>1, <4>2, GotoKeeps DEF G!Checked
    <3> QED BY <3>1, <2>0
  <2>6. CASE G!InspectPath(p)
    <3>1. g.pc = "inspect"
      BY <2>6 DEF G!InspectPath
    <3>2. CASE G!Goto(p, "bind")
      BY <3>1, <3>2, CheckedGoesOn DEF G!Checked, G!Offering
    <3>3. CASE ~G!Exit(p) /\ ~G!Goto(p, "bind")
      <4> DEFINE new == [g EXCEPT !.pc = "probe", !.seen = s6.ino]
      <4>1. s6 # NoSocket /\ s7' = [s7 EXCEPT ![p] = new]
        BY <2>6, <3>3, <1>t DEF G!InspectPath
      <4>2. s6.ino \in G!Inodes
        BY <4>1, <1>t DEF G!StateTyped, G!Entries
      <4>3. new \in G!Process /\ G!Sound(new)
        BY <3>1, <4>2, <1>t DEF G!Sound, G!Process, G!Early, G!Checked, G!Offering
      <4> HIDE DEF new
      <4> QED BY <4>1, <4>3, OneGateway
    <3> QED BY <3>2, <3>3, <2>0
  <2>7. CASE G!ProbePath(p) \/ G!RecheckPath(p) \/ G!RemovePath(p)
    <3>1. /\ g.pc \in {"probe", "recheck", "remove"}
          /\ G!Goto(p, "recheck") \/ G!Goto(p, "remove") \/ G!Goto(p, "bind") \/ G!Exit(p)
      BY <2>7 DEF G!ProbePath, G!RecheckPath, G!RemovePath
    <3> QED BY <3>1, <2>0, CheckedGoesOn DEF G!Checked, G!Offering
  <2>8. CASE G!BindPath(p)
    <3> DEFINE ino == G!FreeInode
               new == [g EXCEPT !.pc = "connect", !.listens = ino]
    <3>1. CASE ~G!Exit(p)
      <4>1. g.pc = "bind" /\ s7' = [s7 EXCEPT ![p] = new]
        BY <2>8, <3>1, <1>t DEF G!BindPath
      <4>2. ino \in G!Inodes /\ ino # 0
        BY <1>t, InodeIsFree DEF G!Inodes
      <4> HIDE DEF ino
      <4>3. new \in G!Process /\ G!Sound(new)
        BY <4>1, <4>2, <1>t DEF G!Sound, G!Process, G!Early, G!Checked, G!Offering
      <4> HIDE DEF new
      <4> QED BY <4>1, <4>3, OneGateway
    <3> QED BY <3>1, <2>0
  <2>9. CASE G!ConnectBox(p)
    <3>1. g.pc = "connect" /\ (G!Goto(p, "serve") \/ G!Exit(p))
      BY <2>9 DEF G!ConnectBox
    <3> QED BY <3>1, <2>0, CheckedGoesOn DEF G!Checked, G!Offering
  <2>10. CASE G!OpenWatch(p) \/ G!ReadSecret(p)
    <3>1. CASE ~G!Exit(p)
      <4>1. \E w \in {"event", "open"} : s7' = [s7 EXCEPT ![p] = [g EXCEPT !.watch = w]]
        BY <2>10, <3>1, <1>t DEF G!OpenWatch, G!ReadSecret
      <4> QED BY <4>1, <1>t, WatchKeeps, OneGateway
    <3> QED BY <3>1, <2>0
  <2>11. CASE G!WatchEnded(p)
    BY <2>11, <2>0 DEF G!WatchEnded
  <2> QED BY <2>1, <2>2, <2>3, <2>4, <2>5, <2>6, <2>7, <2>8, <2>9, <2>10, <2>11 DEF G!GatewayStep
<1> QED BY <1>2, <1>3, <1>4

\* What happens around the gateways tells or kills them, no more.
LEMMA EnvironmentKeeps ==
    ASSUME G!GatewayInv, G!Environment PROVE G!GatewayInv'
<1> USE GatewaySets, FilesOfBundle
<1>t. G!StateTyped /\ s7 \in [Gateways -> G!Process] /\ \A p \in Gateways : G!Sound(s7[p])
  BY DEF G!GatewayInv, G!StateTyped
<1>k. ASSUME GatewaysKept, s1' \in [G!Files -> 0 .. MaxVer],
             s2' \in [ver : 1 .. MaxVer, next : 1 .. Len(G!FileOrder) + 1],
             s3' \in G!Specs \cup {NoSecret}, s6' \in G!Entries \cup {NoSocket}
      PROVE  G!GatewayInv'
  BY <1>k DEF GatewaysKept, G!GatewayInv, G!StateTyped
<1>q. s7' = s7 => GatewaysKept
  BY <1>t DEF GatewaysKept
<1>1. ASSUME NEW p \in Gateways, G!Crash(p) PROVE G!GatewayInv'
  BY <1>1, <1>k, <1>t, ExitKeeps DEF G!Crash, G!StateTyped
<1>2. CASE G!Mint
  BY <1>2, <1>k, <1>q, <1>t DEF G!Mint, G!StateTyped
<1>3. CASE G!WriteFile
  <2>1. s2.next \in 1 .. 5 /\ s2.ver \in 0 .. MaxVer /\ G!FileOrder[s2.next] \in G!Files
    BY <1>3, <1>t DEF G!WriteFile, G!StateTyped
  <2>2. s1' \in [G!Files -> 0 .. MaxVer]
    BY <1>3, <2>1, <1>t DEF G!WriteFile, G!StateTyped
  <2>3. s2' \in [ver : 1 .. MaxVer, next : 1 .. Len(G!FileOrder) + 1]
    BY <1>3, <2>1, <1>t DEF G!WriteFile, G!StateTyped
  <2> QED BY <1>3, <2>2, <2>3, <1>k, <1>q, <1>t DEF G!WriteFile, G!StateTyped
<1>4. ASSUME NEW w \in {"event", "ended"}, NEW procs \in SUBSET Gateways,
             s7' = [p \in Gateways |-> IF p \in procs THEN [s7[p] EXCEPT !.watch = w] ELSE s7[p]]
      PROVE  GatewaysKept
  BY <1>4, <1>t, WatchKeeps DEF GatewaysKept
<1>5. CASE G!ApplySecret
  <2> DEFINE procs == {p \in Gateways : s7[p].watch = "open"}
  <2>1. s7' = [p \in Gateways |-> IF p \in procs THEN [s7[p] EXCEPT !.watch = "event"] ELSE s7[p]]
    BY <1>5 DEF G!ApplySecret, G!Notify
  <2>2. procs \in SUBSET Gateways
    OBVIOUS
  <2> HIDE DEF procs
  <2>3. GatewaysKept
    BY <2>1, <2>2, <1>4
  <2> QED BY <1>5, <2>3, <1>k, <1>t DEF G!ApplySecret, G!StateTyped
<1>6. CASE G!DeployBox
  BY <1>6, <1>k, <1>q, <1>t DEF G!DeployBox, G!StateTyped
<1>7. CASE G!FlipApi
  <2> DEFINE procs == {p \in Gateways : s4 /\ s7[p].watch \in {"open", "event"}}
  <2>1. s7' = [p \in Gateways |-> IF p \in procs THEN [s7[p] EXCEPT !.watch = "ended"] ELSE s7[p]]
    BY <1>7 DEF G!FlipApi
  <2>2. procs \in SUBSET Gateways
    OBVIOUS
  <2> HIDE DEF procs
  <2>3. GatewaysKept
    BY <2>1, <2>2, <1>4
  <2> QED BY <1>7, <2>3, <1>k, <1>t DEF G!FlipApi, G!StateTyped
<1>8. CASE G!ForeignEntry
  <2>1. s6' \in G!Entries \cup {NoSocket}
    BY <1>8, <1>t, InodeIsFree DEF G!ForeignEntry, G!Entries
  <2> QED BY <1>8, <2>1, <1>k, <1>q, <1>t DEF G!ForeignEntry, G!StateTyped
<1> QED BY <1>1, <1>2, <1>3, <1>5, <1>6, <1>7, <1>8 DEF G!Environment

\* Every step keeps the invariant.
LEMMA GatewayNextInv == G!GatewayInv /\ [G!GatewayNext]_G!vars => G!GatewayInv'
<1> SUFFICES ASSUME G!GatewayInv, [G!GatewayNext]_G!vars PROVE G!GatewayInv'
  OBVIOUS
<1>1. ASSUME NEW p \in Gateways, G!GatewayStep(p) PROVE G!GatewayInv'
  BY <1>1, GatewayStepKeeps DEF GatewaysKept, G!GatewayInv, G!StateTyped
<1>2. CASE UNCHANGED G!vars
  BY <1>2 DEF G!vars, G!GatewayInv, G!StateTyped
<1> QED BY <1>1, <1>2, EnvironmentKeeps DEF G!GatewayNext

\* The invariant says what is promised of a gateway: the pins name three files and
\* rustls compares the two keys with their certificates, which makes five.
LEMMA GatewayInvImplies ==
    ASSUME G!GatewayInv PROVE G!GatewayTypeOK /\ G!OffersWholeBundle
<1> USE GatewaySets, FilesOfBundle
<1>t. G!StateTyped /\ s7 \in [Gateways -> G!Process] /\ \A p \in Gateways : G!Sound(s7[p])
  BY DEF G!GatewayInv, G!StateTyped
<1>1. G!GatewayTypeOK
  BY <1>t DEF G!StateTyped, G!GatewayTypeOK, G!Process, G!Sound, G!Offering
<1>2. ASSUME NEW p \in Gateways, s7[p].listens # 0, s7[p].spec.pins
      PROVE  s7[p].bundle = [f \in G!Files |-> s7[p].spec.ver]
  <2>1. G!PinsMatch(s7[p].spec, s7[p].bundle) /\ G!ConfigsBuild(s7[p].bundle)
    BY <1>2, <1>t DEF G!Sound, G!Offering, G!Checked
  <2>2. s7[p].bundle \in [G!Files -> 0 .. MaxVer]
    BY <1>t DEF G!Process
  <2>3. \A f \in G!Files : s7[p].bundle[f] = s7[p].spec.ver
    BY <1>2, <2>1 DEF G!PinsMatch, G!ConfigsBuild
  <2> QED BY <2>2, <2>3
<1> QED BY <1>1, <1>2 DEF G!OffersWholeBundle

\* A gateway, however the bundle is rewritten while it is read and the path is taken
\* from it: what offers the socket under pins holds the bundle they name
\* (load_bundle, verify_pins, socket::bind).
THEOREM GatewayIsSafe == G!Spec => [](G!GatewayTypeOK /\ G!OffersWholeBundle)
<1>1. G!GatewayInv => G!GatewayTypeOK /\ G!OffersWholeBundle
  BY GatewayInvImplies
<1> QED BY <1>1, GatewayInitInv, GatewayNextInv, PTL DEF G!Spec

-----------------------------------------------------------------------------
(* The three of them                                                       *)

DaemonsInv ==
    /\ part = "gateway" => G!GatewayInv
    /\ part = "pool" => O!PoolInv
    /\ part = "supervisor" => R!SupervisorInv

\* What the run of the home processes checks of its daemons holds for every number
\* of roles, PIDs, gateways, pulls and bundles.
THEOREM DaemonsStayApart == DaemonsSpec => []DaemonsAreApart
<1>1. DaemonsInit => DaemonsInv
  BY GatewayInitInv, PoolInitInv, SupervisorInitInv DEF DaemonsInit, Chosen, DaemonsInv
<1>2. DaemonsInv /\ [DaemonsNext]_slots => DaemonsInv'
  <2> SUFFICES ASSUME DaemonsInv, [DaemonsNext]_slots PROVE DaemonsInv'
    OBVIOUS
  <2>1. CASE Moves("gateway", 8) /\ G!GatewayNext
    BY <2>1, GatewayNextInv DEF Moves, DaemonsInv
  <2>2. CASE Moves("pool", 7) /\ O!PoolNext
    BY <2>2, PoolNextInv DEF Moves, DaemonsInv
  <2>3. CASE Moves("supervisor", 6) /\ R!SupervisorNext
    BY <2>3, SupervisorNextInv DEF Moves, DaemonsInv
  <2>4. CASE UNCHANGED slots
    <3>1. UNCHANGED G!vars /\ UNCHANGED O!vars /\ UNCHANGED R!vars /\ part' = part
      BY <2>4 DEF slots, G!vars, O!vars, R!vars
    <3> QED BY <3>1, GatewayNextInv, PoolNextInv, SupervisorNextInv DEF DaemonsInv
  <2> QED BY <2>1, <2>2, <2>3, <2>4 DEF DaemonsNext
<1>3. DaemonsInv => DaemonsAreApart
  BY GatewayInvImplies, PoolInvImplies, SupervisorInvImplies DEF DaemonsInv, DaemonsAreApart
<1> QED BY <1>1, <1>2, <1>3, PTL DEF DaemonsSpec

-----------------------------------------------------------------------------
(* The codec                                                               *)

\* A valid value survives both conversions, and one that a document leaves out is
\* what a missing key decodes to.
Convertible(c) ==
    /\ c.ok # {} /\ c.ok \subseteq c.vals
    /\ \A v \in c.ok : /\ c.from[c.to[v]] = v /\ v # "bad"
                       /\ v \in {"none", "", "0"} => c.dflt = v

\* The texts, whatever of them validation accepts.
LEMMA TextConvertible ==
  /\ Convertible(AnyText) /\ Convertible(GoodText) /\ Convertible(BlankOrGood)
  /\ Convertible(SomeText) /\ Convertible(Version)
BY DEF Convertible, Text, AnyText, GoodText, BlankOrGood, SomeText, Version, Same, Id

\* What the required texts accept and what becomes of a blank.
LEMMA TextValues ==
  /\ GoodText.blank = "" /\ GoodText.from[""] = "" /\ GoodText.to[""] = "" /\ "" \in GoodText.vals
  /\ \A v \in GoodText.ok : v = "good" /\ GoodText.to[v] = v
  /\ \A v \in SomeText.ok : v \in {"good", "odd"} /\ SomeText.to[v] = v
  /\ \A v \in Version.ok : v = "v1" /\ Version.to[v] = v
BY DEF Text, GoodText, SomeText, Version, Same, Id

\* The numbers; OptNumber, whose zero is absence, because zero is not valid.
LEMMA NumberConvertible ==
  /\ Convertible(AnySize) /\ Convertible(NonZero) /\ Convertible(SmallSize) /\ Convertible(Positive)
  /\ Convertible(Concurrency) /\ Convertible(OptNumber)
  /\ Convertible(AnyNumber) /\ Convertible(NonNegative) /\ Convertible(PositiveInt)
BY DEF Convertible, Unsigned, AnySize, NonZero, SmallSize, Positive, Concurrency, OptNumber,
       Signed, AnyNumber, NonNegative, PositiveInt, Same, Id

\* Flags, digests, decisions and optional messages.
LEMMA OtherConvertible ==
  /\ Convertible(Flag) /\ Convertible(OptDigest) /\ Convertible(Decision)
  /\ Convertible(Placements) /\ Convertible(OptKind) /\ Convertible(Optional)
BY DEF Convertible, Flag, OptDigest, Decision, Placements, OptKind, Optional, Same, Id

\* An enumeration none of whose tokens is blank.
LEMMA EnumConvertible ==
  ASSUME NEW vals, NEW dflt, vals # {}, "" \notin vals, "bad" \notin vals, "0" \notin vals,
         "none" \in vals => dflt = "none"
  PROVE  Convertible(Enum(vals, dflt)) /\ Convertible(Strict(vals, dflt))
BY DEF Convertible, Enum, Strict, Id

\* What the model says of a field: its part, and a class that converts.
Described(d) == Convertible(d.class) /\ d.part \in {"spec", "status"}

\* Every way to describe a field keeps its class.
LEMMA PartsDescribed ==
  ASSUME NEW c, Convertible(c)
  PROVE  Described(Spec(c)) /\ Described(Needed(c)) /\ Described(Status(c)) /\ Described(NeededStatus(c))
BY DEF Described, Spec, Needed, Status, NeededStatus

\* The kinds, field by field.
LEMMA ClusterDescribed == \A f \in DOMAIN ClusterFields : Described(ClusterFields[f])
<1>1. Convertible(Enum({"none", "servarr"}, "none"))
  BY EnumConvertible
<1> QED BY <1>1, PartsDescribed, TextConvertible, NumberConvertible, OtherConvertible DEF ClusterFields

LEMMA SecretDescribed == \A f \in DOMAIN SecretFields : Described(SecretFields[f])
BY PartsDescribed, TextConvertible DEF SecretFields

LEMMA TitleDescribed == \A f \in DOMAIN TitleFields : Described(TitleFields[f])
BY PartsDescribed, TextConvertible, OtherConvertible DEF TitleFields

LEMMA WantDescribed == \A f \in DOMAIN WantFields : Described(WantFields[f])
<1>1. Convertible(Enum({"open", "satisfied", "dropped"}, "open"))
  BY EnumConvertible
<1> QED BY <1>1, PartsDescribed, TextConvertible DEF WantFields

LEMMA JobSpecDescribed == \A f \in DOMAIN JobSpecFields : Described(JobSpecFields[f])
<1>1. Convertible(Enum({"pull"}, "pull"))
  BY EnumConvertible
<1> QED BY <1>1, PartsDescribed, TextConvertible, NumberConvertible DEF JobSpecFields

LEMMA JobStatusDescribed == \A f \in DOMAIN JobStatusFields : Described(JobStatusFields[f])
<1>1. Convertible(JobPhases)
  BY EnumConvertible DEF JobPhases
<1> QED BY <1>1, PartsDescribed, TextConvertible, NumberConvertible, OtherConvertible DEF JobStatusFields

LEMMA HoldDescribed == \A f \in DOMAIN HoldFields : Described(HoldFields[f])
BY PartsDescribed, TextConvertible, NumberConvertible, OtherConvertible DEF HoldFields

LEMMA RemoteFileDescribed == \A f \in DOMAIN RemoteFileFields : Described(RemoteFileFields[f])
BY PartsDescribed, TextConvertible, NumberConvertible, OtherConvertible DEF RemoteFileFields

LEMMA NodeDescribed == \A f \in DOMAIN NodeFields : Described(NodeFields[f])
<1>1. Convertible(Strict({"pull", "scheduler", "inventory"}, "pull"))
  BY EnumConvertible
<1> QED BY <1>1, PartsDescribed, NumberConvertible, OtherConvertible DEF NodeFields

LEMMA EventDescribed == \A f \in DOMAIN EventFields : Described(EventFields[f])
BY PartsDescribed, TextConvertible, NumberConvertible DEF EventFields

LEMMA SyncDescribed == \A f \in DOMAIN SyncFields : Described(SyncFields[f])
<1>1. Convertible(Enum({"allEligibleCompleted"}, "allEligibleCompleted"))
  BY EnumConvertible
<1>2. Convertible(Enum({"waitingInventory", "captured", "scheduled", "failed"}, "waitingInventory"))
  BY EnumConvertible
<1>3. Convertible(Enum({"wouldQueue", "queued", "alreadyQueued", "present", "blocked", "ineligible"}, "wouldQueue"))
  BY EnumConvertible
<1> QED BY <1>1, <1>2, <1>3, PartsDescribed, TextConvertible, NumberConvertible, OtherConvertible DEF SyncFields

LEMMA JobDescribed == \A f \in DOMAIN JobFields : Described(JobFields[f])
BY JobSpecDescribed, JobStatusDescribed DEF JobFields, Joined

\* Every field of every kind.
LEMMA BodiesDescribed == \A k \in DOMAIN Bodies : \A f \in DOMAIN Bodies[k] : Described(Bodies[k][f])
BY ClusterDescribed, SecretDescribed, TitleDescribed, WantDescribed, JobDescribed, HoldDescribed,
   RemoteFileDescribed, NodeDescribed, EventDescribed, SyncDescribed DEF Bodies

\* The schema of the kind: the metadata, then its own fields.
LEMMA SchemaIs ==
  ASSUME kind \in Kinds
  PROVE  /\ kind \in DOMAIN Bodies
         /\ Fields = {"apiVersion", "name"} \cup DOMAIN Bodies[kind]
         /\ Schema["apiVersion"] = Meta(kind)["apiVersion"] /\ Schema["name"] = Meta(kind)["name"]
         /\ \A f \in DOMAIN Bodies[kind] \ {"apiVersion", "name"} : Schema[f] = Bodies[kind][f]
<1>1. kind \in DOMAIN Bodies
  BY CodecAssumption
<1>2. Schema = Joined(Meta(kind), Bodies[kind])
  BY DEF Schema, Schemas
<1>3. DOMAIN Meta(kind) = {"apiVersion", "name"}
  BY DEF Meta
<1> QED BY <1>1, <1>2, <1>3 DEF Fields, Joined

\* What the proofs use of every kind: parts and classes, and the two fields of the metadata.
Shape ==
    /\ \A f \in Fields : Convertible(ClassOf(f)) /\ Schema[f].part \in {"meta", "spec", "status"}
    /\ "apiVersion" \in Fields /\ "name" \in Fields
    /\ \A f \in Fields : Schema[f].part = "meta" <=> f \in {"apiVersion", "name"}
    /\ \A v \in ClassOf("apiVersion").ok : v = "v1" /\ ClassOf("apiVersion").to[v] = v
    /\ \A v \in ClassOf("name").ok : v \in {"good", "odd"} /\ ClassOf("name").to[v] = v

\* Every kind has that shape.
LEMMA HasShape == ASSUME kind \in Kinds PROVE Shape
<1>1. /\ Schema["apiVersion"].part = "meta" /\ Schema["name"].part = "meta"
      /\ ClassOf("apiVersion") = Version /\ ClassOf("name") \in {GoodText, SomeText}
  <2>1. /\ Meta(kind)["apiVersion"] = [class |-> Version, part |-> "meta", needed |-> FALSE]
        /\ Meta(kind)["name"].part = "meta" /\ Meta(kind)["name"].class \in {GoodText, SomeText}
    BY DEF Meta
  <2> QED BY <2>1, SchemaIs DEF ClassOf
<1>2. /\ Convertible(ClassOf("apiVersion")) /\ Convertible(ClassOf("name"))
      /\ \A v \in ClassOf("apiVersion").ok : v = "v1" /\ ClassOf("apiVersion").to[v] = v
      /\ \A v \in ClassOf("name").ok : v \in {"good", "odd"} /\ ClassOf("name").to[v] = v
  BY <1>1, TextConvertible, TextValues
<1>6. \A f \in DOMAIN Bodies[kind] \ {"apiVersion", "name"} : Described(Schema[f])
  BY SchemaIs, BodiesDescribed
<1>7. \A f \in DOMAIN Bodies[kind] \ {"apiVersion", "name"} :
          Convertible(ClassOf(f)) /\ Schema[f].part \in {"spec", "status"}
  BY <1>6 DEF Described, ClassOf
<1> QED BY <1>1, <1>2, <1>7, SchemaIs DEF Shape

\* The redacted field of a Secret.
LEMMA SecretShape ==
  ASSUME kind \in Kinds, kind = "Secret"
  PROVE  /\ "seedboxAddress" \in Fields /\ Schema["seedboxAddress"].part = "spec"
         /\ "" \notin ClassOf("seedboxAddress").ok /\ "" \in ClassOf("seedboxAddress").vals
         /\ ClassOf("seedboxAddress").from[ClassOf("seedboxAddress").to[""]] = ""
<1>1. "seedboxAddress" \in Fields /\ Schema["seedboxAddress"] = Needed(GoodText)
  BY SchemaIs DEF Bodies, SecretFields
<1>2. ClassOf("seedboxAddress") = GoodText /\ Schema["seedboxAddress"].part = "spec"
  BY <1>1 DEF Needed, ClassOf
<1> QED BY <1>1, <1>2, TextValues

\* The fields that validation judges together are all of the status, and plain ones pass.
LEMMA TitleShape ==
  ASSUME kind \in Kinds, kind = "Title"
  PROVE  /\ {"path", "installB3", "currentB3"} \subseteq In("status")
         /\ ClassOf("installB3").dflt = "none" /\ "none" \in ClassOf("installB3").ok
<1>1. /\ {"path", "installB3", "currentB3"} \subseteq Fields
      /\ Schema["path"] = Status(AnyText) /\ Schema["installB3"] = Status(OptDigest)
      /\ Schema["currentB3"] = Status(OptDigest)
  BY SchemaIs DEF Bodies, TitleFields
<1>2. OptDigest.dflt = "none" /\ "none" \in OptDigest.ok
  BY DEF OptDigest
<1> QED BY <1>1, <1>2 DEF Status, ClassOf, In

\* A plain RemoteFile has parsed nothing.
LEMMA RemoteFileShape ==
  ASSUME kind \in Kinds, kind = "RemoteFile"
  PROVE  /\ "parseOk" \in Fields /\ ClassOf("parseOk").dflt = "false" /\ "false" \in ClassOf("parseOk").ok
<1>1. "parseOk" \in Fields /\ Schema["parseOk"] = Status(Flag)
  BY SchemaIs DEF Bodies, RemoteFileFields
<1> QED BY <1>1 DEF Status, Flag, Same, ClassOf

\* A kind that is all status has no spec.
LEMMA StatusOnlyShape ==
  ASSUME kind \in Kinds, StatusOnly
  PROVE  In("spec") = {}
<1>1. \A f \in DOMAIN Bodies[kind] : Bodies[kind][f].part = "status"
  BY DEF StatusOnly, Bodies, RemoteFileFields, EventFields, Status
<1> QED BY <1>1, SchemaIs, HasShape DEF In, Shape

\* A field that a document may leave out has a key that is not needed.
LEMMA OmittedShape ==
  ASSUME kind \in Kinds
  PROVE  \A f \in SkippedIfBlank : f \in Fields /\ ~Schema[f].needed /\ f # "name"
<1>1. CASE kind = "Job"
  <2>1. "syncName" \in DOMAIN JobSpecFields /\ JobSpecFields["syncName"] = Spec(AnyText)
    BY DEF JobSpecFields
  <2>2. "syncName" \in DOMAIN Bodies[kind] /\ Bodies[kind]["syncName"] = Spec(AnyText)
    BY <1>1, <2>1 DEF Bodies, JobFields, Joined
  <2> QED BY <1>1, <2>2, SchemaIs DEF SkippedIfBlank, Spec
<1>2. CASE kind = "Node"
  BY <1>2, SchemaIs DEF SkippedIfBlank, Bodies, NodeFields, Status
<1>3. CASE kind = "Sync"
  <2>1. \A f \in DOMAIN SyncFields : SyncFields[f].needed = FALSE
    BY DEF SyncFields, Spec, Status
  <2>2. \A f \in DOMAIN Bodies[kind] : ~Bodies[kind][f].needed
    BY <1>3, <2>1 DEF Bodies
  <2> QED BY <1>3, <2>2, SchemaIs, HasShape DEF SkippedIfBlank, In, Shape
<1> QED BY <1>1, <1>2, <1>3 DEF SkippedIfBlank

\* A message without its spec never passes for a kind that may be applied.
LEMMA BareShape ==
  ASSUME kind \in Kinds, In("spec") # {}, NEW actor, MayApply(actor)
  PROVE  \E f \in In("spec") : f \notin {"apiVersion", "name"} /\
             ClassOf(f).from[ClassOf(f).blank] \notin ClassOf(f).ok
<1>1. kind \in {"Cluster", "Secret", "Want", "Title", "Hold", "Node"}
  BY StatusOnlyShape DEF MayApply, StatusOnly
<1>2. CASE kind = "Cluster"
  <2>1. "rangeLen" \in Fields /\ Schema["rangeLen"] = Needed(Positive)
    BY <1>2, SchemaIs DEF Bodies, ClusterFields
  <2>2. Positive.from[Positive.blank] \notin Positive.ok
    BY DEF Positive, Unsigned, Same, Id
  <2> QED BY <2>1, <2>2 DEF In, ClassOf, Needed
<1>3. CASE kind = "Secret"
  <2>1. "seedboxAddress" \in Fields /\ Schema["seedboxAddress"] = Needed(GoodText)
    BY <1>3, SchemaIs DEF Bodies, SecretFields
  <2>2. "seedboxAddress" \in In("spec") /\ ClassOf("seedboxAddress") = GoodText
    BY <2>1 DEF In, ClassOf, Needed
  <2> QED BY <2>2, TextValues
<1>4. CASE kind \in {"Want", "Title", "Hold"}
  <2>1. "titleId" \in Fields /\ Schema["titleId"] \in {Needed(GoodText), Spec(GoodText)}
    BY <1>4, SchemaIs DEF Bodies, WantFields, TitleFields, HoldFields
  <2>2. "titleId" \in In("spec") /\ ClassOf("titleId") = GoodText
    BY <2>1 DEF In, ClassOf, Needed, Spec
  <2> QED BY <2>2, TextValues
<1>5. CASE kind = "Node"
  <2>1. "workerKind" \in Fields /\ Schema["workerKind"] = Needed(Strict({"pull", "scheduler", "inventory"}, "pull"))
    BY <1>5, SchemaIs DEF Bodies, NodeFields
  <2> DEFINE c == Strict({"pull", "scheduler", "inventory"}, "pull")
  <2>2. c.from[c.blank] \notin c.ok
    BY DEF Strict
  <2> HIDE DEF c
  <2>3. "workerKind" \in In("spec") /\ ClassOf("workerKind") = c
    BY <2>1 DEF In, ClassOf, Needed, c
  <2> QED BY <2>2, <2>3
<1> QED BY <1>1, <1>2, <1>3, <1>4, <1>5

-----------------------------------------------------------------------------
\* An object whose fields are valid, but for an address that was redacted.
Sendable(obj) ==
    /\ obj \in [Fields -> Values]
    /\ \A f \in Fields :
           \/ obj[f] \in ClassOf(f).ok
           \/ kind = "Secret" /\ f = "seedboxAddress" /\ obj[f] = ""

\* Both conversions in a row change nothing in such an object.
LEMMA RoundTrip ==
  ASSUME kind \in Kinds, NEW obj, Sendable(obj)
  PROVE  FromWire(ToWire(obj)) = obj
<1> DEFINE back == FromWire(ToWire(obj))
<1>1. \A f \in Fields : ToWire(obj)[f] = ClassOf(f).to[obj[f]]
  BY DEF ToWire
<1>2. \A f \in Fields : f \notin {"apiVersion", "name"} =>
          ClassOf(f).from[ClassOf(f).to[obj[f]]] = obj[f]
  <2> SUFFICES ASSUME NEW f \in Fields, f \notin {"apiVersion", "name"}
               PROVE  ClassOf(f).from[ClassOf(f).to[obj[f]]] = obj[f]
    OBVIOUS
  <2>1. CASE obj[f] \in ClassOf(f).ok
    <3>1. Convertible(ClassOf(f))
      BY HasShape DEF Shape
    <3> QED BY <2>1, <3>1 DEF Convertible
  <2>2. CASE kind = "Secret" /\ f = "seedboxAddress" /\ obj[f] = ""
    BY <2>2, SecretShape
  <2> QED BY <2>1, <2>2 DEF Sendable
<1>3. \A f \in {"apiVersion", "name"} : ClassOf(f).to[obj[f]] = obj[f] /\ obj[f] # ""
  <2>1. \A f \in {"apiVersion", "name"} : f \in Fields /\ obj[f] \in ClassOf(f).ok
    BY HasShape DEF Sendable, Shape
  <2>2. obj["apiVersion"] = "v1" /\ ClassOf("apiVersion").to[obj["apiVersion"]] = obj["apiVersion"]
    BY <2>1, HasShape DEF Shape
  <2>3. obj["name"] \in {"good", "odd"} /\ ClassOf("name").to[obj["name"]] = obj["name"]
    BY <2>1, HasShape DEF Shape
  <2> QED BY <2>2, <2>3
<1>4. \A f \in Fields : back[f] = obj[f]
  BY <1>1, <1>2, <1>3 DEF FromWire
<1>5. back = [f \in Fields |-> back[f]]
  BY DEF FromWire
<1>6. obj = [f \in Fields |-> obj[f]]
  BY DEF Sendable
<1> QED BY <1>4, <1>5, <1>6

\* A valid object can be sent.
LEMMA ValidIsSendable ==
  ASSUME NEW obj \in [Fields -> Values], Validate(obj)
  PROVE  Sendable(obj)
<1>1. \A f \in Fields : obj[f] \in ClassOf(f).ok
  BY DEF Validate
<1> QED BY <1>1 DEF Sendable

\* So can what a client was given of a stored one.
LEMMA RedactedIsSendable ==
  ASSUME kind \in Kinds, StoredIsValid, NEW actor
  PROVE  Sendable(Redacted(actor, stored))
<1>0. Sendable(stored)
  BY ValidIsSendable DEF StoredIsValid
<1>1. CASE actor = "cli" /\ kind = "Secret"
  <2>1. "" \in Values
    BY <1>1, SecretShape DEF Values
  <2> QED BY <1>0, <1>1, <2>1, SecretShape DEF Sendable, Redacted
<1>2. CASE ~(actor = "cli" /\ kind = "Secret")
  BY <1>0, <1>2 DEF Redacted
<1> QED BY <1>1, <1>2

\* What a document leaves out is what its reader puts in.
LEMMA DocumentDecodes ==
  ASSUME kind \in Kinds, StoredIsValid, NEW d, d.obj = Document(Redacted("cli", stored))
  PROVE  /\ Decode(d) = Redacted("cli", stored)
         /\ d.text # "snakeJson" => Decodes(d)
<1> DEFINE obj == Redacted("cli", stored)
<1>1. Sendable(obj)
  BY RedactedIsSendable
<1>2. \A f \in Fields : Skipped(f, obj[f]) => ~Schema[f].needed /\ f # "name" /\ ClassOf(f).dflt = obj[f]
  <2> SUFFICES ASSUME NEW f \in Fields, Skipped(f, obj[f])
               PROVE  ~Schema[f].needed /\ f # "name" /\ ClassOf(f).dflt = obj[f]
    OBVIOUS
  <2>1. obj[f] \in {"none", "", "0"} /\ ~Schema[f].needed
    BY OmittedShape DEF Skipped
  <2>2. f # "name"
    BY <1>1, <2>1, HasShape, OmittedShape, SecretShape DEF Sendable, Shape, Skipped
  <2>3. CASE obj[f] \in ClassOf(f).ok
    BY <2>1, <2>2, <2>3, HasShape DEF Shape, Convertible
  <2>4. CASE kind = "Secret" /\ f = "seedboxAddress" /\ obj[f] = ""
    BY <2>4 DEF Skipped, SkippedIfBlank
  <2> QED BY <1>1, <2>1, <2>2, <2>3, <2>4 DEF Sendable
<1>3. DOMAIN d.obj = {g \in Fields : ~Skipped(g, obj[g])} /\ \A f \in DOMAIN d.obj : d.obj[f] = obj[f]
  BY DEF Document
<1>4. Decode(d) = [f \in Fields |-> obj[f]]
  BY <1>2, <1>3 DEF Decode
<1>5. obj = [f \in Fields |-> obj[f]]
  BY <1>1 DEF Sendable
<1> HIDE DEF obj
<1> QED BY <1>2, <1>3, <1>4, <1>5 DEF Decodes, obj

-----------------------------------------------------------------------------
\* What holds in every state, as an inductive invariant: a client's object and document
\* are those of the store as long as their version is the store's.
HeldInv ==
    held # None =>
        /\ held.rv \in Nat /\ held.rv <= rv
        /\ held.rv = rv => held.obj = Redacted(held.actor, stored)

EditedFrom(d, obj) ==
    IF d.edit = <<>> THEN Decode(d) = obj
    ELSE d.edit[1] \in Fields /\ (Decode(d) = [obj EXCEPT ![d.edit[1]] = d.edit[2]] \/ ~Validate(Decode(d)))

DocInv ==
    doc # None =>
        /\ doc.rv \in Nat /\ doc.rv <= rv
        /\ doc.rv = rv => EditedFrom(doc, Redacted("cli", stored))

StoreInv == kind \in Kinds /\ StoredIsValid /\ entered = stored /\ rv \in Nat

ReplyInv == ReapplyAdmitted /\ ReplyTellsTruth

CodecInv == StoreInv /\ HeldInv /\ DocInv /\ ReplyInv

\* The inductive invariant gives the property.
LEMMA InvImplies == CodecInv => ObjectsKeepMeaning
BY DEF CodecInv, StoreInv, HeldInv, ReplyInv, ObjectsKeepMeaning, ReadsBackExactly, NothingInvented

\* What validation accepts is made of the values of its fields.
LEMMA ValidInValues ==
  ASSUME kind \in Kinds, NEW obj, obj = [f \in Fields |-> obj[f]], Validate(obj)
  PROVE  obj \in [Fields -> Values]
<1>1. \A f \in Fields : obj[f] \in ClassOf(f).ok
  BY DEF Validate
<1>2. \A f \in Fields : obj[f] \in ClassOf(f).vals
  BY <1>1, HasShape DEF Shape, Convertible
<1>3. \A f \in Fields : obj[f] \in Values
  BY <1>2 DEF Values
<1> QED BY <1>3

\* The object that the model starts with is valid.
LEMMA PlainIsValid ==
  ASSUME kind \in Kinds
  PROVE  Plain \in [Fields -> Values] /\ Validate(Plain)
<1>1. \A f \in Fields : /\ Plain[f] \in ClassOf(f).ok
                        /\ ClassOf(f).dflt \in ClassOf(f).ok => Plain[f] = ClassOf(f).dflt
  <2> SUFFICES ASSUME NEW f \in Fields
               PROVE  /\ Plain[f] \in ClassOf(f).ok
                      /\ ClassOf(f).dflt \in ClassOf(f).ok => Plain[f] = ClassOf(f).dflt
    OBVIOUS
  <2> DEFINE ok == ClassOf(f).ok
             dflt == ClassOf(f).dflt
  <2>1. ok # {}
    BY HasShape DEF Shape, Convertible
  <2>2. \E v \in ok : v = dflt \/ dflt \notin ok
    BY <2>1
  <2>3. Plain[f] = CHOOSE v \in ok : v = dflt \/ dflt \notin ok
    BY DEF Plain
  <2> HIDE DEF ok, dflt
  <2>4. Plain[f] \in ok /\ (Plain[f] = dflt \/ dflt \notin ok)
    BY <2>2, <2>3
  <2> QED BY <2>4 DEF ok, dflt
<1>2. kind = "Title" => Plain["installB3"] = "none"
  BY <1>1, TitleShape DEF In
<1>3. kind = "RemoteFile" => Plain["parseOk"] = "false"
  BY <1>1, RemoteFileShape
<1>4. Validate(Plain)
  BY <1>1, <1>2, <1>3 DEF Validate
<1>5. Plain = [f \in Fields |-> Plain[f]]
  BY DEF Plain
<1> QED BY <1>4, <1>5, ValidInValues

\* A step that writes nothing, after which a client may have dropped what it had.
LEMMA StoreKept ==
  ASSUME StoreInv, HeldInv, DocInv, kind' = kind, UNCHANGED <<stored, rv, entered>>,
         held' \in {held, None}, doc' \in {doc, None}
  PROVE  StoreInv' /\ HeldInv' /\ DocInv'
<1>1. StoreInv'
  BY DEF StoreInv, StoredIsValid, Fields, Schema, Values, Validate, ClassOf
<1>2. HeldInv'
  BY DEF HeldInv, Redacted
<1>3. DocInv'
  <2>1. CASE doc' = doc
    BY <2>1 DEF DocInv, EditedFrom, Decode, Redacted, Fields, Schema, Validate, ClassOf
  <2>2. CASE doc' = None
    BY <2>2 DEF DocInv
  <2> QED BY <2>1, <2>2
<1> QED BY <1>1, <1>2, <1>3

\* A write leaves what clients have behind.
LEMMA StoreWritten ==
  ASSUME StoreInv, HeldInv, DocInv, kind' = kind, NEW obj \in [Fields -> Values], Validate(obj),
         stored' = obj, rv' = rv + 1, entered' = obj, held' \in {held, None}, doc' \in {doc, None}
  PROVE  StoreInv' /\ HeldInv' /\ DocInv'
<1>1. StoreInv'
  BY DEF StoreInv, StoredIsValid, Fields, Schema, Values, Validate, ClassOf
<1>2. HeldInv'
  BY DEF HeldInv, StoreInv
<1>3. DocInv'
  BY DEF DocInv, StoreInv
<1> QED BY <1>1, <1>2, <1>3

\* A reply is truthful when a conflict has a cause, success is not stale, and what was reapplied unchanged is admitted.
LEMMA Replied ==
  ASSUME kind' = kind, NEW err \in {"ok", "Invalid", "Denied", "Conflict"}, NEW ver, NEW same \in BOOLEAN, NEW how,
         reply' = Answer(err, ver, same, how),
         err = "ok" => ver = rv,
         err = "Conflict" => ver # rv \/ ~same,
         same /\ how = "apply" /\ ver = rv /\ MayApply("cli") => (err = "ok") = (kind # "Secret")
  PROVE  ReplyInv'
<1>1. MayApply("cli")' = MayApply("cli")
  BY DEF MayApply
<1>2. reply'.seen = CASE err = "Conflict" -> "conflict" [] err = "Denied" -> "denied"
                      [] err = "Invalid" -> "usage" [] OTHER -> "ok"
  BY DEF Answer, Code, Reads
<1>3. /\ reply'.err = err /\ reply'.stale = (ver # rv) /\ reply'.same = same /\ reply'.how = how
  BY DEF Answer
<1>4. ReapplyAdmitted'
  BY <1>1, <1>3 DEF ReapplyAdmitted
<1>5. ReplyTellsTruth'
  BY <1>2, <1>3 DEF ReplyTellsTruth
<1> QED BY <1>4, <1>5 DEF ReplyInv

\* A step without a reply.
LEMMA NoReply ==
  ASSUME reply' = None
  PROVE  ReplyInv'
BY DEF ReplyInv, ReapplyAdmitted, ReplyTellsTruth

-----------------------------------------------------------------------------
\* At the start nobody has anything.
LEMMA InitInv == CodecInit => CodecInv
<1> SUFFICES ASSUME CodecInit PROVE CodecInv
  OBVIOUS
<1>1. StoreInv
  BY PlainIsValid DEF CodecInit, StoreInv, StoredIsValid
<1>2. HeldInv /\ DocInv /\ ReplyInv
  BY DEF CodecInit, HeldInv, DocInv, ReplyInv, ReapplyAdmitted, ReplyTellsTruth
<1> QED BY <1>1, <1>2 DEF CodecInv

\* What a client gets is what is stored, redacted.
LEMMA GetInv == CodecInv /\ Get => CodecInv'
<1> SUFFICES ASSUME CodecInv, Get PROVE CodecInv'
  OBVIOUS
<1>1. PICK actor \in Actors : held' = [actor |-> actor, obj |-> FromWire(ToWire(Redacted(actor, stored))), rv |-> rv]
  BY DEF Get
<1>2. FromWire(ToWire(Redacted(actor, stored))) = Redacted(actor, stored)
  BY RoundTrip, RedactedIsSendable DEF CodecInv, StoreInv
<1>3. HeldInv'
  <2>1. held'.rv = rv /\ held'.obj = Redacted(actor, stored) /\ held'.actor = actor
    BY <1>1, <1>2
  <2>2. Redacted(held.actor, stored)' = Redacted(actor, stored)
    BY <2>1 DEF Get, Redacted
  <2> QED BY <2>1, <2>2 DEF HeldInv, CodecInv, StoreInv, Get
<1>4. StoreInv'
  BY DEF CodecInv, Get, StoreInv, StoredIsValid, Fields, Schema, Values, Validate, ClassOf
<1>5. DocInv'
  BY DEF CodecInv, Get, DocInv
<1>6. ReplyInv'
  BY NoReply DEF Get
<1> QED BY <1>3, <1>4, <1>5, <1>6 DEF CodecInv

\* An edit is never the empty one.
LEMMA PairIsNotEmpty == \A a, b : <<a, b>> # <<>>
OBVIOUS

\* An edited document decodes to what was printed with that edit, or to nothing valid.
LEMMA EditedDecodes ==
  ASSUME kind \in Kinds, StoredIsValid, NEW d, NEW e \in Edited(d),
         d = [obj |-> Document(Redacted("cli", stored)), text |-> "json", rv |-> d.rv, edit |-> <<>>]
  PROVE  EditedFrom(e, Redacted("cli", stored)) /\ e.rv = d.rv
<1> DEFINE obj == Redacted("cli", stored)
<1>1. Decode(d) = obj
  BY DocumentDecodes
<1>0. obj = [g \in Fields |-> obj[g]]
  BY RedactedIsSendable DEF Sendable
<1>2. CASE \E p \in Fields \X Values : e = [d EXCEPT !.obj = Joined([f \in {p[1]} |-> p[2]], @), !.edit = p]
  <2>1. PICK p \in Fields \X Values : e = [d EXCEPT !.obj = Joined([f \in {p[1]} |-> p[2]], @), !.edit = p]
    BY <1>2
  <2>2. p = <<p[1], p[2]>> /\ p[1] \in Fields
    OBVIOUS
  <2>3. e.edit = p /\ e.rv = d.rv /\ e.obj = Joined([f \in {p[1]} |-> p[2]], d.obj)
    BY <2>1
  <2>4. /\ DOMAIN e.obj = {p[1]} \cup DOMAIN d.obj
        /\ \A f \in DOMAIN e.obj : e.obj[f] = IF f = p[1] THEN p[2] ELSE d.obj[f]
    BY <2>3 DEF Joined
  <2>5. Decode(e) = [g \in Fields |-> IF g = p[1] THEN p[2] ELSE Decode(d)[g]]
    BY <2>4 DEF Decode
  <2> HIDE DEF obj
  <2>6. Decode(e) = [obj EXCEPT ![p[1]] = p[2]]
    BY <1>0, <1>1, <2>2, <2>5
  <2>7. e.edit # <<>>
    BY <2>2, <2>3, PairIsNotEmpty
  <2> QED BY <2>2, <2>3, <2>6, <2>7 DEF EditedFrom, obj
<1>3. CASE \E f \in DOMAIN d.obj : e = [d EXCEPT !.obj = [g \in DOMAIN d.obj \ {f} |-> d.obj[g]], !.edit = <<f, ClassOf(f).dflt>>]
  <2>1. PICK f \in DOMAIN d.obj : e = [d EXCEPT !.obj = [g \in DOMAIN d.obj \ {f} |-> d.obj[g]], !.edit = <<f, ClassOf(f).dflt>>]
    BY <1>3
  <2>2. f \in Fields
    BY DEF Document
  <2>3. e.edit = <<f, ClassOf(f).dflt>> /\ e.rv = d.rv /\ e.obj = [g \in DOMAIN d.obj \ {f} |-> d.obj[g]]
    BY <2>1
  <2>4. Decode(e) = [g \in Fields |-> IF g = f THEN (IF f = "name" THEN "" ELSE ClassOf(f).dflt) ELSE Decode(d)[g]]
    BY <2>3 DEF Decode
  <2>5. CASE f = "name"
    <3>1. Decode(e)["name"] = ""
      BY <2>2, <2>4, <2>5
    <3>2. "" \notin ClassOf("name").ok
      BY HasShape DEF Shape
    <3>3. ~Validate(Decode(e))
      BY <2>2, <2>5, <3>1, <3>2 DEF Validate
    <3> QED BY <2>2, <2>3, <3>3 DEF EditedFrom
  <2>6. CASE f # "name"
    <3> HIDE DEF obj
    <3>1. Decode(e) = [obj EXCEPT ![f] = ClassOf(f).dflt]
      BY <1>0, <1>1, <2>2, <2>4, <2>6
    <3> QED BY <2>2, <2>3, <3>1 DEF EditedFrom, obj
  <2> QED BY <2>5, <2>6, <2>3
<1> QED BY <1>2, <1>3 DEF Edited

\* A printed document stands for what the client held.
LEMMA PrintDocInv == CodecInv /\ PrintDoc => CodecInv'
<1> SUFFICES ASSUME CodecInv, PrintDoc PROVE CodecInv'
  OBVIOUS
<1>1. StoreInv'
  BY DEF CodecInv, PrintDoc, StoreInv, StoredIsValid, Fields, Schema, Values, Validate, ClassOf
<1>2. HeldInv' /\ ReplyInv'
  BY NoReply DEF PrintDoc, HeldInv
<1>3. PICK text \in {"json", "snakeJson"} :
          LET d == [obj |-> Document(held.obj), text |-> text, rv |-> held.rv, edit |-> <<>>] IN
          doc' \in IF text = "json" THEN {d} \cup Edited(d) ELSE {d}
  BY DEF PrintDoc
<1> DEFINE d == [obj |-> Document(held.obj), text |-> text, rv |-> held.rv, edit |-> <<>>]
<1>4. doc' = d \/ (text = "json" /\ doc' \in Edited(d))
  BY <1>3
<1>5. held.rv \in Nat /\ held.rv <= rv /\ (held.rv = rv => held.obj = Redacted("cli", stored))
  BY DEF CodecInv, HeldInv, PrintDoc
<1>6. doc'.rv = held.rv
  <2>1. CASE doc' = d
    BY <2>1
  <2>2. CASE doc' \in Edited(d)
    BY <2>2 DEF Edited
  <2> QED BY <1>4, <2>1, <2>2
<1>7. held.rv = rv => EditedFrom(doc', Redacted("cli", stored))
  <2> SUFFICES ASSUME held.rv = rv PROVE EditedFrom(doc', Redacted("cli", stored))
    OBVIOUS
  <2>1. d.obj = Document(Redacted("cli", stored)) /\ d.edit = <<>> /\ d.rv = held.rv
    BY <1>5
  <2>2. CASE doc' = d
    <3>1. Decode(doc') = Redacted("cli", stored) /\ doc'.edit = <<>>
      BY <2>1, <2>2, DocumentDecodes DEF CodecInv, StoreInv
    <3> QED BY <3>1 DEF EditedFrom
  <2>3. CASE text = "json" /\ doc' \in Edited(d)
    <3>1. d = [obj |-> Document(Redacted("cli", stored)), text |-> "json", rv |-> d.rv, edit |-> <<>>]
      BY <1>5, <2>3
    <3> HIDE DEF d
    <3> QED BY <2>3, <3>1, EditedDecodes DEF CodecInv, StoreInv
  <2> QED BY <1>4, <2>2, <2>3
<1>8. EditedFrom(doc', Redacted("cli", stored)) => EditedFrom(doc, Redacted("cli", stored))'
  BY DEF PrintDoc, EditedFrom, Decode, Redacted, Fields, Schema, Validate, ClassOf
<1>9. DocInv'
  BY <1>5, <1>6, <1>7, <1>8 DEF DocInv, PrintDoc
<1> QED BY <1>1, <1>2, <1>9 DEF CodecInv

\* The object that a write leaves: what was stored, with the edit if it is in a part written.
Kept(edit, parts) ==
    IF edit = <<>> THEN stored
    ELSE IF Schema[edit[1]].part \in parts THEN [stored EXCEPT ![edit[1]] = edit[2]] ELSE stored

\* What was entered follows what is stored.
LEMMA GivenKept ==
  ASSUME StoreInv, NEW edit, NEW parts, Given(edit, parts)
  PROVE  entered' = Kept(edit, parts)
BY DEF StoreInv, Given, Kept

\* A valid object stays valid when its spec or its status alone comes from another one.
LEMMA MixedIsValid ==
  ASSUME kind \in Kinds, NEW a \in [Fields -> Values], Validate(a), NEW b \in [Fields -> Values], Validate(b),
         ~StatusOnly
  PROVE  LET mixed == [f \in Fields |-> IF f \in In("status") THEN a[f] ELSE b[f]] IN
         mixed \in [Fields -> Values] /\ Validate(mixed)
<1> DEFINE mixed == [f \in Fields |-> IF f \in In("status") THEN a[f] ELSE b[f]]
<1>1. mixed \in [Fields -> Values]
  OBVIOUS
<1>2. \A f \in Fields : mixed[f] \in ClassOf(f).ok
  BY DEF Validate
<1>3. kind = "Title" => (mixed["path"] = "odd" => "none" \in {mixed["installB3"], mixed["currentB3"]})
  <2> SUFFICES ASSUME kind = "Title"
               PROVE  mixed["path"] = "odd" => "none" \in {mixed["installB3"], mixed["currentB3"]}
    OBVIOUS
  <2>1. mixed["path"] = a["path"] /\ mixed["installB3"] = a["installB3"] /\ mixed["currentB3"] = a["currentB3"]
    BY TitleShape DEF In
  <2> QED BY <2>1 DEF Validate
<1> HIDE DEF mixed
<1>4. kind # "RemoteFile"
  BY DEF StatusOnly
<1>5. Validate(mixed)
  BY <1>2, <1>3, <1>4 DEF Validate
<1> QED BY <1>1, <1>5 DEF mixed

\* ApplyResult and PatchResult, by their outcome.
LEMMA ApplyOutcome ==
  ASSUME NEW actor, NEW obj, NEW ver, NEW allowed
  PROVE  /\ ApplyResult(actor, obj, ver, allowed) \in {"ok", "Invalid", "Denied", "Conflict"}
         /\ ApplyResult(actor, obj, ver, allowed) = "ok" =>
                Parses(obj) /\ MayApply(actor) /\ Validate(obj) /\ obj["name"] = stored["name"] /\ ver = rv
         /\ ApplyResult(actor, obj, ver, allowed) = "Conflict" =>
                obj["name"] # stored["name"] \/ ver # rv
BY DEF ApplyResult

\* The same of a patch.
LEMMA PatchOutcome ==
  ASSUME NEW actor, NEW piece, NEW obj, NEW ver, NEW allowed
  PROVE  /\ PatchResult(actor, piece, obj, ver, allowed) \in {"ok", "Invalid", "Denied", "Conflict"}
         /\ PatchResult(actor, piece, obj, ver, allowed) = "ok" =>
                MayPatch(actor, piece) /\ ver = rv /\ Validate(Patched(piece, obj))
         /\ PatchResult(actor, piece, obj, ver, allowed) = "Conflict" => ver # rv
BY DEF PatchResult

\* What is stored can be applied again.
LEMMA StoredIsAdmitted ==
  ASSUME StoreInv, MayApply("cli"), NEW allowed
  PROVE  ApplyResult("cli", stored, rv, allowed) = "ok"
<1>1. Parses(stored)
  <2>1. \A f \in Fields : stored[f] \in ClassOf(f).ok
    BY DEF StoreInv, StoredIsValid, Validate
  <2>2. \A f \in Fields : \A v \in ClassOf(f).ok : v # "bad"
    BY HasShape DEF StoreInv, Shape, Convertible
  <2> QED BY <2>1, <2>2 DEF Parses
<1>2. Validate(stored)
  BY DEF StoreInv, StoredIsValid
<1>3. SameIn("spec", stored, stored) /\ SameIn("status", stored, stored)
  BY DEF SameIn
<1> QED BY <1>1, <1>2, <1>3 DEF ApplyResult

\* A valid document of the stored version is what is stored, with its edit.
LEMMA ValidDocument ==
  ASSUME CodecInv, doc # None, doc.rv = rv, Validate(Decode(doc))
  PROVE  /\ Decode(doc) \in [Fields -> Values]
         /\ FromWire(ToWire(Decode(doc))) = Decode(doc)
         /\ doc.edit = <<>> => Decode(doc) = stored /\ kind # "Secret"
         /\ doc.edit # <<>> => doc.edit[1] \in Fields /\ Decode(doc) = [stored EXCEPT ![doc.edit[1]] = doc.edit[2]]
<1> DEFINE x == Decode(doc)
<1>1. kind \in Kinds /\ StoredIsValid
  BY DEF CodecInv, StoreInv
<1>2. x = [f \in Fields |-> x[f]]
  BY DEF Decode
<1>3. x \in [Fields -> Values]
  BY <1>1, <1>2, ValidInValues
<1>4. FromWire(ToWire(x)) = x
  BY <1>1, <1>3, ValidIsSendable, RoundTrip
<1>5. kind = "Secret" => x["seedboxAddress"] # ""
  BY <1>1, SecretShape DEF Validate
<1>6. EditedFrom(doc, Redacted("cli", stored))
  BY DEF CodecInv, DocInv
<1> HIDE DEF x
<1>7. ASSUME doc.edit = <<>> PROVE x = stored /\ kind # "Secret"
  <2>1. x = Redacted("cli", stored)
    BY <1>6, <1>7 DEF EditedFrom, x
  <2>2. kind # "Secret"
    <3> SUFFICES ASSUME kind = "Secret" PROVE FALSE
      OBVIOUS
    <3>1. x["seedboxAddress"] = ""
      BY <1>1, <2>1, SecretShape DEF Redacted, StoredIsValid
    <3> QED BY <1>5, <3>1
  <2> QED BY <2>1, <2>2 DEF Redacted
<1>8. ASSUME doc.edit # <<>>
      PROVE  doc.edit[1] \in Fields /\ x = [stored EXCEPT ![doc.edit[1]] = doc.edit[2]]
  <2>1. doc.edit[1] \in Fields /\ x = [Redacted("cli", stored) EXCEPT ![doc.edit[1]] = doc.edit[2]]
    BY <1>6, <1>8 DEF EditedFrom, x
  <2>2. x["seedboxAddress"] # "" \/ kind # "Secret"
    BY <1>5
  <2>3. x = [stored EXCEPT ![doc.edit[1]] = doc.edit[2]]
    <3>1. CASE kind = "Secret"
      BY <1>1, <2>1, <2>2, <3>1, SecretShape DEF StoredIsValid, Redacted
    <3>2. CASE kind # "Secret"
      BY <2>1, <3>2 DEF Redacted
    <3> QED BY <3>1, <3>2
  <2> QED BY <2>1, <2>3
<1> QED BY <1>3, <1>4, <1>7, <1>8 DEF x

\* An apply writes the document's edit and nothing else.
LEMMA ApplyDocInv == CodecInv /\ ApplyDoc => CodecInv'
<1> SUFFICES ASSUME CodecInv, ApplyDoc PROVE CodecInv'
  OBVIOUS
<1> DEFINE x == Decode(doc)
           obj == FromWire(ToWire(x))
           fit == IF Decodes(doc) THEN Validate(x) ELSE FALSE
           err(allowed) == IF fit THEN ApplyResult("cli", obj, doc.rv, allowed) ELSE "Invalid"
           parts == IF StatusOnly THEN {"status"} ELSE {"meta", "spec"}
           how == IF Decodes(doc) THEN "apply" ELSE "undecodable"
<1>1. PICK allowed \in BOOLEAN :
          /\ reply' = Answer(err(allowed), doc.rv, doc.edit = <<>>, how)
          /\ Finish(err(allowed), Applied(obj), doc.edit, parts)
  BY DEF ApplyDoc
<1>2. doc # None /\ kind' = kind /\ held' \in {held, None} /\ doc' \in {doc, None}
  BY DEF ApplyDoc
<1>3. kind \in Kinds /\ StoredIsValid /\ StoreInv /\ HeldInv /\ DocInv
  BY DEF CodecInv, StoreInv
<1>4. /\ err(allowed) \in {"ok", "Invalid", "Denied", "Conflict"}
      /\ err(allowed) = "ok" => fit /\ Validate(obj) /\ obj["name"] = stored["name"] /\ doc.rv = rv /\ MayApply("cli")
      /\ err(allowed) = "Conflict" => fit /\ (obj["name"] # stored["name"] \/ doc.rv # rv)
  BY ApplyOutcome
<1>5. fit /\ doc.rv = rv =>
          /\ obj = x /\ x \in [Fields -> Values]
          /\ doc.edit = <<>> => x = stored /\ kind # "Secret"
          /\ doc.edit # <<>> => doc.edit[1] \in Fields /\ x = [stored EXCEPT ![doc.edit[1]] = doc.edit[2]]
  BY <1>2, ValidDocument
<1>6. Decodes(doc) /\ doc.edit = <<>> /\ doc.rv = rv /\ MayApply("cli") => (err(allowed) = "ok") = (kind # "Secret")
  <2> SUFFICES ASSUME Decodes(doc), doc.edit = <<>>, doc.rv = rv, MayApply("cli")
               PROVE  (err(allowed) = "ok") = (kind # "Secret")
    OBVIOUS
  <2>1. CASE kind = "Secret"
    BY <1>4, <1>5, <2>1
  <2>2. CASE kind # "Secret"
    <3>1. x = stored
      BY <1>2, <1>3, <2>2 DEF DocInv, EditedFrom, Redacted
    <3>2. fit
      BY <3>1, <1>3 DEF StoredIsValid
    <3>3. obj = stored
      BY <1>5, <3>1, <3>2
    <3> HIDE DEF obj, fit
    <3>4. err(allowed) = "ok"
      BY <1>3, <3>2, <3>3, StoredIsAdmitted
    <3> QED BY <2>2, <3>4
  <2> QED BY <2>1, <2>2
<1>7. ReplyInv'
  <2>1. how = "apply" => Decodes(doc)
    OBVIOUS
  <2>2. err(allowed) = "Conflict" => doc.rv # rv \/ doc.edit # <<>>
    BY <1>4, <1>5
  <2>3. (doc.edit = <<>>) \in BOOLEAN
    OBVIOUS
  <2> HIDE DEF err, how
  <2> QED BY <1>1, <1>2, <1>4, <1>6, <2>1, <2>2, <2>3, Replied
<1>8. ASSUME err(allowed) # "ok" PROVE StoreInv' /\ HeldInv' /\ DocInv'
  <2>1. UNCHANGED <<stored, rv, entered>>
    BY <1>1, <1>8 DEF Finish
  <2> QED BY <1>2, <1>3, <2>1, StoreKept
<1>9. ASSUME err(allowed) = "ok" PROVE StoreInv' /\ HeldInv' /\ DocInv'
  <2> HIDE DEF obj, fit
  <2>1. /\ obj = x /\ x \in [Fields -> Values] /\ Validate(x) /\ x["name"] = stored["name"]
        /\ doc.edit = <<>> => x = stored
        /\ doc.edit # <<>> => doc.edit[1] \in Fields /\ x = [stored EXCEPT ![doc.edit[1]] = doc.edit[2]]
    BY <1>4, <1>5, <1>9
  <2> HIDE DEF x, err
  <2>2. stored' = Applied(x) /\ rv' = rv + 1 /\ entered' = Kept(doc.edit, parts)
    BY <1>1, <1>3, <1>9, <2>1, GivenKept DEF Finish, Write
  <2>3. stored \in [Fields -> Values] /\ Validate(stored)
    BY <1>3 DEF StoredIsValid
  <2>4. Applied(x) \in [Fields -> Values] /\ Validate(Applied(x))
    <3>1. CASE StatusOnly
      BY <2>1, <3>1 DEF Applied
    <3>2. CASE ~StatusOnly
      BY <1>3, <2>1, <2>3, <3>2, MixedIsValid DEF Applied
    <3> QED BY <3>1, <3>2
  <2>5. Applied(x) = Kept(doc.edit, parts)
    <3>1. Applied(x) = [f \in Fields |-> Applied(x)[f]] /\ stored = [f \in Fields |-> stored[f]]
      BY <2>3, <2>4
    <3>2. CASE doc.edit = <<>>
      BY <2>1, <2>3, <3>2 DEF Applied, Kept
    <3>3. CASE doc.edit # <<>> /\ ~StatusOnly
      <4>1. doc.edit[1] \in In("status") <=> Schema[doc.edit[1]].part \notin parts
        BY <1>3, <2>1, <3>3, HasShape DEF Shape, In
      <4> QED BY <2>1, <2>3, <3>3, <4>1 DEF Applied, Kept
    <3>4. CASE doc.edit # <<>> /\ StatusOnly
      <4>1. CASE Schema[doc.edit[1]].part = "status"
        BY <2>1, <3>4, <4>1 DEF Applied, Kept
      <4>2. CASE Schema[doc.edit[1]].part # "status"
        <5>1. doc.edit[1] \in {"apiVersion", "name"}
          BY <1>3, <2>1, <3>4, <4>2, HasShape, StatusOnlyShape DEF Shape, In
        <5>2. x["apiVersion"] = stored["apiVersion"]
          BY <1>3, <2>1, <2>3, HasShape DEF Shape, Validate
        <5>3. doc.edit[2] = stored[doc.edit[1]]
          BY <2>1, <2>3, <3>4, <5>1, <5>2
        <5>4. x = stored
          BY <2>1, <2>3, <3>4, <5>3
        <5> QED BY <3>4, <4>2, <5>4 DEF Applied, Kept
      <4> QED BY <4>1, <4>2
    <3> QED BY <3>2, <3>3, <3>4
  <2> QED BY <1>2, <1>3, <2>2, <2>4, <2>5, StoreWritten
<1> QED BY <1>7, <1>8, <1>9 DEF CodecInv

\* A patch writes its edit and nothing else; a redacted address never passes.
LEMMA PatchInv == CodecInv /\ Patch => CodecInv'
<1> SUFFICES ASSUME CodecInv, Patch PROVE CodecInv'
  OBVIOUS
<1> DEFINE Edits == {<<>>} \cup {p \in (In("spec") \cup In("status")) \X Values : p[2] \in ClassOf(p[1]).ok}
           sent(edit) == IF edit = <<>> THEN held.obj ELSE [held.obj EXCEPT ![edit[1]] = edit[2]]
           obj(edit) == FromWire(ToWire(sent(edit)))
           err(edit, piece, allowed) == PatchResult(held.actor, piece, obj(edit), held.rv, allowed)
<1>1. PICK edit \in Edits, piece \in {"spec", "status"}, allowed \in BOOLEAN :
          /\ reply' = Answer(err(edit, piece, allowed), held.rv, edit = <<>>, "patch")
          /\ Finish(err(edit, piece, allowed), Patched(piece, obj(edit)), edit, {piece})
  BY DEF Patch
<1>2. held # None /\ kind' = kind /\ held' \in {held, None} /\ doc' \in {doc, None}
  BY DEF Patch
<1>3. kind \in Kinds /\ StoredIsValid /\ StoreInv /\ HeldInv /\ DocInv
  BY DEF CodecInv, StoreInv
<1> DEFINE e == err(edit, piece, allowed)
<1>4. /\ e \in {"ok", "Invalid", "Denied", "Conflict"}
      /\ e = "ok" => held.rv = rv /\ Validate(Patched(piece, obj(edit))) /\ MayPatch(held.actor, piece)
      /\ e = "Conflict" => held.rv # rv
  BY PatchOutcome
<1>5. (edit = <<>>) \in BOOLEAN
  OBVIOUS
<1>6. edit # <<>> => /\ edit = <<edit[1], edit[2]>> /\ edit[1] \in Fields /\ edit[2] \in ClassOf(edit[1]).ok
                     /\ edit[2] \in Values
  BY DEF In
<1> HIDE DEF e, Edits
<1>7. ReplyInv'
  BY <1>1, <1>2, <1>4, <1>5, Replied DEF e
<1>8. ASSUME e # "ok" PROVE StoreInv' /\ HeldInv' /\ DocInv'
  <2>1. UNCHANGED <<stored, rv, entered>>
    BY <1>1, <1>8 DEF Finish, e
  <2> QED BY <1>2, <1>3, <2>1, StoreKept
<1>9. ASSUME e = "ok" PROVE StoreInv' /\ HeldInv' /\ DocInv'
  <2>1. held.obj = Redacted(held.actor, stored)
    BY <1>2, <1>3, <1>4, <1>9 DEF HeldInv
  <2>2. Sendable(held.obj)
    BY <1>3, <2>1, RedactedIsSendable
  <2>3. Sendable(sent(edit))
    <3>1. CASE edit = <<>>
      BY <2>2, <3>1
    <3>2. CASE edit # <<>>
      BY <1>6, <2>2, <3>2 DEF Sendable
    <3> QED BY <3>1, <3>2
  <2>4. obj(edit) = sent(edit)
    BY <1>3, <2>3, RoundTrip
  <2> DEFINE x == sent(edit)
             new == Patched(piece, x)
  <2>5. Validate(new)
    BY <1>4, <1>9, <2>4
  <2>6. x \in [Fields -> Values] /\ stored \in [Fields -> Values]
    BY <1>3, <2>3 DEF Sendable, StoredIsValid
  <2>7. stored' = new /\ rv' = rv + 1 /\ entered' = Kept(edit, {piece})
    BY <1>1, <1>3, <1>9, <2>4, GivenKept DEF Finish, Write, e
  <2>8. \A f \in In(piece) : x[f] = IF edit # <<>> /\ f = edit[1] THEN edit[2] ELSE stored[f]
    <3>1. \A f \in Fields : x[f] = IF edit # <<>> /\ f = edit[1] THEN edit[2] ELSE held.obj[f]
      BY <1>6, <2>2 DEF Sendable
    <3> HIDE DEF x
    <3>2. CASE held.actor = "cli" /\ kind = "Secret"
      <4>1. \A f \in Fields : f # "seedboxAddress" => held.obj[f] = stored[f]
        BY <2>1, <2>6, <3>2 DEF Redacted
      <4>2. piece = "spec"
        BY <1>4, <1>9, <3>2 DEF MayPatch
      <4>3. new["seedboxAddress"] = x["seedboxAddress"]
        BY <1>3, <3>2, <4>2, SecretShape DEF Patched, In
      <4>4. held.obj["seedboxAddress"] = ""
        BY <1>3, <2>1, <2>6, <3>2, SecretShape DEF Redacted
      <4>5. "seedboxAddress" \in Fields /\ x["seedboxAddress"] # ""
        BY <1>3, <2>5, <3>2, <4>3, SecretShape DEF Validate
      <4>6. edit # <<>> /\ edit[1] = "seedboxAddress"
        BY <3>1, <4>4, <4>5
      <4> QED BY <3>1, <4>1, <4>6 DEF In
    <3>3. CASE ~(held.actor = "cli" /\ kind = "Secret")
      <4>1. held.obj = stored
        BY <2>1, <3>3 DEF Redacted
      <4> QED BY <3>1, <4>1 DEF In
    <3> QED BY <3>2, <3>3
  <2> HIDE DEF x
  <2>9. new = Kept(edit, {piece})
    <3>1. new = [f \in Fields |-> IF f \in In(piece) THEN x[f] ELSE stored[f]]
      BY DEF Patched
    <3>2. stored = [f \in Fields |-> stored[f]]
      BY <2>6
    <3>3. CASE edit = <<>>
      BY <2>8, <3>1, <3>2, <3>3 DEF Kept
    <3>4. CASE edit # <<>> /\ edit[1] \in In(piece)
      <4>1. Kept(edit, {piece}) = [stored EXCEPT ![edit[1]] = edit[2]]
        BY <3>4 DEF Kept, In
      <4> QED BY <1>6, <2>6, <2>8, <3>1, <3>4, <4>1
    <3>5. CASE edit # <<>> /\ edit[1] \notin In(piece)
      <4>1. Kept(edit, {piece}) = stored
        BY <1>6, <3>5 DEF Kept, In
      <4> QED BY <2>8, <3>1, <3>2, <3>5, <4>1
    <3> QED BY <3>3, <3>4, <3>5
  <2>10. new \in [Fields -> Values]
    BY <2>6 DEF Patched
  <2> HIDE DEF new
  <2> QED BY <1>2, <1>3, <2>5, <2>7, <2>9, <2>10, StoreWritten
<1> QED BY <1>7, <1>8, <1>9 DEF CodecInv

\* The blanks of a spec never pass validation.
LEMMA BareIsRefused ==
  ASSUME kind \in Kinds, In("spec") # {}, NEW actor, NEW allowed
  PROVE  ApplyResult(actor, FromWire(Bare), rv, allowed) # "ok"
<1> SUFFICES ASSUME Validate(FromWire(Bare)), MayApply(actor) PROVE FALSE
  BY ApplyOutcome
<1>1. PICK f \in In("spec") : f \notin {"apiVersion", "name"} /\ ClassOf(f).from[ClassOf(f).blank] \notin ClassOf(f).ok
  BY BareShape
<1>2. f \in Fields
  BY DEF In
<1>3. Bare[f] = ClassOf(f).blank
  BY <1>2 DEF Bare
<1>4. FromWire(Bare)[f] = ClassOf(f).from[ClassOf(f).blank]
  BY <1>1, <1>2, <1>3 DEF FromWire
<1> QED BY <1>1, <1>2, <1>4 DEF Validate

\* A message without its spec writes nothing.
LEMMA SendBareInv == CodecInv /\ SendBare => CodecInv'
<1> SUFFICES ASSUME CodecInv, SendBare PROVE CodecInv'
  OBVIOUS
<1> DEFINE err(actor, body, allowed) ==
               IF body /\ In("spec") # {} THEN ApplyResult(actor, FromWire(Bare), rv, allowed) ELSE "Invalid"
<1>1. PICK actor \in Actors, body \in BOOLEAN, allowed \in BOOLEAN :
          /\ reply' = Answer(err(actor, body, allowed), rv, FALSE, "bare")
          /\ Finish(err(actor, body, allowed), Applied(FromWire(Bare)), <<>>, {})
  BY DEF SendBare
<1>2. kind' = kind /\ held' \in {held, None} /\ doc' \in {doc, None}
  BY DEF SendBare
<1>3. kind \in Kinds /\ StoreInv /\ HeldInv /\ DocInv
  BY DEF CodecInv, StoreInv
<1>4. err(actor, body, allowed) \in {"ok", "Invalid", "Denied", "Conflict"} /\ err(actor, body, allowed) # "ok"
  BY <1>3, ApplyOutcome, BareIsRefused
<1> HIDE DEF err
<1>5. ReplyInv'
  BY <1>1, <1>2, <1>4, Replied
<1>6. UNCHANGED <<stored, rv, entered>>
  BY <1>1, <1>4 DEF Finish
<1>7. StoreInv' /\ HeldInv' /\ DocInv'
  BY <1>2, <1>3, <1>6, StoreKept
<1> QED BY <1>5, <1>7 DEF CodecInv

\* Another writer leaves every client behind.
LEMMA OtherWritesInv == CodecInv /\ OtherWrites => CodecInv'
<1> SUFFICES ASSUME CodecInv, OtherWrites PROVE CodecInv'
  OBVIOUS
<1>1. PICK f \in In("spec") \cup In("status") : \E v \in ClassOf(f).ok \ {stored[f]} :
          LET next == [stored EXCEPT ![f] = v] IN
          /\ Validate(next) /\ Write(next) /\ Given(<<f, v>>, {"spec", "status"})
  BY DEF OtherWrites
<1>2. PICK v \in ClassOf(f).ok \ {stored[f]} :
          /\ Validate([stored EXCEPT ![f] = v]) /\ Write([stored EXCEPT ![f] = v])
          /\ Given(<<f, v>>, {"spec", "status"})
  BY <1>1
<1> DEFINE next == [stored EXCEPT ![f] = v]
<1>3. kind' = kind /\ held' \in {held, None} /\ doc' \in {doc, None} /\ reply' = None
  BY DEF OtherWrites
<1>4. kind \in Kinds /\ StoredIsValid /\ StoreInv /\ HeldInv /\ DocInv
  BY DEF CodecInv, StoreInv
<1>5. next = [g \in Fields |-> next[g]]
  BY <1>4 DEF StoredIsValid
<1>6. f \in Fields /\ Schema[f].part \in {"spec", "status"}
  BY DEF In
<1>7. entered' = next
  <2>1. entered' = Kept(<<f, v>>, {"spec", "status"})
    BY <1>2, <1>4, GivenKept
  <2> QED BY <1>6, <2>1 DEF Kept
<1>8. stored' = next /\ rv' = rv + 1 /\ Validate(next)
  BY <1>2 DEF Write
<1> HIDE DEF next
<1>9. next \in [Fields -> Values]
  BY <1>4, <1>5, <1>8, ValidInValues
<1>10. StoreInv' /\ HeldInv' /\ DocInv'
  BY <1>3, <1>4, <1>7, <1>8, <1>9, StoreWritten
<1> QED BY <1>3, <1>10, NoReply DEF CodecInv

\* An object keeps its meaning across the wire and the documents (home_convert.rs,
\* apply_file), whatever the kind, however many fields differ from a plain object and
\* however often clients and others write.
THEOREM ObjectsMean == CodecSpec => []ObjectsKeepMeaning
<1>1. CodecInv /\ [CodecNext]_vars => CodecInv'
  <2> SUFFICES ASSUME CodecInv, [CodecNext]_vars PROVE CodecInv'
    OBVIOUS
  <2>1. CASE UNCHANGED vars
    <3>1. StoreInv' /\ HeldInv' /\ DocInv'
      BY <2>1, StoreKept DEF CodecInv, vars
    <3>2. ReplyInv'
      BY <2>1 DEF CodecInv, vars, ReplyInv, ReapplyAdmitted, ReplyTellsTruth, MayApply
    <3> QED BY <3>1, <3>2 DEF CodecInv
  <2> QED BY <2>1, GetInv, PrintDocInv, ApplyDocInv, PatchInv, SendBareInv, OtherWritesInv DEF CodecNext
<1> QED BY <1>1, InitInv, InvImplies, PTL DEF CodecSpec

-----------------------------------------------------------------------------
(* The walker of the seedbox daemon                                        *)

Name == STRING
Path == Seq(Name)

-----------------------------------------------------------------------------
(* Paths                                                                   *)

\* A path is under another when it begins with it, name by name.
LEMMA UnderIs ==
  ASSUME NEW p \in Path, NEW d \in Path
  PROVE  Under(p, d) <=> Len(d) <= Len(p) /\ \A i \in 1 .. Len(d) : d[i] = p[i]
<1>1. ASSUME Under(p, d), NEW i \in 1 .. Len(d) PROVE d[i] = p[i]
  <2>1. SubSeq(d, 1, Len(d)) = SubSeq(p, 1, Len(d)) /\ Len(d) <= Len(p)
    BY <1>1 DEF Under, IsPrefix
  <2>2. SubSeq(d, 1, Len(d))[i] = d[i] /\ SubSeq(p, 1, Len(d))[i] = p[i]
    BY <2>1 DEF Path
  <2> QED BY <2>1, <2>2
<1>2. ASSUME Len(d) <= Len(p), \A i \in 1 .. Len(d) : d[i] = p[i] PROVE Under(p, d)
  <2>1. SubSeq(d, 1, Len(d)) = SubSeq(p, 1, Len(d))
    BY <1>2 DEF Path
  <2> QED BY <1>2, <2>1 DEF Under, IsPrefix
<1>3. Under(p, d) => Len(d) <= Len(p)
  BY DEF Under, IsPrefix
<1> QED BY <1>1, <1>2, <1>3

\* Every path is under itself.
LEMMA UnderOwn == \A p \in Path : Under(p, p)
BY UnderIs DEF Path

\* Under is transitive.
LEMMA UnderTrans ==
  ASSUME NEW p \in Path, NEW c \in Path, NEW d \in Path, Under(p, c), Under(c, d)
  PROVE  Under(p, d)
BY UnderIs DEF Path

\* A path is under each of its beginnings.
LEMMA SubUnder ==
  ASSUME NEW p \in Path, NEW n \in 0 .. Len(p)
  PROVE  SubSeq(p, 1, n) \in Path /\ Len(SubSeq(p, 1, n)) = n /\ Under(p, SubSeq(p, 1, n))
<1> DEFINE c == SubSeq(p, 1, n)
<1>1. c \in Path /\ Len(c) = n
  BY DEF Path
<1>2. \A i \in 1 .. n : c[i] = p[i]
  BY DEF Path
<1>3. n <= Len(p)
  BY DEF Path
<1> HIDE DEF c
<1>4. Under(p, c)
  BY <1>1, <1>2, <1>3, UnderIs
<1> QED BY <1>1, <1>4 DEF c

\* A path under one at least as long is that one.
LEMMA UnderSame ==
  ASSUME NEW p \in Path, NEW d \in Path, Under(p, d), Len(p) <= Len(d)
  PROVE  p = d
<1>1. Len(p) = Len(d) /\ \A i \in 1 .. Len(d) : d[i] = p[i]
  BY UnderIs DEF Path
<1> QED BY <1>1 DEF Path

\* The beginning of a path is the path it is under.
LEMMA UnderSub ==
  ASSUME NEW p \in Path, NEW d \in Path, Under(p, d)
  PROVE  SubSeq(p, 1, Len(d)) = d
<1>1. Len(d) \in 0 .. Len(p) /\ \A i \in 1 .. Len(d) : d[i] = p[i]
  BY UnderIs DEF Path
<1> DEFINE c == SubSeq(p, 1, Len(d))
<1>2. c \in Path /\ Len(c) = Len(d) /\ \A i \in 1 .. Len(d) : c[i] = p[i]
  BY <1>1 DEF Path
<1> HIDE DEF c
<1>3. c = d
  BY <1>1, <1>2 DEF Path
<1> QED BY <1>3 DEF c

\* Of two paths above one path, one is under the other.
LEMMA UnderCompare ==
  ASSUME NEW p \in Path, NEW c \in Path, NEW d \in Path, Under(p, c), Under(p, d)
  PROVE  Under(c, d) \/ Under(d, c)
<1>1. CASE Len(d) <= Len(c)
  BY <1>1, UnderIs DEF Path
<1>2. CASE Len(c) <= Len(d)
  BY <1>2, UnderIs DEF Path
<1> QED BY <1>1, <1>2 DEF Path

\* strip_prefix and join undo each other.
LEMMA RelJoins ==
  ASSUME NEW p \in Path, NEW d \in Path, Under(p, d)
  PROVE  Rel(p, d) \in Path /\ d \o Rel(p, d) = p /\ Len(Rel(p, d)) = Len(p) - Len(d)
<1>1. Len(d) \in Nat /\ Len(p) \in Nat /\ Len(d) <= Len(p) /\ \A i \in 1 .. Len(d) : d[i] = p[i]
  BY UnderIs DEF Path
<1> DEFINE r == SubSeq(p, Len(d) + 1, Len(p))
<1>2. r \in Path /\ Len(r) = Len(p) - Len(d) /\ \A i \in 1 .. Len(r) : r[i] = p[Len(d) + i]
  BY <1>1 DEF Path
<1> HIDE DEF r
<1> DEFINE j == d \o r
<1>3. j \in Path /\ Len(j) = Len(p)
  BY <1>1, <1>2 DEF Path
<1>4. \A i \in 1 .. Len(p) : j[i] = p[i]
  BY <1>1, <1>2 DEF Path
<1> HIDE DEF j
<1>5. j = p
  BY <1>3, <1>4 DEF Path
<1> QED BY <1>2, <1>5 DEF Rel, r, j

\* A path joined to a directory is under it.
LEMMA JoinUnder ==
  ASSUME NEW d \in Path, NEW r \in Path
  PROVE  d \o r \in Path /\ Under(d \o r, d) /\ Len(d \o r) = Len(d) + Len(r)
<1> DEFINE j == d \o r
<1>1. j \in Path /\ Len(j) = Len(d) + Len(r) /\ \A i \in 1 .. Len(d) : j[i] = d[i]
  BY DEF Path
<1>2. Len(d) <= Len(d) + Len(r)
  BY DEF Path
<1> HIDE DEF j
<1>3. Under(j, d)
  BY <1>1, <1>2, UnderIs
<1> QED BY <1>1, <1>3 DEF j

\* The names of a path with one more at its end.
LEMMA Appended ==
  ASSUME NEW r \in Path, NEW x \in Name
  PROVE  LET e == Append(r, x) IN
         e \in Path /\ Len(e) = Len(r) + 1 /\ e[Len(r) + 1] = x /\ \A i \in 1 .. Len(r) : e[i] = r[i]
<1> DEFINE e == Append(r, x)
<1>0. r \in Seq(Name) /\ Len(r) \in Nat /\ DOMAIN r = 1 .. Len(r)
  BY DEF Path
<1>1. e \in Seq(Name) /\ Len(e) = Len(r) + 1
  BY <1>0
<1>2. e[Len(r) + 1] = x
  BY <1>0
<1>3. \A i \in 1 .. Len(r) : e[i] = r[i]
  BY <1>0
<1> QED BY <1>1, <1>2, <1>3 DEF Path

\* Joining and then adding a name is joining the longer path.
LEMMA JoinAppend ==
  ASSUME NEW d \in Path, NEW r \in Path, NEW x \in Name
  PROVE  Append(r, x) \in Path /\ d \o Append(r, x) = Append(d \o r, x)
<1> DEFINE e == Append(r, x)  a == d \o e  c == d \o r  b == Append(c, x)
<1>1. e \in Path /\ Len(e) = Len(r) + 1 /\ e[Len(r) + 1] = x /\ \A i \in 1 .. Len(r) : e[i] = r[i]
  BY Appended
<1> HIDE DEF e
<1>2. /\ a \in Path /\ Len(a) = Len(d) + Len(e)
      /\ \A i \in 1 .. Len(a) : a[i] = IF i <= Len(d) THEN d[i] ELSE e[i - Len(d)]
  BY <1>1 DEF Path
<1>3. /\ c \in Path /\ Len(c) = Len(d) + Len(r)
      /\ \A i \in 1 .. Len(c) : c[i] = IF i <= Len(d) THEN d[i] ELSE r[i - Len(d)]
  BY DEF Path
<1> HIDE DEF a, c
<1>4. b \in Path /\ Len(b) = Len(c) + 1 /\ b[Len(c) + 1] = x /\ \A i \in 1 .. Len(c) : b[i] = c[i]
  BY <1>3, Appended
<1> HIDE DEF b
<1>5. Len(a) = Len(b) /\ \A i \in 1 .. Len(a) : a[i] = b[i]
  <2>1. Len(d) \in Nat /\ Len(r) \in Nat
    BY DEF Path
  <2>2. Len(a) = Len(b)
    BY <1>1, <1>2, <1>3, <1>4, <2>1
  <2>3. ASSUME NEW i \in 1 .. Len(a) PROVE a[i] = b[i]
    <3>1. CASE i <= Len(d)
      BY <1>2, <1>3, <1>4, <2>1, <3>1
    <3>2. CASE i > Len(d) /\ i <= Len(d) + Len(r)
      BY <1>1, <1>2, <1>3, <1>4, <2>1, <3>2
    <3>3. CASE i = Len(d) + Len(r) + 1
      <4>1. ~(i <= Len(d)) /\ i - Len(d) = Len(r) + 1 /\ i = Len(c) + 1
        BY <1>3, <2>1, <3>3
      <4> QED BY <1>1, <1>2, <1>4, <4>1
    <3>4. i \in Int /\ 1 <= i /\ i <= Len(d) + Len(r) + 1
      BY <1>1, <1>2, <2>1
    <3> QED BY <2>1, <3>1, <3>2, <3>3, <3>4
  <2> QED BY <2>2, <2>3
<1>6. a = b
  BY <1>2, <1>4, <1>5 DEF Path
<1> QED BY <1>1, <1>6 DEF a, b, c, e

\* What is below an incomplete download is part of it.
LEMMA SkipGrows ==
  ASSUME NEW p \in Path, NEW d \in Path, Under(p, d), IsTorrentSkip(d)
  PROVE  IsTorrentSkip(p)
BY UnderIs DEF IsTorrentSkip, Path

\* A path is its directory and its name.
LEMMA ParentJoins ==
  ASSUME NEW c \in Path, c # <<>>
  PROVE  Last(c) \in Name /\ c = Append(Parent(c), Last(c)) /\ Parent(c) \in Path
<1> DEFINE f == SubSeq(c, 1, Len(c) - 1)
<1>1. Len(c) \in Nat /\ Len(c) >= 1
  BY DEF Path
<1>2. f \in Path /\ Len(f) = Len(c) - 1 /\ \A i \in 1 .. Len(c) - 1 : f[i] = c[i]
  <2> DEFINE n == Len(c) - 1
  <2>1. n \in Nat /\ n <= Len(c)
    BY <1>1
  <2> HIDE DEF n
  <2>2. SubSeq(c, 1, n) \in Path /\ Len(SubSeq(c, 1, n)) = n /\ \A i \in 1 .. n : SubSeq(c, 1, n)[i] = c[i]
    BY <2>1 DEF Path
  <2> QED BY <2>2 DEF n
<1> HIDE DEF f
<1> DEFINE a == Append(f, c[Len(c)])
<1>3. c[Len(c)] \in Name
  BY <1>1 DEF Path
<1>4. a \in Path /\ Len(a) = Len(c) /\ \A i \in 1 .. Len(c) : a[i] = c[i]
  BY <1>1, <1>2, <1>3 DEF Path
<1> HIDE DEF a
<1>5. a = c
  BY <1>4 DEF Path
<1> QED BY <1>2, <1>3, <1>5 DEF a, f, Parent, Front, Last

-----------------------------------------------------------------------------
(* The file system                                                         *)

\* What the assumption says, in the terms of Path and Name.
LEMMA PathsAre ==
  ASSUME WalkerAssumption
  PROVE  /\ Dirs \subseteq Path /\ Places \subseteq Path /\ Links \subseteq Path
         /\ \A p \in Dirs \cup Places : Canonical(p) = p
         /\ ArgChoices \subseteq Seq([id : Name, path : Path])
BY DEF WalkerAssumption, Path, Name

\* What leads to a file is a directory, and no link.
LEMMA OnTheWay ==
  ASSUME WalkerAssumption, NEW p, IsFile(p), NEW d \in Path, Under(p, d)
  PROVE  /\ d = p \/ IsDir(d)
         /\ Exists(d) /\ d \notin Links
<1>1. p \in Places /\ p \in Path /\ Reached(p)
  BY PathsAre DEF IsFile
<1>2. CASE d = p
  BY <1>1, <1>2 DEF Exists, WalkerAssumption
<1>3. CASE d # p
  <2>1. Len(d) \in Nat /\ Len(p) \in Nat /\ Len(d) < Len(p)
    BY <1>1, <1>3, UnderIs, UnderSame DEF Path
  <2>2. SubSeq(p, 1, Len(d)) \in Dirs
    BY <1>1, <2>1 DEF WalkerAssumption
  <2>3. d \in Dirs
    BY <1>1, <2>2, UnderSub
  <2>4. d \in Ancestors(p)
    BY <1>3, <2>3 DEF Ancestors, IsStrictPrefix, Under
  <2>5. Ancestors(d) \subseteq Ancestors(p)
    <3> SUFFICES ASSUME NEW a \in Dirs, IsStrictPrefix(a, d) PROVE IsStrictPrefix(a, p)
      BY DEF Ancestors
    <3>1. a \in Path /\ Under(d, a) /\ a # d
      BY PathsAre DEF IsStrictPrefix, Under
    <3>2. Under(p, a)
      BY <1>1, <3>1, UnderTrans
    <3>3. Len(a) <= Len(d)
      BY <3>1, UnderIs
    <3>4. a # p
      BY <2>1, <3>1, <3>3 DEF Path
    <3> QED BY <3>2, <3>4 DEF IsStrictPrefix, Under
  <2>6. Reached(d) /\ dir[d] # "gone"
    BY <1>1, <2>4, <2>5 DEF Reached
  <2> QED BY <1>3, <2>3, <2>6 DEF IsDir, Exists, WalkerAssumption
<1> QED BY <1>2, <1>3

\* Reading a directory finds the entry that leads to a file below it.
LEMMA NextEntry ==
  ASSUME WalkerAssumption, NEW p, IsFile(p), NEW d \in Dirs, Under(p, d)
  PROVE  \E c \in Children(d) : Under(p, c)
<1>1. p \in Places /\ p \in Path /\ d \in Path /\ d # p
  BY PathsAre DEF IsFile, WalkerAssumption
<1>2. Len(d) \in Nat /\ Len(p) \in Nat /\ Len(d) < Len(p)
  BY <1>1, UnderIs, UnderSame DEF Path
<1> DEFINE n == Len(d) + 1
           c == SubSeq(p, 1, n)
<1>3. n \in Nat /\ 1 <= n /\ n <= Len(p) /\ n - 1 = Len(d)
  BY <1>2
<1> HIDE DEF n
<1>4. c \in Path /\ Len(c) = n /\ Under(p, c) /\ c # <<>>
  BY <1>1, <1>3, SubUnder
<1>5. c \in Dirs \cup Places /\ Exists(c)
  BY <1>1, <1>4, OnTheWay DEF IsDir
<1>6. Parent(c) = d
  <2>1. Parent(c) \in Path /\ c = Append(Parent(c), Last(c)) /\ Last(c) \in Name
    BY <1>4, ParentJoins
  <2>2. Len(Parent(c)) = Len(d) /\ Under(c, Parent(c))
    <3> DEFINE f == Parent(c)  x == Last(c)
    <3>1. f \in Path /\ x \in Name /\ c = Append(f, x)
      BY <2>1
    <3> HIDE DEF c, f, x
    <3>2. Len(c) = Len(f) + 1 /\ \A i \in 1 .. Len(f) : c[i] = f[i]
      BY <3>1, Appended
    <3>3. Len(f) \in Nat
      BY <3>1 DEF Path
    <3>4. Len(f) = Len(d)
      BY <1>3, <1>4, <3>2, <3>3
    <3>5. c \in Path /\ Len(f) <= Len(c) /\ \A i \in 1 .. Len(f) : f[i] = c[i]
      BY <1>4, <3>2, <3>3
    <3>6. Under(c, f)
      BY <3>1, <3>5, UnderIs
    <3> QED BY <3>4, <3>6 DEF f
  <2> HIDE DEF c
  <2>3. Under(p, Parent(c))
    BY <1>1, <1>4, <2>1, <2>2, UnderTrans
  <2> QED BY <1>1, <2>1, <2>2, <2>3, UnderSub
<1>7. c \in Children(d)
  BY <1>4, <1>5, <1>6 DEF Children
<1> QED BY <1>4, <1>7

-----------------------------------------------------------------------------
(* The roots                                                               *)

GivenRoot == [id : Name, path : Path]
Root == [id : Name, original : Path, canonical : Dirs]

\* The roots have names of their own and do not meet.
RootsInv ==
    /\ roots \in Seq(Root) /\ args \in Seq(GivenRoot)
    /\ \A i, j \in DOMAIN roots :
           i # j => roots[i].id # roots[j].id /\ ~Under(roots[i].canonical, roots[j].canonical)
    /\ walk # Absent \/ listing # Absent => daemon = "serving"

\* A library root is a directory, and a file of it is found under its id.
LEMMA RootIs ==
  ASSUME WalkerAssumption, RootsInv, NEW i \in DOMAIN roots
  PROVE  /\ roots[i].id \in Name /\ roots[i].canonical \in Dirs /\ roots[i].canonical \in Path
         /\ \A rel : PathOf(Ref(roots[i].id, rel)) = roots[i].canonical \o rel
<1>1. roots[i] \in Root
  BY DEF RootsInv
<1>2. ASSUME NEW rel PROVE PathOf(Ref(roots[i].id, rel)) = roots[i].canonical \o rel
  <2>1. Ref(roots[i].id, rel).root = roots[i].id /\ Ref(roots[i].id, rel).rel = rel
    BY DEF Ref
  <2>2. {j \in DOMAIN roots : roots[j].id = roots[i].id} = {i}
    BY DEF RootsInv
  <2>3. (CHOOSE j \in {i} : TRUE) = i /\ {i} # {}
    OBVIOUS
  <2> QED BY <2>1, <2>2, <2>3 DEF PathOf
<1> QED BY <1>1, <1>2, PathsAre DEF Root

\* A visible file is found by its ref and by its path.
LEMMA VisibleFound ==
  ASSUME WalkerAssumption, RootsInv, NEW i \in DOMAIN roots, NEW p \in VisibleUnder(i)
  PROVE  LET r == Ref(roots[i].id, Rel(p, roots[i].canonical)) IN
         Absolute(r) = p /\ Entry(r) /\ Resolve(p) = r
<1> DEFINE c == roots[i].canonical
           r == Ref(roots[i].id, Rel(p, c))
<1>1. p \in Places /\ p \in Path /\ IsFile(p) /\ Under(p, c) /\ ~IsTorrentSkip(p) /\ c \in Path
  BY PathsAre, RootIs DEF VisibleUnder
<1>2. Rel(p, c) \in Path /\ c \o Rel(p, c) = p /\ Len(Rel(p, c)) = Len(p) - Len(c)
  BY <1>1, RelJoins
<1>3. {j \in DOMAIN roots : roots[j].id = roots[i].id} = {i}
  BY DEF RootsInv
<1>4. (CHOOSE j \in {i} : TRUE) = i /\ {i} # {}
  OBVIOUS
<1>5. Absolute(r) = p
  <2>1. r.root = roots[i].id /\ r.rel = Rel(p, c)
    BY DEF Ref
  <2>2. Len(p) \in Nat /\ Len(c) \in Nat /\ Len(c) <= Len(p)
    BY <1>1, UnderIs DEF Path
  <2>3. Len(p) - Len(r.rel) = Len(c)
    <3>1. Len(r.rel) = Len(p) - Len(c)
      BY <1>2, <2>1
    <3> HIDE DEF c, r
    <3> QED BY <2>2, <3>1
  <2>4. \A n \in Len(c) + 1 .. Len(p) : Exists(SubSeq(p, 1, n)) /\ SubSeq(p, 1, n) \notin Links
    <3> SUFFICES ASSUME NEW n \in Len(c) + 1 .. Len(p)
                 PROVE  Exists(SubSeq(p, 1, n)) /\ SubSeq(p, 1, n) \notin Links
      OBVIOUS
    <3>1. n \in 0 .. Len(p)
      BY <2>2
    <3>2. SubSeq(p, 1, n) \in Path /\ Under(p, SubSeq(p, 1, n))
      BY <1>1, <3>1, SubUnder
    <3> QED BY <1>1, <3>2, OnTheWay
  <2> HIDE DEF r
  <2>5. roots[CHOOSE j \in {k \in DOMAIN roots : roots[k].id = r.root} : TRUE].canonical \o r.rel = p
    BY <1>2, <1>3, <1>4, <2>1
  <2>6. {k \in DOMAIN roots : roots[k].id = r.root} # {}
    BY <1>3, <1>4, <2>1
  <2> HIDE DEF c
  <2> QED BY <1>1, <2>3, <2>4, <2>5, <2>6 DEF Absolute
<1>6. Entry(r)
  BY <1>1, <1>5 DEF Entry, WalkerAssumption
<1>7. Resolve(p) = r
  <2>1. Canonical(p) = p /\ Exists(p)
    BY <1>1, PathsAre DEF Exists
  <2>2. {j \in DOMAIN roots : Under(p, roots[j].canonical)} = {i}
    <3>1. ASSUME NEW j \in DOMAIN roots, Under(p, roots[j].canonical), j # i PROVE FALSE
      <4>1. roots[j].canonical \in Path
        BY RootIs
      <4>2. Under(c, roots[j].canonical) \/ Under(roots[j].canonical, c)
        BY <1>1, <3>1, <4>1, UnderCompare
      <4> QED BY <3>1, <4>2 DEF RootsInv
    <3> QED BY <1>1, <3>1
  <2>3. i \in Nat
    BY DEF RootsInv
  <2>4. (CHOOSE j \in {i} : \A k \in {i} : j <= k) = i
    BY <2>3
  <2>5. \E j \in DOMAIN roots : Under(p, roots[j].canonical) \/ Under(p, roots[j].original)
    BY <1>1
  <2> QED BY <1>1, <1>4, <2>1, <2>2, <2>4, <2>5 DEF Resolve
<1> QED BY <1>5, <1>6, <1>7

\* A path that resolves to a file leads to one that may be listed.
LEMMA ResolvedVisible ==
  ASSUME WalkerAssumption, RootsInv, NEW q, Resolve(q) # Absent, IsFile(Canonical(q))
  PROVE  Canonical(q) \in Visible /\ Entry(Resolve(q))
<1> DEFINE p == Canonical(q)
           hits == {i \in DOMAIN roots : Under(p, roots[i].canonical)}
           i == CHOOSE j \in hits : \A k \in hits : j <= k
<1>1. hits # {} /\ ~IsTorrentSkip(p) /\ Resolve(q) = Ref(roots[i].id, Rel(p, roots[i].canonical))
  BY DEF Resolve
<1>2. p \in Places /\ p \in Path
  BY PathsAre DEF IsFile
<1>3. \A j, k \in hits : j = k
  <2> SUFFICES ASSUME NEW j \in hits, NEW k \in hits, j # k PROVE FALSE
    OBVIOUS
  <2>1. roots[j].canonical \in Path /\ roots[k].canonical \in Path
    BY RootIs
  <2> QED BY <1>2, <2>1, UnderCompare DEF RootsInv
<1>4. i \in hits
  <2>1. PICK j \in hits : TRUE
    BY <1>1
  <2>2. j \in Nat
    BY DEF RootsInv
  <2>3. \A k \in hits : j <= k
    BY <1>3, <2>1, <2>2
  <2> QED BY <2>1, <2>3
<1> HIDE DEF i
<1>5. i \in DOMAIN roots /\ p \in VisibleUnder(i)
  BY <1>1, <1>2, <1>4 DEF VisibleUnder
<1> QED BY <1>1, <1>5, VisibleFound DEF Visible

\* A file has one reference: the roots are neither nested nor named alike.
LEMMA RefsDoAgree ==
  ASSUME WalkerAssumption, RootsInv
  PROVE  RefsAgree
BY VisibleFound, ResolvedVisible DEF RefsAgree

-----------------------------------------------------------------------------
(* The agenda of a listing                                                 *)

Item == [path : Path, id : Name, rel : Path, as : {"dir", "entry"}]
Agenda == Seq(SUBSET Item)

\* What is still to be looked at.
Open(agenda) == UNION {agenda[n] : n \in DOMAIN agenda}
NoEmpty(agenda) == \A n \in DOMAIN agenda : agenda[n] # {}

\* An agenda of one group of entries, or of none.
LEMMA OpenOne ==
  ASSUME NEW set \in SUBSET Item
  PROVE  LET one == IF set = {} THEN <<>> ELSE <<set>> IN
         one \in Agenda /\ Open(one) = set /\ NoEmpty(one)
<1>1. CASE set = {}
  BY <1>1 DEF Agenda, Open, NoEmpty
<1>2. CASE set # {}
  <2>1. <<set>> \in Agenda /\ DOMAIN <<set>> = {1} /\ <<set>>[1] = set
    BY DEF Agenda
  <2> QED BY <1>2, <2>1 DEF Open, NoEmpty
<1> QED BY <1>1, <1>2

\* The entries two agendas hold, one after the other.
LEMMA OpenJoin ==
  ASSUME NEW a \in Agenda, NEW b \in Agenda
  PROVE  /\ a \o b \in Agenda /\ Open(a \o b) = Open(a) \cup Open(b)
         /\ NoEmpty(a) /\ NoEmpty(b) => NoEmpty(a \o b)
<1> DEFINE j == a \o b
<1>1. /\ Len(a) \in Nat /\ Len(b) \in Nat /\ DOMAIN a = 1 .. Len(a) /\ DOMAIN b = 1 .. Len(b)
      /\ j \in Agenda /\ DOMAIN j = 1 .. Len(a) + Len(b)
      /\ \A n \in 1 .. Len(a) : j[n] = a[n]
      /\ \A n \in Len(a) + 1 .. Len(a) + Len(b) : j[n] = b[n - Len(a)]
  BY DEF Agenda
<1>2. \A n \in 1 .. Len(b) : n + Len(a) \in Len(a) + 1 .. Len(a) + Len(b) /\ (n + Len(a)) - Len(a) = n
  BY <1>1
<1>3. \A n \in DOMAIN j : n \in DOMAIN a \/ (n - Len(a) \in DOMAIN b /\ n \in Len(a) + 1 .. Len(a) + Len(b))
  BY <1>1
<1>4. DOMAIN a \subseteq DOMAIN j /\ \A n \in DOMAIN b : n + Len(a) \in DOMAIN j /\ j[n + Len(a)] = b[n]
  BY <1>1, <1>2
<1> HIDE DEF j
<1>5. Open(j) \subseteq Open(a) \cup Open(b)
  BY <1>1, <1>3 DEF Open
<1>6. Open(a) \subseteq Open(j)
  BY <1>1, <1>4 DEF Open
<1>7. Open(b) \subseteq Open(j)
  BY <1>1, <1>4 DEF Open
<1>8. NoEmpty(a) /\ NoEmpty(b) => NoEmpty(j)
  BY <1>1, <1>3 DEF NoEmpty
<1> QED BY <1>1, <1>5, <1>6, <1>7, <1>8 DEF j

\* The entries of an agenda are those of its first group and of the rest.
LEMMA OpenTail ==
  ASSUME NEW a \in Agenda, a # <<>>
  PROVE  /\ Head(a) \in SUBSET Item /\ Tail(a) \in Agenda
         /\ Open(a) = Head(a) \cup Open(Tail(a)) /\ (NoEmpty(a) => NoEmpty(Tail(a)))
<1> DEFINE t == Tail(a)
<1>1. /\ Len(a) \in Nat /\ Len(a) >= 1 /\ DOMAIN a = 1 .. Len(a) /\ Head(a) = a[1] /\ a[1] \in SUBSET Item
      /\ t \in Agenda /\ DOMAIN t = 1 .. Len(a) - 1 /\ \A n \in 1 .. Len(a) - 1 : t[n] = a[n + 1]
  BY DEF Agenda
<1>2. \A n \in DOMAIN a : n = 1 \/ (n - 1 \in DOMAIN t /\ t[n - 1] = a[n])
  BY <1>1
<1>3. \A n \in DOMAIN t : n + 1 \in DOMAIN a /\ t[n] = a[n + 1]
  BY <1>1
<1>4. 1 \in DOMAIN a
  BY <1>1
<1> HIDE DEF t
<1>5. Open(a) \subseteq Head(a) \cup Open(t)
  BY <1>1, <1>2 DEF Open
<1>6. Head(a) \cup Open(t) \subseteq Open(a)
  BY <1>1, <1>3, <1>4 DEF Open
<1>7. NoEmpty(a) => NoEmpty(t)
  BY <1>3 DEF NoEmpty
<1> QED BY <1>1, <1>5, <1>6, <1>7 DEF t

\* The agenda that Onward leaves.
NextAgenda(agenda, item, more) ==
    LET level == Head(agenda) \ {item} IN
    (IF more = {} THEN <<>> ELSE <<more>>) \o (IF level = {} THEN <<>> ELSE <<level>>) \o Tail(agenda)

\* What Onward leaves open: everything but the item, and the further items.
LEMMA OnwardOpen ==
  ASSUME NEW agenda \in Agenda, agenda # <<>>, NoEmpty(agenda), NEW item \in Head(agenda),
         NEW more \in SUBSET Item
  PROVE  LET next == NextAgenda(agenda, item, more)
         IN  /\ next \in Agenda /\ NoEmpty(next) /\ more \subseteq Open(next)
             /\ Open(next) \subseteq more \cup Open(agenda) /\ Open(agenda) \subseteq Open(next) \cup {item}
             /\ item \in Open(agenda) /\ item \in Item
<1> DEFINE level == Head(agenda) \ {item}
           a == IF more = {} THEN <<>> ELSE <<more>>
           b == IF level = {} THEN <<>> ELSE <<level>>
           t == Tail(agenda)
<1>1. level \in SUBSET Item /\ t \in Agenda /\ NoEmpty(t) /\ Open(agenda) = Head(agenda) \cup Open(t) /\ item \in Item
  BY OpenTail
<1>2. a \in Agenda /\ Open(a) = more /\ NoEmpty(a)
  BY OpenOne
<1>3. b \in Agenda /\ Open(b) = level /\ NoEmpty(b)
  BY <1>1, OpenOne
<1> HIDE DEF a, b, t
<1>4. a \o b \in Agenda /\ Open(a \o b) = more \cup level /\ NoEmpty(a \o b)
  BY <1>2, <1>3, OpenJoin
<1>5. /\ (a \o b) \o t \in Agenda /\ Open((a \o b) \o t) = more \cup level \cup Open(t)
      /\ NoEmpty((a \o b) \o t)
  BY <1>1, <1>4, OpenJoin
<1> QED BY <1>1, <1>5 DEF a, b, t, NextAgenda

-----------------------------------------------------------------------------
(* A listing under way                                                     *)

WalkFields == {"agenda", "got", "partial", "skipped", "failed", "steady", "ever", "afoot", "saw"}
GotRef == [root : Name, rel : Path]

\* An item's path is its root's and its rel.
Placed(x) == \E i \in DOMAIN roots : x.id = roots[i].id /\ x.path = roots[i].canonical \o x.rel

\* A file is listed, below what was skipped, or below what is still open.
Covered(w, p) ==
    \/ \E i \in DOMAIN w.got : PathOf(w.got[i]) = p
    \/ \E s \in w.skipped : Under(p, s)
    \/ \E x \in Open(w.agenda) : Under(p, x.path)

WalkOK(w) ==
    /\ DOMAIN w = WalkFields
    /\ w.agenda \in Agenda /\ NoEmpty(w.agenda) /\ \A x \in Open(w.agenda) : Placed(x)
    /\ w.got \in Seq(GotRef) /\ \A i \in DOMAIN w.got : PathOf(w.got[i]) \in w.ever
    /\ w.steady \subseteq Visible /\ Visible \subseteq w.ever
    /\ w.partial \in BOOLEAN /\ w.failed \in BOOLEAN
    /\ w.partial => ~w.failed
    /\ ~w.partial => w.skipped = {}
    /\ ~w.failed => \A p \in w.steady : Covered(w, p)

WalkInv == walk # Absent => WalkOK(walk)

\* While the file system stands still a sound walk stays sound.
LEMMA Frozen ==
  ASSUME roots' = roots, dir' = dir, at' = at, NEW w, WalkOK(w), walk' = w
  PROVE  WalkInv'
<1>1. Visible' = Visible
  BY DEF Visible, VisibleUnder, IsFile, Reached, Ancestors
<1>2. \A r : PathOf(r)' = PathOf(r)
  BY DEF PathOf
<1>3. \A x : Placed(x)' <=> Placed(x)
  BY DEF Placed
<1>4. \A p : Covered(walk, p)' <=> Covered(w, p)
  BY <1>2 DEF Covered
<1> QED BY <1>1, <1>2, <1>3, <1>4 DEF WalkInv, WalkOK

\* Going on changes the agenda of a walk and nothing else.
LEMMA OnwardFields ==
  ASSUME DOMAIN walk = WalkFields, NEW item, NEW more
  PROVE  LET w == Onward(item, more)
         IN  /\ DOMAIN w = WalkFields /\ w.agenda = NextAgenda(walk.agenda, item, more)
             /\ w.got = walk.got /\ w.partial = walk.partial /\ w.skipped = walk.skipped /\ w.failed = walk.failed
             /\ w.steady = walk.steady /\ w.ever = walk.ever /\ w.saw = walk.saw
BY DEF Onward, NextAgenda, WalkFields

\* A step of the walk that goes past an item.
LEMMA GoesPast ==
  ASSUME WalkOK(walk), walk.agenda # <<>>, NEW item \in Head(walk.agenda),
         NEW more \in SUBSET Item, \A x \in more : Placed(x),
         NEW w, DOMAIN w = WalkFields, w.agenda = Onward(item, more).agenda,
         w.partial = walk.partial, w.failed = walk.failed, w.steady = walk.steady, w.ever = walk.ever,
         w.got \in Seq(GotRef), DOMAIN walk.got \subseteq DOMAIN w.got,
         \A i \in DOMAIN walk.got : w.got[i] = walk.got[i],
         \A i \in DOMAIN w.got : PathOf(w.got[i]) \in w.ever,
         walk.skipped \subseteq w.skipped, ~walk.partial => w.skipped = {},
         \A p \in walk.steady : Under(p, item.path) => Covered(w, p)
  PROVE  WalkOK(w)
<1>1. /\ w.agenda \in Agenda /\ NoEmpty(w.agenda)
      /\ Open(w.agenda) \subseteq more \cup Open(walk.agenda) /\ Open(walk.agenda) \subseteq Open(w.agenda) \cup {item}
  <2> DEFINE next == NextAgenda(walk.agenda, item, more)
  <2>1. DOMAIN walk = WalkFields /\ walk.agenda \in Agenda /\ NoEmpty(walk.agenda)
    BY DEF WalkOK
  <2>2. w.agenda = next
    BY <2>1, OnwardFields
  <2>3. /\ next \in Agenda /\ NoEmpty(next)
        /\ Open(next) \subseteq more \cup Open(walk.agenda) /\ Open(walk.agenda) \subseteq Open(next) \cup {item}
    BY <2>1, OnwardOpen
  <2> HIDE DEF next
  <2> QED BY <2>2, <2>3
<1>2. \A x \in Open(w.agenda) : Placed(x)
  BY <1>1 DEF WalkOK
<1>3. \A p \in w.steady : Covered(walk, p) => Covered(w, p)
  <2> SUFFICES ASSUME NEW p \in walk.steady, Covered(walk, p) PROVE Covered(w, p)
    OBVIOUS
  <2>1. CASE \E i \in DOMAIN walk.got : PathOf(walk.got[i]) = p
    BY <2>1 DEF Covered
  <2>2. CASE \E s \in walk.skipped : Under(p, s)
    BY <2>2 DEF Covered
  <2>3. CASE \E x \in Open(walk.agenda) : Under(p, x.path)
    BY <1>1, <2>3 DEF Covered
  <2> QED BY <2>1, <2>2, <2>3 DEF Covered
<1> QED BY <1>1, <1>2, <1>3 DEF WalkOK

\* note: a strict listing fails, a partial one remembers the path.
LEMMA NoteStep ==
  ASSUME WalkOK(walk), walk.agenda # <<>>, NEW item \in Head(walk.agenda)
  PROVE  WalkOK(Note(item))
<1> DEFINE w == Note(item)
<1>0. DOMAIN walk = WalkFields /\ walk.partial \in BOOLEAN
  BY DEF WalkOK
<1>1. CASE walk.partial
  <2> DEFINE o == Onward(item, {})
  <2>1. /\ DOMAIN o = WalkFields /\ o.got = walk.got /\ o.partial = walk.partial /\ o.skipped = walk.skipped
        /\ o.failed = walk.failed /\ o.steady = walk.steady /\ o.ever = walk.ever
    BY <1>0, OnwardFields
  <2>2. w = [o EXCEPT !.skipped = @ \cup {item.path}]
    BY <1>1 DEF Note
  <2> HIDE DEF o, w
  <2>3. /\ DOMAIN w = WalkFields /\ w.agenda = o.agenda /\ w.got = walk.got /\ w.partial = walk.partial
        /\ w.skipped = walk.skipped \cup {item.path}
        /\ w.failed = walk.failed /\ w.steady = walk.steady /\ w.ever = walk.ever
    BY <2>1, <2>2 DEF WalkFields
  <2>4. \A p \in walk.steady : Under(p, item.path) => Covered(w, p)
    BY <2>3 DEF Covered
  <2>5. /\ w.got \in Seq(GotRef) /\ DOMAIN walk.got \subseteq DOMAIN w.got
        /\ \A i \in DOMAIN walk.got : w.got[i] = walk.got[i]
        /\ \A i \in DOMAIN w.got : PathOf(w.got[i]) \in w.ever
    BY <2>3 DEF WalkOK
  <2>6. WalkOK(w)
    BY <1>1, <2>3, <2>4, <2>5, GoesPast DEF o
  <2> QED BY <2>6 DEF w
<1>2. CASE ~walk.partial
  <2>1. w = [walk EXCEPT !.failed = TRUE]
    BY <1>2 DEF Note
  <2> HIDE DEF w
  <2>2. /\ DOMAIN w = WalkFields /\ w.agenda = walk.agenda /\ w.got = walk.got /\ w.partial = walk.partial
        /\ w.skipped = walk.skipped /\ w.failed = TRUE /\ w.steady = walk.steady /\ w.ever = walk.ever
    BY <1>0, <2>1 DEF WalkFields
  <2>3. WalkOK(w)
    BY <1>2, <2>2 DEF WalkOK
  <2> QED BY <2>3 DEF w
<1> QED BY <1>0, <1>1, <1>2

\* Onward with further items, which lead to all that the item led to.
LEMMA OnwardStep ==
  ASSUME WalkOK(walk), walk.agenda # <<>>, NEW item \in Head(walk.agenda),
         NEW more \in SUBSET Item, \A x \in more : Placed(x),
         \A p \in walk.steady : Under(p, item.path) => \E x \in more : Under(p, x.path)
  PROVE  WalkOK(Onward(item, more))
<1> DEFINE w == Onward(item, more)
           next == NextAgenda(walk.agenda, item, more)
<1>0. DOMAIN walk = WalkFields /\ walk.agenda \in Agenda /\ NoEmpty(walk.agenda)
  BY DEF WalkOK
<1>1. /\ DOMAIN w = WalkFields /\ w.got = walk.got /\ w.partial = walk.partial /\ w.skipped = walk.skipped
      /\ w.failed = walk.failed /\ w.steady = walk.steady /\ w.ever = walk.ever /\ w.agenda = next
  BY <1>0, OnwardFields
<1>2. more \subseteq Open(next)
  BY <1>0, OnwardOpen
<1> HIDE DEF next
<1>3. \A p \in walk.steady : Under(p, item.path) => Covered(w, p)
  BY <1>1, <1>2 DEF Covered
<1>4. /\ w.got \in Seq(GotRef) /\ DOMAIN walk.got \subseteq DOMAIN w.got
      /\ \A i \in DOMAIN walk.got : w.got[i] = walk.got[i]
      /\ \A i \in DOMAIN w.got : PathOf(w.got[i]) \in w.ever
      /\ ~walk.partial => w.skipped = {}
  BY <1>1 DEF WalkOK
<1> QED BY <1>1, <1>3, <1>4, GoesPast

\* What an item of the agenda is.
LEMMA ItemIs ==
  ASSUME WalkerAssumption, RootsInv, WalkOK(walk), walk.agenda # <<>>, NEW item \in Head(walk.agenda)
  PROVE  /\ item \in Item /\ item.path \in Path /\ item.rel \in Path /\ item.id \in Name
         /\ \E i \in DOMAIN roots : /\ item.id = roots[i].id /\ item.path = roots[i].canonical \o item.rel
                                    /\ Under(item.path, roots[i].canonical)
         /\ PathOf(Ref(item.id, item.rel)) = item.path
<1>1. item \in Item /\ item \in Open(walk.agenda)
  BY OpenTail DEF WalkOK
<1>2. PICK i \in DOMAIN roots : item.id = roots[i].id /\ item.path = roots[i].canonical \o item.rel
  BY <1>1 DEF WalkOK, Placed
<1>3. item.path \in Path /\ item.rel \in Path /\ item.id \in Name
  BY <1>1 DEF Item
<1>4. roots[i].canonical \in Path /\ PathOf(Ref(roots[i].id, item.rel)) = roots[i].canonical \o item.rel
  BY RootIs
<1>5. Under(item.path, roots[i].canonical)
  BY <1>2, <1>3, <1>4, JoinUnder
<1> QED BY <1>1, <1>2, <1>3, <1>4, <1>5

\* read_dir loses no steady file: each is under an entry it adds, or skipped.
LEMMA ReadDirStep ==
  ASSUME WalkerAssumption, RootsInv, WalkOK(walk), walk.agenda # <<>>, NEW item \in Head(walk.agenda)
  PROVE  WalkOK(ReadDir(item))
<1> DEFINE d == item.path
           Found(p) == [path |-> p, id |-> item.id, rel |-> Append(item.rel, Last(p)), as |-> "entry"]
           more == {Found(p) : p \in Children(d)}
<1>1. CASE ~IsDir(d) \/ (IF d \in Dirs THEN dir[d] = "shut" ELSE FALSE)
  BY <1>1, NoteStep DEF ReadDir
<1>2. CASE ~(~IsDir(d) \/ (IF d \in Dirs THEN dir[d] = "shut" ELSE FALSE))
  <2>1. ReadDir(item) = Onward(item, more) /\ d \in Dirs
    BY <1>2 DEF ReadDir, IsDir
  <2>2. PICK i \in DOMAIN roots : item.id = roots[i].id /\ d = roots[i].canonical \o item.rel
    BY ItemIs
  <2>3. d \in Path /\ item.rel \in Path /\ item.id \in Name /\ roots[i].canonical \in Path
    BY ItemIs, RootIs
  <2>4. ASSUME NEW c \in Children(d)
        PROVE  c \in Path /\ Append(item.rel, Last(c)) \in Path /\ c = roots[i].canonical \o Append(item.rel, Last(c))
    <3>1. c \in Path /\ c # <<>> /\ Parent(c) = d
      BY PathsAre DEF Children
    <3>2. Last(c) \in Name /\ c = Append(d, Last(c))
      BY <3>1, ParentJoins
    <3> DEFINE x == Last(c)
    <3> HIDE DEF d, x
    <3>3. Append(item.rel, x) \in Path /\ roots[i].canonical \o Append(item.rel, x) = Append(d, x)
      BY <2>2, <2>3, <3>2, JoinAppend DEF x
    <3> QED BY <3>1, <3>2, <3>3 DEF x
  <2>5. more \in SUBSET Item /\ \A x \in more : Placed(x)
    <3>1. ASSUME NEW c \in Children(d) PROVE Found(c) \in Item /\ Placed(Found(c))
      <4> DEFINE rel == Append(item.rel, Last(c))
      <4>1. c \in Path /\ rel \in Path /\ c = roots[i].canonical \o rel
        BY <2>4
      <4> HIDE DEF rel
      <4>2. [path |-> c, id |-> item.id, rel |-> rel, as |-> "entry"] \in Item
        BY <2>3, <4>1 DEF Item
      <4>3. Placed([path |-> c, id |-> item.id, rel |-> rel, as |-> "entry"])
        BY <2>2, <4>1 DEF Placed
      <4> QED BY <4>2, <4>3 DEF rel
    <3> HIDE DEF Found, d
    <3> QED BY <3>1
  <2>6. ASSUME NEW p \in walk.steady, Under(p, d) PROVE \E x \in more : Under(p, x.path)
    <3>1. IsFile(p)
      BY DEF WalkOK, Visible, VisibleUnder
    <3>2. PICK c \in Children(d) : Under(p, c)
      BY <2>1, <2>6, <3>1, NextEntry
    <3>3. Found(c).path = c
      OBVIOUS
    <3> HIDE DEF Found, d
    <3> QED BY <3>2, <3>3
  <2> HIDE DEF more
  <2> QED BY <2>1, <2>5, <2>6, OnwardStep
<1> QED BY <1>1, <1>2

\* A file that is listed.
LEMMA ListedStep ==
  ASSUME WalkerAssumption, RootsInv, WalkOK(walk), walk.agenda # <<>>, NEW item \in Head(walk.agenda),
         ~IsTorrentSkip(item.path), IsFile(item.path)
  PROVE  WalkOK(Listed(item))
<1> DEFINE w == Listed(item)
           o == Onward(item, {})
           ref == Ref(item.id, item.rel)
<1>0. DOMAIN walk = WalkFields /\ walk.got \in Seq(GotRef) /\ Visible \subseteq walk.ever
  BY DEF WalkOK
<1>1. /\ DOMAIN o = WalkFields /\ o.got = walk.got /\ o.partial = walk.partial /\ o.skipped = walk.skipped
      /\ o.failed = walk.failed /\ o.steady = walk.steady /\ o.ever = walk.ever
  BY <1>0, OnwardFields
<1>2. w = [o EXCEPT !.got = Append(@, ref), !.saw = @ \cup {at[Canonical(item.path)]}]
  BY DEF Listed
<1>3. ref \in GotRef /\ PathOf(ref) = item.path
  BY ItemIs DEF Ref, GotRef
<1>4. item.path \in Visible
  <2>1. PICK i \in DOMAIN roots : Under(item.path, roots[i].canonical)
    BY ItemIs
  <2>2. item.path \in VisibleUnder(i)
    BY <2>1 DEF VisibleUnder, IsFile
  <2> QED BY <2>2 DEF Visible
<1> HIDE DEF o, w, ref
<1>5. /\ DOMAIN w = WalkFields /\ w.agenda = o.agenda /\ w.got = Append(walk.got, ref) /\ w.partial = walk.partial
      /\ w.skipped = walk.skipped
      /\ w.failed = walk.failed /\ w.steady = walk.steady /\ w.ever = walk.ever
  BY <1>1, <1>2 DEF WalkFields
<1>6. /\ w.got \in Seq(GotRef) /\ DOMAIN walk.got \subseteq DOMAIN w.got
      /\ DOMAIN w.got = DOMAIN walk.got \cup {Len(walk.got) + 1}
      /\ \A i \in DOMAIN walk.got : w.got[i] = walk.got[i]
      /\ w.got[Len(walk.got) + 1] = ref
  BY <1>0, <1>3, <1>5
<1>7. \A i \in DOMAIN w.got : PathOf(w.got[i]) \in w.ever
  BY <1>0, <1>3, <1>4, <1>5, <1>6 DEF WalkOK
<1>8. ASSUME NEW p \in walk.steady, Under(p, item.path) PROVE Covered(w, p)
  <2>1. IsFile(p) /\ p \in Places /\ item.path \in Path /\ item.path \in Places
    BY ItemIs DEF WalkOK, Visible, VisibleUnder, IsFile
  <2>2. item.path = p
    BY <1>8, <2>1, OnTheWay DEF IsDir, WalkerAssumption
  <2> QED BY <1>3, <1>6, <2>2 DEF Covered
<1>9. ~walk.partial => w.skipped = {}
  BY <1>5 DEF WalkOK
<1>10. WalkOK(w)
  BY <1>5, <1>6, <1>7, <1>8, <1>9, GoesPast DEF o
<1> QED BY <1>10 DEF w

\* Looking at an entry lists it, skips it, or opens it as a directory.
LEMMA LookAtStep ==
  ASSUME WalkerAssumption, RootsInv, WalkOK(walk), walk.agenda # <<>>, NEW item \in Head(walk.agenda)
  PROVE  WalkOK(LookAt(item))
<1> DEFINE d == item.path
<1>1. d \in Path /\ item \in Item /\ Placed(item)
  BY ItemIs DEF Placed
<1>2. \A p \in walk.steady : p \in Path /\ IsFile(p) /\ ~IsTorrentSkip(p)
  BY PathsAre DEF WalkOK, Visible, VisibleUnder
<1>3. ASSUME \A p \in walk.steady : ~Under(p, d) PROVE WalkOK(Onward(item, {}))
  BY <1>3, OnwardStep
<1>4. CASE IsTorrentSkip(d)
  <2>1. \A p \in walk.steady : ~Under(p, d)
    BY <1>1, <1>2, <1>4, SkipGrows
  <2> QED BY <1>3, <1>4, <2>1 DEF LookAt
<1>5. CASE ~IsTorrentSkip(d) /\ ~Exists(d)
  BY <1>5, NoteStep DEF LookAt
<1>6. CASE ~IsTorrentSkip(d) /\ Exists(d) /\ d \in Links
  <2>1. \A p \in walk.steady : ~Under(p, d)
    BY <1>1, <1>2, <1>6, OnTheWay
  <2> QED BY <1>3, <1>6, <2>1 DEF LookAt
<1>7. CASE ~IsTorrentSkip(d) /\ Exists(d) /\ d \notin Links /\ IsDir(d)
  <2> DEFINE x == [item EXCEPT !.as = "dir"]
  <2>1. LookAt(item) = Onward(item, {x})
    BY <1>7 DEF LookAt
  <2>2. x \in Item /\ x.path = d /\ x.id = item.id /\ x.rel = item.rel
    BY <1>1 DEF Item
  <2> HIDE DEF x
  <2>3. Placed(x)
    BY <1>1, <2>2 DEF Placed
  <2> QED BY <2>1, <2>2, <2>3, OnwardStep
<1>8. CASE ~IsTorrentSkip(d) /\ Exists(d) /\ d \notin Links /\ ~IsDir(d)
  <2>1. LookAt(item) = Listed(item) /\ IsFile(d)
    BY <1>8 DEF LookAt, Exists
  <2> QED BY <1>8, <2>1, ListedStep
<1> QED BY <1>4, <1>5, <1>6, <1>7, <1>8

-----------------------------------------------------------------------------
(* The steps                                                               *)

ListingInv == ListingComplete /\ OnlyRealFiles /\ PartialReportsAll

WalkerInv == RootsInv /\ WalkInv /\ ListingInv

\* Before the configuration is read there are no roots and no walk.
LEMMA WalkerStarts == ASSUME WalkerAssumption, WalkerInit PROVE WalkerInv
<1>1. RootsInv
  <2>1. roots = <<>> /\ args \in ArgChoices /\ walk = Absent /\ listing = Absent
    BY DEF WalkerInit
  <2>2. args \in Seq(GivenRoot)
    BY <2>1, PathsAre DEF GivenRoot
  <2>3. roots \in Seq(Root) /\ DOMAIN roots = {}
    BY <2>1
  <2> QED BY <2>1, <2>2, <2>3 DEF RootsInv
<1>2. WalkInv /\ ListingInv
  BY DEF WalkerInit, WalkInv, ListingInv, ListingComplete, OnlyRealFiles, PartialReportsAll
<1> QED BY <1>1, <1>2 DEF WalkerInv

\* A finished listing stands while nothing replaces it.
LEMMA ListingKept ==
  ASSUME ListingInv, listing' = listing, roots' = roots
  PROVE  ListingInv'
<1>1. \A r : PathOf(r)' = PathOf(r)
  BY DEF PathOf
<1> QED BY <1>1 DEF ListingInv, ListingComplete, OnlyRealFiles, PartialReportsAll

\* The roots are fixed once the daemon serves.
LEMMA RootsKept ==
  ASSUME RootsInv, roots' = roots, args' = args, daemon' = daemon, listing' = listing,
         walk = Absent => walk' = Absent
  PROVE  RootsInv'
BY DEF RootsInv

\* The roots given are canonical, named apart and not nested, or the daemon stops.
LEMMA AddRootStep ==
  ASSUME WalkerAssumption, WalkerInv, AddRoot
  PROVE  WalkerInv'
<1>1. walk = Absent /\ listing = Absent /\ walk' = Absent /\ listing' = Absent
  BY DEF WalkerInv, RootsInv, AddRoot
<1>2. WalkInv' /\ ListingInv'
  BY <1>1 DEF WalkInv, ListingInv, ListingComplete, OnlyRealFiles, PartialReportsAll
<1>3. RootsInv'
  <2>1. CASE roots' = roots /\ args' = args
    BY <1>1, <2>1 DEF WalkerInv, RootsInv
  <2>2. CASE ~Refused(Head(args).id, Head(args).path)
    <3> DEFINE id == Head(args).id
               path == Head(args).path
               c == Canonical(path)
               new == [id |-> id, original |-> path, canonical |-> c]
    <3>0. args \in Seq(GivenRoot) /\ args # <<>> /\ roots \in Seq(Root)
      BY DEF AddRoot, WalkerInv, RootsInv
    <3>1. Head(args) \in GivenRoot /\ Tail(args) \in Seq(GivenRoot)
      BY <3>0
    <3>2. roots' = Append(roots, new) /\ args' = Tail(args)
      BY <2>2 DEF AddRoot
    <3>3. id \in Name /\ path \in Path
      BY <3>1 DEF GivenRoot
    <3>4. c \in Dirs /\ \A i \in DOMAIN roots : /\ roots[i].id # id /\ ~Under(c, roots[i].canonical)
                                               /\ ~Under(roots[i].canonical, c)
      BY <2>2 DEF Refused, IsDir
    <3> HIDE DEF id, path, c
    <3>5. new \in Root /\ new.id = id /\ new.canonical = c
      BY <3>3, <3>4 DEF Root
    <3> HIDE DEF new
    <3>6. /\ roots' \in Seq(Root) /\ DOMAIN roots' = DOMAIN roots \cup {Len(roots) + 1}
          /\ \A i \in DOMAIN roots : roots'[i] = roots[i]
          /\ roots'[Len(roots) + 1] = new
      BY <3>0, <3>2, <3>5
    <3>7. ASSUME NEW i \in DOMAIN roots', NEW j \in DOMAIN roots', i # j
          PROVE  roots'[i].id # roots'[j].id /\ ~Under(roots'[i].canonical, roots'[j].canonical)
      <4>1. CASE i \in DOMAIN roots /\ j \in DOMAIN roots
        BY <3>6, <3>7, <4>1 DEF WalkerInv, RootsInv
      <4>2. CASE i \in DOMAIN roots /\ j = Len(roots) + 1
        BY <3>4, <3>5, <3>6, <4>2
      <4>3. CASE i = Len(roots) + 1 /\ j \in DOMAIN roots
        BY <3>4, <3>5, <3>6, <4>3
      <4> QED BY <3>6, <3>7, <4>1, <4>2, <4>3
    <3> QED BY <1>1, <3>1, <3>2, <3>6, <3>7 DEF RootsInv, Under
  <2> QED BY <2>1, <2>2 DEF AddRoot
<1> QED BY <1>2, <1>3 DEF WalkerInv

\* A walk starts with every root open: each visible file is under one.
LEMMA StartWalkStep ==
  ASSUME WalkerAssumption, WalkerInv, StartWalk
  PROVE  WalkerInv'
<1> DEFINE Top(i) == [path |-> roots[i].canonical, id |-> roots[i].id, rel |-> <<>>, as |-> "dir"]
           agenda == [i \in DOMAIN roots |-> {Top(i)}]
<1>0. RootsInv /\ ListingInv
  BY DEF WalkerInv
<1>1. PICK partial \in BOOLEAN :
        walk' = [agenda |-> agenda,
                 got |-> <<>>, partial |-> partial, skipped |-> {}, failed |-> FALSE,
                 steady |-> Visible, ever |-> Visible, afoot |-> {at[p] : p \in Visible}, saw |-> {}]
  BY DEF StartWalk
<1>2. ASSUME NEW i \in DOMAIN roots
      PROVE  Top(i) \in Item /\ Placed(Top(i)) /\ Top(i).path = roots[i].canonical
  <2>1. roots[i].id \in Name /\ roots[i].canonical \in Path
    BY <1>0, RootIs
  <2>2. <<>> \in Path /\ roots[i].canonical \o <<>> = roots[i].canonical
    BY <2>1 DEF Path
  <2>3. Top(i) \in Item
    BY <2>1, <2>2 DEF Item
  <2> QED BY <2>2, <2>3 DEF Placed
<1> HIDE DEF Top
<1>3. DOMAIN roots = 1 .. Len(roots) /\ Len(roots) \in Nat
  BY <1>0 DEF RootsInv
<1>4. agenda \in Agenda /\ DOMAIN agenda = DOMAIN roots /\ \A i \in DOMAIN roots : agenda[i] = {Top(i)}
  BY <1>2, <1>3 DEF Agenda
<1> HIDE DEF agenda
<1>5. NoEmpty(agenda) /\ Open(agenda) = {Top(i) : i \in DOMAIN roots}
  BY <1>4 DEF NoEmpty, Open
<1> DEFINE w == [agenda |-> agenda,
                 got |-> <<>>, partial |-> partial, skipped |-> {}, failed |-> FALSE,
                 steady |-> Visible, ever |-> Visible, afoot |-> {at[p] : p \in Visible}, saw |-> {}]
<1>6. /\ DOMAIN w = WalkFields /\ w.agenda = agenda /\ w.got = <<>> /\ w.partial = partial /\ w.skipped = {}
      /\ w.failed = FALSE /\ w.steady = Visible /\ w.ever = Visible
  BY DEF WalkFields
<1>7. walk' = w
  BY <1>1
<1> HIDE DEF w
<1>8. ASSUME NEW p \in Visible PROVE Covered(w, p)
  <2>1. PICK i \in DOMAIN roots : Under(p, roots[i].canonical)
    BY DEF Visible, VisibleUnder
  <2> QED BY <1>2, <1>5, <1>6, <2>1 DEF Covered
<1>9. WalkOK(w)
  <2>1. w.got \in Seq(GotRef) /\ DOMAIN w.got = {}
    BY <1>6
  <2>2. w.agenda \in Agenda /\ NoEmpty(w.agenda) /\ \A x \in Open(w.agenda) : Placed(x)
    BY <1>2, <1>4, <1>5, <1>6
  <2>3. w.steady \subseteq Visible /\ Visible \subseteq w.ever /\ w.partial \in BOOLEAN /\ w.failed \in BOOLEAN
    BY <1>6
  <2>4. \A p \in w.steady : Covered(w, p)
    BY <1>6, <1>8
  <2>5. ~w.failed /\ w.skipped = {}
    BY <1>6
  <2> QED BY <1>6, <2>1, <2>2, <2>3, <2>4, <2>5 DEF WalkOK
<1>10. roots' = roots /\ dir' = dir /\ at' = at /\ args' = args /\ daemon' = daemon /\ daemon = "serving" /\ listing' = listing
  BY DEF StartWalk
<1>11. WalkInv'
  BY <1>7, <1>9, <1>10, Frozen
<1>12. RootsInv' /\ ListingInv'
  BY <1>0, <1>10, ListingKept DEF RootsInv
<1> QED BY <1>11, <1>12 DEF WalkerInv

\* One entry of the agenda, read or looked at.
LEMMA WalkStep ==
  ASSUME WalkerAssumption, WalkerInv, Walk
  PROVE  WalkerInv'
<1>0. RootsInv /\ ListingInv /\ walk # Absent /\ WalkOK(walk) /\ walk.agenda # <<>>
  BY DEF WalkerInv, WalkInv, Walk
<1>1. PICK item \in Head(walk.agenda) : walk' = IF item.as = "dir" THEN ReadDir(item) ELSE LookAt(item)
  BY DEF Walk
<1>2. WalkOK(ReadDir(item)) /\ WalkOK(LookAt(item))
  BY <1>0, ReadDirStep, LookAtStep
<1>3. roots' = roots /\ dir' = dir /\ at' = at /\ args' = args /\ daemon' = daemon /\ listing' = listing
  BY DEF Walk
<1>4. WalkInv'
  BY <1>1, <1>2, <1>3, Frozen
<1> QED BY <1>0, <1>3, <1>4, ListingKept, RootsKept DEF WalkerInv

\* At the end nothing is open: each steady file is listed or under a skipped path.
LEMMA EndWalkStep ==
  ASSUME WalkerAssumption, WalkerInv, EndWalk
  PROVE  WalkerInv'
<1>0. RootsInv /\ walk # Absent /\ WalkOK(walk) /\ (walk.failed \/ walk.agenda = <<>>)
  BY DEF WalkerInv, WalkInv, EndWalk
<1>1. /\ roots' = roots /\ args' = args /\ daemon' = daemon /\ walk' = Absent
      /\ listing' = [ok |-> ~walk.failed, got |-> walk.got, partial |-> walk.partial, skipped |-> walk.skipped,
                     steady |-> walk.steady, ever |-> walk.ever, afoot |-> walk.afoot, saw |-> walk.saw]
  BY DEF EndWalk
<1>2. RootsInv' /\ WalkInv'
  BY <1>0, <1>1 DEF RootsInv, WalkInv
<1>3. /\ listing'.ok = ~walk.failed /\ listing'.got = walk.got /\ listing'.partial = walk.partial
      /\ listing'.skipped = walk.skipped /\ listing'.steady = walk.steady /\ listing'.ever = walk.ever
  BY <1>1
<1>4. \A r : PathOf(r)' = PathOf(r)
  BY <1>1 DEF PathOf
<1>5. ASSUME ~walk.failed, NEW p \in walk.steady
      PROVE  (\E i \in DOMAIN walk.got : PathOf(walk.got[i]) = p) \/ (\E s \in walk.skipped : Under(p, s))
  <2>1. Open(walk.agenda) = {}
    BY <1>0, <1>5 DEF Open
  <2> QED BY <1>0, <1>5, <2>1 DEF WalkOK, Covered
<1>6. ListingComplete'
  BY <1>0, <1>3, <1>4, <1>5 DEF ListingComplete, WalkOK
<1>7. OnlyRealFiles'
  BY <1>0, <1>3, <1>4 DEF OnlyRealFiles, WalkOK
<1>8. PartialReportsAll'
  BY <1>0, <1>3, <1>4, <1>5 DEF PartialReportsAll, WalkOK, Under
<1> QED BY <1>2, <1>6, <1>7, <1>8 DEF WalkerInv, ListingInv

\* The file system moves under a listing: what stays covered was covered.
LEMMA ChangeStep ==
  ASSUME WalkerAssumption, WalkerInv, Come \/ Go \/ Rename \/ DirChanges
  PROVE  WalkerInv'
<1>0. RootsInv /\ ListingInv /\ WalkInv
  BY DEF WalkerInv
<1>1. roots' = roots /\ args' = args /\ daemon' = daemon /\ listing' = listing /\ Watching
  BY DEF Come, Go, Rename, DirChanges, Changes
<1>2. CASE walk = Absent
  BY <1>0, <1>1, <1>2, ListingKept, RootsKept DEF Watching, WalkerInv, WalkInv
<1>3. CASE walk # Absent
  <2>1. WalkOK(walk) /\ DOMAIN walk = WalkFields
    BY <1>0, <1>3 DEF WalkInv, WalkOK
  <2>2. /\ DOMAIN walk' = WalkFields /\ walk'.agenda = walk.agenda /\ walk'.got = walk.got
        /\ walk'.partial = walk.partial /\ walk'.skipped = walk.skipped /\ walk'.failed = walk.failed
        /\ walk'.steady = {p \in walk.steady : p \in Visible' /\ at'[p] = at[p]}
        /\ walk'.ever = walk.ever \cup Visible'
    BY <1>1, <1>3, <2>1 DEF Watching, WalkFields
  <2>3. \A r : PathOf(r)' = PathOf(r)
    BY <1>1 DEF PathOf
  <2>4. \A x : Placed(x)' <=> Placed(x)
    BY <1>1 DEF Placed
  <2>5. \A p : Covered(walk, p)' <=> Covered(walk, p)
    BY <2>2, <2>3 DEF Covered, Open
  <2>6. WalkOK(walk)'
    BY <2>1, <2>2, <2>3, <2>4, <2>5 DEF WalkOK, Open, NoEmpty
  <2> QED BY <1>0, <1>1, <1>3, <2>6, ListingKept, RootsKept DEF WalkerInv, WalkInv
<1> QED BY <1>2, <1>3

\* What the invariant says of a state.
LEMMA WalkerInvIs ==
  ASSUME WalkerAssumption, WalkerInv
  PROVE  ListingsAreWhole
<1>1. RefsAgree /\ ListingComplete /\ OnlyRealFiles /\ PartialReportsAll
  BY RefsDoAgree DEF WalkerInv, ListingInv
<1>2. \A i \in DOMAIN roots : roots[i].canonical \in Dirs /\ Canonical(roots[i].canonical) = roots[i].canonical
  BY RootIs, PathsAre DEF WalkerInv
<1>3. ASSUME walk # Absent
      PROVE  /\ \A i \in DOMAIN walk.agenda : walk.agenda[i] # {} /\
                  \A item \in walk.agenda[i] : item.as \in {"dir", "entry"} /\ PathOf(Ref(item.id, item.rel)) = item.path
             /\ walk.steady \subseteq walk.ever
  <2>1. WalkOK(walk) /\ RootsInv
    BY <1>3 DEF WalkerInv, WalkInv
  <2>2. walk.agenda \in Agenda /\ NoEmpty(walk.agenda) /\ walk.steady \subseteq walk.ever
    BY <2>1 DEF WalkOK
  <2>3. ASSUME NEW i \in DOMAIN walk.agenda, NEW item \in walk.agenda[i]
        PROVE  item.as \in {"dir", "entry"} /\ PathOf(Ref(item.id, item.rel)) = item.path
    <3>1. item \in Item /\ item \in Open(walk.agenda)
      BY <2>2 DEF Agenda, Open
    <3>2. PICK j \in DOMAIN roots : item.id = roots[j].id /\ item.path = roots[j].canonical \o item.rel
      BY <2>1, <3>1 DEF WalkOK, Placed
    <3>3. PathOf(Ref(roots[j].id, item.rel)) = roots[j].canonical \o item.rel
      BY <2>1, RootIs
    <3> QED BY <3>1, <3>2, <3>3 DEF Item
  <2> QED BY <2>2, <2>3 DEF NoEmpty
<1> QED BY <1>1, <1>2, <1>3 DEF ListingsAreWhole, WalkerTypeOK

\* A listing the seedbox daemon calls complete holds every file that stayed in place
\* while it walked, names no file it did not meet, and a partial one names all it
\* skipped: for every file system, link table and set of library roots, however the
\* files move between two steps of the walk (list_files and its Walker).
THEOREM ListingsStayWhole ==
  ASSUME WalkerAssumption
  PROVE  WalkerSpec => []ListingsAreWhole
<1>1. ASSUME WalkerInv, UNCHANGED walkerVars PROVE WalkerInv'
  <2>1. /\ roots' = roots /\ dir' = dir /\ at' = at /\ args' = args /\ daemon' = daemon
        /\ listing' = listing /\ walk' = walk
    BY <1>1 DEF walkerVars
  <2>2. WalkInv'
    BY <1>1, <2>1, Frozen DEF WalkerInv, WalkInv
  <2> QED BY <1>1, <2>1, <2>2, ListingKept, RootsKept DEF WalkerInv
<1>2. WalkerInv /\ [WalkerNext]_walkerVars => WalkerInv'
  BY <1>1, AddRootStep, StartWalkStep, WalkStep, EndWalkStep, ChangeStep DEF WalkerNext
<1> QED BY <1>2, WalkerStarts, WalkerInvIs, PTL DEF WalkerSpec

-----------------------------------------------------------------------------
(* The calls on the seedbox daemon                                         *)

\* A hold as the daemon has it.
IsItem(i) ==
    /\ i = [key |-> i.key, remote |-> i.remote, placement |-> i.placement]
    /\ i.placement # None => C!IsPlacement(i.placement)

\* What a handler has done for a call that it answered, by the operation.
Performed(op, arg, did, body, answer) ==
    CASE op = "unmonitor" -> did = {<<"unmonitor", arg>>}
      [] op = "hold_reject" -> did = {<<"reject", arg>>}
      [] op = "delete_remote" ->
             (body = 1 /\ did = {<<"delete", arg>>}) \/ (body \in {2, 3, 4} /\ did = {})
      [] op \in {"grab_apply", "edge_apply"} ->
             (body = "changed" /\ did = {<<"apply">>}) \/ (body = "noop" /\ did = {})
      [] op = "hold_list" ->
             /\ did = {} /\ \A i \in answer : IsItem(i)
             /\ body = {C!HoldToWire(i) : i \in answer}
      [] OTHER -> did = {} /\ body = answer

Lost(c) == c.wire = C!TransportStatus /\ c.told = C!NotTold
Failed(c) == \E code : c.wire = C!DomainStatus(code) /\ c.told = C!Err(code) /\ c.did = {}
Done(c) == \E body, answer : /\ c.wire = [package |-> C!Package, body |-> body] /\ c.told = C!Val(answer)
                             /\ Performed(c.op, c.arg, c.did, body, answer)

Deeds(arg) == {<<"unmonitor", arg>>, <<"delete", arg>>, <<"reject", arg>>, <<"apply">>}

\* A call by where it is: before the handler nothing was done, and behind it the wire
\* has what the handler said or a broken connection's Status.
CallInv ==
    call # None =>
        /\ call = [op |-> call.op, arg |-> call.arg, wire |-> call.wire, at |-> call.at, told |-> call.told, did |-> call.did]
        /\ call.at \in {"home", "box", "answered", "back"}
        /\ call.did \subseteq Deeds(call.arg)
        /\ call.at \in {"home", "box"} => call.wire = C!Val(call.arg) /\ call.told = C!NotTold /\ call.did = {}
        /\ call.at \in {"answered", "back"} => Lost(call) \/ Failed(call) \/ Done(call)

ResultInv ==
    /\ result # None => result.did \subseteq Deeds(result.arg)
    /\ C!OkMeansPerformed /\ C!ExitCodeSurvives /\ C!HoldsArriveWhole /\ C!ListingsArriveWhole

BoxInv == daemon \in Releases /\ queue \subseteq Keys

WireInv == BoxInv /\ CallInv /\ ResultInv

\* What the caller was told stays true while a call goes on.
LEMMA ResultKept ==
  ASSUME ResultInv, CallInv', result' = result, daemon' = daemon
  PROVE  ResultInv'
<1>1. (result # None => result.did \subseteq Deeds(result.arg))'
  BY DEF ResultInv
<1>2. C!OkMeansPerformed'
  BY DEF ResultInv, C!OkMeansPerformed, CallInv, Deeds
<1>3. C!ExitCodeSurvives' /\ C!HoldsArriveWhole' /\ C!ListingsArriveWhole'
  BY DEF ResultInv, C!ExitCodeSurvives, C!HoldsArriveWhole, C!ListingsArriveWhole
<1> QED BY <1>1, <1>2, <1>3 DEF ResultInv

\* Before the first call there is no result.
LEMMA WireInit == C!ControlInit => WireInv
BY DEF C!ControlInit, WireInv, BoxInv, CallInv, ResultInv, C!OkMeansPerformed, C!ExitCodeSurvives,
       C!HoldsArriveWhole, C!ListingsArriveWhole

\* A new call has done nothing and has been told nothing.
LEMMA CallStep ==
  ASSUME C!WireAssumption, WireInv, C!Call
  PROVE  WireInv'
<1>0. PICK op \in Ops : \E arg \in C!Args(op) :
          LET wire == IF op \in {"delete_remote", "stat"} THEN C!RefToWire(arg) ELSE C!Val(arg)
              c == [op |-> op, arg |-> arg, wire |-> wire, at |-> "home", told |-> C!NotTold, did |-> {}] IN
          IF C!IsErr(wire) THEN result' = C!Outcome(c, wire) /\ call' = None
          ELSE call' = c /\ result' = None
  BY DEF C!Call
<1>1. PICK arg \in C!Args(op) :
          LET wire == IF op \in {"delete_remote", "stat"} THEN C!RefToWire(arg) ELSE C!Val(arg)
              c == [op |-> op, arg |-> arg, wire |-> wire, at |-> "home", told |-> C!NotTold, did |-> {}] IN
          IF C!IsErr(wire) THEN result' = C!Outcome(c, wire) /\ call' = None
          ELSE call' = c /\ result' = None
  BY <1>0
<1> DEFINE wire == IF op \in {"delete_remote", "stat"} THEN C!RefToWire(arg) ELSE C!Val(arg)
           c == [op |-> op, arg |-> arg, wire |-> wire, at |-> "home", told |-> C!NotTold, did |-> {}]
<1>2. wire = C!Err("Runtime") \/ wire = C!Val(arg)
  BY DEF C!RefToWire
<1>3. C!IsErr(C!Err("Runtime")) /\ ~C!IsErr(C!Val(arg)) /\ C!Err("Runtime").err = "Runtime"
  BY DEF C!IsErr, C!Err, C!Val
<1>4. BoxInv'
  BY DEF WireInv, BoxInv, C!Call, C!onbox
<1>5. CASE wire = C!Val(arg)
  <2>1. call' = c /\ result' = None
    BY <1>1, <1>3, <1>5
  <2>2. CallInv'
    BY <1>5, <2>1 DEF CallInv, Deeds
  <2>3. ResultInv'
    BY <2>1 DEF ResultInv, C!OkMeansPerformed, Deeds, C!ExitCodeSurvives, C!HoldsArriveWhole, C!ListingsArriveWhole
  <2> QED BY <1>4, <2>2, <2>3 DEF WireInv
<1>6. CASE wire = C!Err("Runtime")
  <2>1. call' = None /\ result' = C!Outcome(c, wire)
    BY <1>1, <1>3, <1>6
  <2>2. result'.ok = FALSE /\ result'.code = "Runtime" /\ result'.told = C!NotTold /\ result'.did = {}
    BY <1>3, <1>6, <2>1 DEF C!Outcome
  <2>3. CallInv'
    BY <2>1 DEF CallInv
  <2>4. ResultInv'
    BY <2>1, <2>2 DEF ResultInv, C!OkMeansPerformed, Deeds, C!ExitCodeSurvives, C!HoldsArriveWhole, C!ListingsArriveWhole
  <2> QED BY <1>4, <2>3, <2>4 DEF WireInv
<1> QED BY <1>2, <1>5, <1>6

\* The gateway passes on what the daemon said, or a transport error.
LEMMA RelayStep ==
  ASSUME WireInv, C!Relay \/ C!Break
  PROVE  WireInv'
<1>1. BoxInv' /\ result' = result /\ daemon' = daemon /\ call # None
  BY DEF WireInv, BoxInv, C!Relay, C!Break, C!onbox
<1>2. CASE C!Relay
  <2>1. /\ call'.at \in {"box", "back"} /\ (call.at = "home" <=> call'.at = "box") /\ call.at \in {"home", "answered"}
        /\ call'.op = call.op /\ call'.arg = call.arg /\ call'.wire = call.wire /\ call'.told = call.told /\ call'.did = call.did
        /\ call' = [op |-> call.op, arg |-> call.arg, wire |-> call.wire, at |-> call'.at, told |-> call.told, did |-> call.did]
    BY <1>1, <1>2 DEF C!Relay, WireInv, CallInv
  <2>2. call.at = "answered" => Lost(call)' \/ Failed(call)' \/ Done(call)'
    <3> SUFFICES ASSUME call.at = "answered" PROVE Lost(call)' \/ Failed(call)' \/ Done(call)'
      OBVIOUS
    <3>1. Lost(call) \/ Failed(call) \/ Done(call)
      BY <1>1 DEF WireInv, CallInv
    <3>2. Lost(call) => Lost(call)'
      BY <2>1 DEF Lost, C!TransportStatus
    <3>3. Failed(call) => Failed(call)'
      BY <2>1 DEF Failed
    <3>4. \A body, answer : Performed(call.op, call.arg, call.did, body, answer)' <=> Performed(call.op, call.arg, call.did, body, answer)
      BY <2>1 DEF Performed
    <3>5. C!Package' = C!Package
      BY <1>1 DEF C!Package
    <3>6. Done(call) => Done(call)'
      BY <2>1, <3>4, <3>5 DEF Done
    <3> QED BY <3>1, <3>2, <3>3, <3>6
  <2> QED BY <1>1, <2>1, <2>2, ResultKept DEF WireInv, CallInv, Deeds
<1>3. CASE C!Break
  <2>1. /\ call'.at = "back" /\ call'.wire = C!TransportStatus /\ call'.told = C!NotTold
        /\ call'.arg = call.arg /\ call'.did = call.did
        /\ call' = [op |-> call.op, arg |-> call.arg, wire |-> C!TransportStatus, at |-> "back", told |-> C!NotTold, did |-> call.did]
    BY <1>1, <1>3 DEF C!Break, WireInv, CallInv
  <2>2. CallInv'
    BY <1>1, <2>1 DEF WireInv, CallInv, Deeds, Lost
  <2> QED BY <1>1, <2>2, ResultKept DEF WireInv
<1> QED BY <1>2, <1>3

\* The value of an answer.
LEMMA ValOf == \A x : C!Val(x).val = x
BY DEF C!Val

\* A placement's record with another title.
LEMMA UntitledOf ==
  ASSUME NEW p, C!IsPlacement(p)
  PROVE  C!Untitled(p) = [kind |-> p.kind, year |-> p.year, season |-> p.season, last |-> p.last,
                        name |-> IF p.name = "" THEN None ELSE p.name]
<1> DEFINE k == p.kind  y == p.year  s == p.season  l == p.last  n == p.name
           q == [kind |-> k, year |-> y, season |-> s, last |-> l, name |-> n]
           title == IF n = "" THEN None ELSE n
<1>1. p = q
  BY DEF C!IsPlacement
<1>2. C!Untitled(p) = [p EXCEPT !.name = title]
  BY DEF C!Untitled
<1> HIDE DEF k, y, s, l, n, title
<1>3. [q EXCEPT !.name = title] = [kind |-> k, year |-> y, season |-> s, last |-> l, name |-> title]
  OBVIOUS
<1>4. C!Untitled(p) = [kind |-> k, year |-> y, season |-> s, last |-> l, name |-> title]
  BY <1>1, <1>2, <1>3
<1> QED BY <1>4 DEF k, y, s, l, n, title

\* What a hold list is to its reader: the daemon's holds, each with what a blank title means.
Whole(value, answer) ==
    /\ {i.key : i \in value} = {i.key : i \in answer}
    /\ \A i \in value : \E j \in answer :
           /\ i.key = j.key
           /\ IF j.remote = None THEN i.remote = None
              ELSE i.remote # None /\ (C!Utf8(j.remote) => i.remote = j.remote)
           /\ IF j.placement = None THEN i.placement = None
              ELSE i.placement = C!Untitled(j.placement)

\* Holds that arrive are the daemon's, with what a blank title means to the reader.
LEMMA HoldsConvert ==
  ASSUME C!WireAssumption, NEW answer, \A i \in answer : IsItem(i), NEW body,
         body = {C!HoldToWire(i) : i \in answer},
         ~C!IsErr(C!HoldsFromWire(body))
  PROVE  Whole(C!HoldsFromWire(body).val, answer)
<1> DEFINE Got(j) == C!HoldFromWire(C!HoldToWire(j))
           value == C!HoldsFromWire(body).val
<1>3. C!IsErr(C!Err("Runtime"))
  BY DEF C!IsErr, C!Err
<1>4. ~(\E i \in body : C!IsErr(C!PlacementFromWire(i.placement)))
  BY <1>3 DEF C!HoldsFromWire
<1>5. value = {C!HoldFromWire(i) : i \in body}
  BY <1>4 DEF C!HoldsFromWire, C!Val
<1>6. \A j \in answer : /\ C!HoldToWire(j).placement = j.placement
                        /\ Got(j) = [key |-> j.key, remote |-> C!HoldRefToWire(j.remote),
                                     placement |-> C!PlacementFromWire(j.placement).val]
  BY DEF C!HoldToWire, C!HoldFromWire, C!PlacementToWire
<1>7. value = {Got(j) : j \in answer}
  BY <1>5, Zenon
<1> HIDE DEF Got, value
<1>8. \A j \in answer : ~C!IsErr(C!PlacementFromWire(j.placement))
  BY <1>4, <1>6
<1>9. ASSUME NEW j \in answer
      PROVE  IF j.placement = None THEN Got(j).placement = None
             ELSE Got(j).placement = C!Untitled(j.placement)
  <2>1. CASE j.placement = None
    <3>1. C!PlacementFromWire(None).val = None
      BY ValOf DEF C!PlacementFromWire
    <3>2. Got(j).placement = C!PlacementFromWire(j.placement).val
      BY <1>6
    <3> QED BY <2>1, <3>1, <3>2
  <2>2. CASE j.placement # None
    <3> DEFINE p == j.placement
               year == C!Fits(p.year, C!U16)
               season == IF p.kind = "episode" THEN C!Fits(p.season, C!U8) ELSE 0
               last == IF p.kind # "episode" \/ p.last = None THEN None ELSE C!Fits(p.last, C!U16)
    <3>1. C!IsPlacement(p)
      BY <2>2 DEF IsItem
    <3>2. ~(p.kind = "unset" \/ year = -1 \/ season = -1 \/ last = -1)
      BY <1>3, <1>8, <2>2 DEF C!PlacementFromWire
    <3>3. year = p.year /\ season = p.season /\ last = p.last
      BY <3>1, <3>2 DEF C!IsPlacement, C!Fits
    <3> DEFINE got == [kind |-> p.kind, year |-> year, season |-> season, last |-> last,
                       name |-> IF p.name = "" THEN None ELSE p.name]
    <3>4. C!PlacementFromWire(p) = C!Val(got)
      BY <2>2, <3>2 DEF C!PlacementFromWire
    <3>5. got = C!Untitled(p)
      <4> HIDE DEF p, year, season, last
      <4>1. got = [kind |-> p.kind, year |-> p.year, season |-> p.season, last |-> p.last,
                   name |-> IF p.name = "" THEN None ELSE p.name]
        BY <3>3
      <4> QED BY <3>1, <4>1, UntitledOf
    <3> HIDE DEF p
    <3>6. C!PlacementFromWire(p).val = C!Untitled(p)
      BY <3>4, <3>5, ValOf
    <3> QED BY <1>6, <2>2, <3>6 DEF p
  <2> QED BY <2>1, <2>2
<1>10. \A j \in answer : IF j.remote = None THEN Got(j).remote = None
                         ELSE Got(j).remote # None /\ (C!Utf8(j.remote) => Got(j).remote = j.remote)
  BY <1>6 DEF C!HoldRefToWire, C!WireAssumption
<1>11. \A j \in answer : Got(j).key = j.key
  BY <1>6
<1>12. {i.key : i \in value} = {i.key : i \in answer}
  BY <1>7, <1>11
<1>13. ASSUME NEW i \in value
       PROVE  \E j \in answer :
                /\ i.key = j.key
                /\ IF j.remote = None THEN i.remote = None
                   ELSE i.remote # None /\ (C!Utf8(j.remote) => i.remote = j.remote)
                /\ IF j.placement = None THEN i.placement = None
                   ELSE i.placement = C!Untitled(j.placement)
  <2>1. PICK j \in answer : i = Got(j)
    BY <1>7
  <2> QED BY <1>9, <1>10, <1>11, <2>1
<1> QED BY <1>12, <1>13 DEF value, Whole

\* What the caller is told in the end.
LEMMA ReturnStep ==
  ASSUME C!WireAssumption, WireInv, C!Return
  PROVE  WireInv'
<1> DEFINE v == C!Answer(call)
<1>1. /\ call # None /\ call' = None /\ daemon' = daemon /\ BoxInv'
      /\ result' = C!Outcome(call, v)
  BY DEF C!Return, WireInv, BoxInv, C!onbox
<1>2. CallInv'
  BY <1>1 DEF CallInv
<1>3. /\ result'.op = call.op /\ result'.arg = call.arg /\ result'.told = call.told /\ result'.did = call.did
      /\ result'.ok = ~C!IsErr(v) /\ result'.code = (IF C!IsErr(v) THEN v.err ELSE "Ok")
      /\ result'.value = (IF C!IsErr(v) THEN None ELSE v.val)
  BY <1>1 DEF C!Outcome
<1>4. call.did \subseteq Deeds(call.arg) /\ (Lost(call) \/ Failed(call) \/ Done(call))
  BY <1>1 DEF WireInv, CallInv, C!Return
<1>5. (result # None => result.did \subseteq Deeds(result.arg))'
  BY <1>3, <1>4 DEF Deeds
<1>6. /\ \A x : C!IsErr(C!Err(x)) /\ C!Err(x).err = x /\ ~C!IsErr(C!Val(x)) /\ C!Val(x).val = x
      /\ \A x : C!NotTold # C!Err(x) /\ C!NotTold # C!Val(x)
  <2>1. \A x : "err" \in DOMAIN C!Err(x) /\ "val" \in DOMAIN C!Val(x) /\ "err" \notin DOMAIN C!Val(x)
    BY DEF C!Err, C!Val
  <2>2. "err" \notin DOMAIN C!NotTold /\ "val" \notin DOMAIN C!NotTold
    BY DEF C!NotTold
  <2> QED BY <2>1, <2>2 DEF C!IsErr, C!Err, C!Val
<1> HIDE DEF v
<1>7. ASSUME C!IsErr(v) PROVE C!OkMeansPerformed' /\ C!HoldsArriveWhole' /\ C!ListingsArriveWhole'
  BY <1>1, <1>3, <1>4, <1>7 DEF C!OkMeansPerformed, C!HoldsArriveWhole, C!ListingsArriveWhole, Deeds
<1>8. CASE Lost(call)
  <2>1. v = C!Err("Runtime") /\ call.told = C!NotTold
    BY <1>8 DEF v, Lost, C!Answer, C!IsStatus, C!TransportStatus, C!ControlErrorFromStatus, C!WireAssumption
  <2>2. C!ExitCodeSurvives'
    BY <1>3, <1>6, <2>1 DEF C!ExitCodeSurvives
  <2> QED BY <1>1, <1>2, <1>5, <1>6, <1>7, <2>1, <2>2 DEF WireInv, ResultInv
<1>9. CASE Failed(call)
  <2>1. PICK code : call.wire = C!DomainStatus(code) /\ call.told = C!Err(code)
    BY <1>9 DEF Failed
  <2>2. v = C!Err(IF code \in C!Known THEN code ELSE "Runtime")
    BY <2>1 DEF v, C!Answer, C!IsStatus, C!DomainStatus, C!ControlErrorFromStatus
  <2>3. C!ExitCodeSurvives'
    <3>1. result'.told = C!Err(code) /\ result'.told # C!NotTold /\ result'.told.err = code
      BY <1>3, <1>6, <2>1
    <3>2. ~result'.ok /\ (code \in C!Known => result'.code = code)
      BY <1>3, <1>6, <2>2
    <3>3. "err" \in DOMAIN result'.told
      BY <3>1, <1>6 DEF C!IsErr
    <3> QED BY <3>1, <3>2, <3>3 DEF C!ExitCodeSurvives, C!IsErr, C!Known, C!NotTold
  <2> QED BY <1>1, <1>2, <1>5, <1>6, <1>7, <2>2, <2>3 DEF WireInv, ResultInv
<1>10. CASE Done(call)
  <2>1. PICK body, answer : /\ call.wire = [package |-> C!Package, body |-> body] /\ call.told = C!Val(answer)
                            /\ Performed(call.op, call.arg, call.did, body, answer)
    BY <1>10 DEF Done
  <2>2. ~C!IsStatus(call.wire) /\ call.wire.package = C!Package /\ call.wire.body = body
    BY <2>1 DEF C!IsStatus
  <2>3. v = IF call.op \notin {"list", "stat"} /\ C!Package # "mediaops.v1" THEN C!Err("Runtime") ELSE C!Decode(call.op, body)
    BY <2>2 DEF v, C!Answer
  <2>4. C!Package = "mediaops.v1" <=> daemon # "v2"
    BY DEF C!Package
  <2>5. /\ C!IsErr(C!Decode(call.op, body)) => C!Decode(call.op, body) = C!Err("Runtime")
        /\ call.op \notin {"delete_remote", "hold_list"} => C!Decode(call.op, body) = C!Val(body)
    BY <1>6 DEF C!Decode, C!OutcomeFromWire, C!HoldsFromWire
  <2>6. C!ExitCodeSurvives'
    <3>1. result'.told # C!NotTold /\ "err" \notin DOMAIN result'.told
      BY <1>3, <1>6, <2>1 DEF C!IsErr
    <3>2. result'.ok => (daemon = "v2" => call.op \in {"list", "stat"})
      BY <1>3, <1>6, <2>3, <2>4
    <3>3. ~result'.ok => result'.code = "Runtime"
      BY <1>3, <1>6, <2>3, <2>5
    <3> QED BY <1>1, <1>3, <3>1, <3>2, <3>3 DEF C!ExitCodeSurvives, C!IsErr, C!NotTold
  <2>7. ASSUME ~C!IsErr(v) PROVE C!OkMeansPerformed' /\ C!HoldsArriveWhole' /\ C!ListingsArriveWhole'
    <3>1. v = C!Decode(call.op, body) /\ result'.value = v.val /\ result'.ok
      BY <1>3, <1>6, <2>3, <2>7
    <3>2. C!OkMeansPerformed'
      <4>1. call.op = "delete_remote" => (v.val = "Deleted" <=> <<"delete", call.arg>> \in call.did)
        BY <1>6, <2>1, <2>7, <3>1 DEF Performed, C!Decode, C!OutcomeFromWire
      <4>2. call.op \in {"grab_apply", "edge_apply"} => (v.val = "changed" <=> <<"apply">> \in call.did)
        BY <1>6, <2>1, <2>5, <3>1 DEF Performed
      <4>3. /\ call.op = "unmonitor" => <<"unmonitor", call.arg>> \in call.did
            /\ call.op = "hold_reject" => <<"reject", call.arg>> \in call.did
            /\ call.op \notin {"unmonitor", "hold_reject", "delete_remote", "grab_apply", "edge_apply"} => call.did = {}
        BY <2>1 DEF Performed
      <4> QED BY <1>1, <1>3, <1>4, <3>1, <4>1, <4>2, <4>3 DEF C!OkMeansPerformed, Deeds
    <3>3. C!HoldsArriveWhole'
      <4> SUFFICES ASSUME call.op = "hold_list" PROVE C!HoldsArriveWhole'
        BY <1>3 DEF C!HoldsArriveWhole
      <4>1. v = C!HoldsFromWire(body) /\ ~C!IsErr(C!HoldsFromWire(body))
        BY <2>7, <3>1 DEF C!Decode
      <4>2. /\ \A i \in answer : IsItem(i)
            /\ body = {C!HoldToWire(i) : i \in answer}
        BY <2>1 DEF Performed
      <4>3. result'.told.val = answer
        BY <1>3, <1>6, <2>1
      <4> DEFINE value == C!HoldsFromWire(body).val
      <4>4. result'.value = value
        BY <3>1, <4>1
      <4>5. Whole(value, answer)
        BY <4>1, <4>2, HoldsConvert
      <4> HIDE DEF value
      <4> QED BY <4>3, <4>4, <4>5 DEF C!HoldsArriveWhole, Whole, C!Utf8, C!Untitled
    <3>4. C!ListingsArriveWhole'
      <4> SUFFICES ASSUME call.op \in {"list", "guard_preview", "wanted_missing"} PROVE C!ListingsArriveWhole'
        BY <1>3 DEF C!ListingsArriveWhole
      <4>1. body = answer
        BY <2>1 DEF Performed
      <4> QED BY <1>3, <1>6, <2>1, <2>5, <3>1, <4>1 DEF C!ListingsArriveWhole
    <3> QED BY <3>2, <3>3, <3>4
  <2> QED BY <1>1, <1>2, <1>5, <1>7, <2>6, <2>7 DEF WireInv, ResultInv
<1> QED BY <1>4, <1>8, <1>9, <1>10

\* A handler's answer: the call has the wire, the ghost and the deed it says.
LEMMA Said ==
  ASSUME WireInv, call # None, NEW wire, NEW answer, NEW did, C!Say(wire, answer, did)
  PROVE  call' = [op |-> call.op, arg |-> call.arg, wire |-> wire, at |-> "answered", told |-> answer, did |-> did]
BY DEF C!Say, WireInv, CallInv

\* A handler that fails says so, and has done nothing.
LEMMA FailStep ==
  ASSUME WireInv, call # None, result' = result, daemon' = daemon, NEW code, C!Fail(code)
  PROVE  WireInv'
<1>1. call' = [op |-> call.op, arg |-> call.arg, wire |-> C!DomainStatus(code), at |-> "answered", told |-> C!Err(code), did |-> {}]
  BY Said DEF C!Fail
<1>2. Failed(call)'
  BY <1>1 DEF Failed
<1>3. CallInv'
  BY <1>1, <1>2 DEF CallInv, Deeds
<1>4. BoxInv'
  BY DEF WireInv, BoxInv, C!Fail, C!onbox
<1> QED BY <1>3, <1>4, ResultKept DEF WireInv

\* A handler that answers has done what its answer says.
LEMMA ReplyStep ==
  ASSUME WireInv, call # None, result' = result, daemon' = daemon, queue' \subseteq Keys,
         NEW body, NEW answer, NEW did, C!Reply(body, answer, did), did \subseteq Deeds(call.arg),
         Performed(call.op, call.arg, did, body, answer)
  PROVE  WireInv'
<1>1. call' = [op |-> call.op, arg |-> call.arg, wire |-> [package |-> C!Package, body |-> body],
               at |-> "answered", told |-> C!Val(answer), did |-> did]
  BY Said DEF C!Reply
<1>2. C!Package' = C!Package
  BY DEF C!Package
<1>3. /\ call'.op = call.op /\ call'.arg = call.arg /\ call'.did = did /\ call'.at = "answered"
      /\ call'.wire = [package |-> C!Package, body |-> body] /\ call'.told = C!Val(answer)
  BY <1>1
<1>4. Performed(call.op, call.arg, call.did, body, answer)'
  BY <1>3 DEF Performed
<1>5. Done(call)'
  BY <1>2, <1>3, <1>4 DEF Done
<1>6. CallInv'
  BY <1>1, <1>3, <1>5 DEF CallInv, Deeds
<1>7. BoxInv'
  BY DEF WireInv, BoxInv
<1> QED BY <1>6, <1>7, ResultKept DEF WireInv

\* A step that leaves the box alone keeps its queue.
LEMMA Quiet == ASSUME WireInv, UNCHANGED C!onbox PROVE queue' \subseteq Keys
BY DEF WireInv, BoxInv, C!onbox

\* What a handler finds: the request's argument, exactly.
LEMMA Asked ==
  ASSUME WireInv, NEW op, C!At(op)
  PROVE  call # None /\ call.op = op /\ result' = result /\ daemon' = daemon /\ call.wire.val = call.arg
BY ValOf DEF C!At, WireInv, CallInv

\* A handler fails with the code the operation behind it failed with.
LEMMA OpsFailStep ==
  ASSUME WireInv, call # None, result' = result, daemon' = daemon, C!OpsFail
  PROVE  WireInv'
BY FailStep DEF C!OpsFail

\* The handlers that only report.
LEMMA ReportStep ==
  ASSUME WireInv, C!Report
  PROVE  WireInv'
<1>1. call # None /\ call.op \in {"df", "edge_check", "key_discovery"} /\ result' = result /\ daemon' = daemon
  BY Asked DEF C!Report
<1>2. CASE C!OpsFail
  BY <1>1, <1>2, OpsFailStep
<1>3. CASE \E body \in {"fine", "poor"} : C!Reply(body, body, {}) /\ UNCHANGED C!onbox
  <2>1. PICK body \in {"fine", "poor"} : C!Reply(body, body, {}) /\ UNCHANGED C!onbox
    BY <1>3
  <2>2. Performed(call.op, call.arg, {}, body, body)
    BY <1>1 DEF Performed
  <2> QED BY <1>1, <2>1, <2>2, Quiet, ReplyStep
<1> QED BY <1>2, <1>3 DEF C!Report

\* unmonitor names the key it was given.
LEMMA UnmonitorStep ==
  ASSUME WireInv, C!Unmonitor
  PROVE  WireInv'
<1>1. call # None /\ call.op = "unmonitor" /\ result' = result /\ daemon' = daemon /\ call.wire.val = call.arg
  BY Asked DEF C!Unmonitor
<1>2. CASE C!Fail("Usage")
  BY <1>1, <1>2, FailStep
<1>3. CASE C!OpsFail
  BY <1>1, <1>3, OpsFailStep
<1>4. CASE C!Reply(None, None, {<<"unmonitor", call.wire.val>>}) /\ queue' = queue
  <2>1. Performed(call.op, call.arg, {<<"unmonitor", call.arg>>}, None, None)
    BY <1>1 DEF Performed
  <2>2. {<<"unmonitor", call.arg>>} \subseteq Deeds(call.arg) /\ queue' \subseteq Keys
    BY <1>4 DEF Deeds, WireInv, BoxInv
  <2> QED BY <1>1, <1>4, <2>1, <2>2, ReplyStep
<1> QED BY <1>2, <1>3, <1>4 DEF C!Unmonitor

\* delete_remote says Deleted exactly when it deleted.
LEMMA DeleteRemoteStep ==
  ASSUME WireInv, C!DeleteRemote
  PROVE  WireInv'
<1> DEFINE f == call.wire.val
<1>1. call # None /\ call.op = "delete_remote" /\ result' = result /\ daemon' = daemon /\ f = call.arg
  BY Asked DEF C!DeleteRemote
<1>2. CASE C!Fail("Runtime")
  BY <1>1, <1>2, FailStep
<1>3. ASSUME NEW body \in {2, 3, 4}, NEW answer, C!Reply(body, answer, {}), UNCHANGED C!onbox
      PROVE  WireInv'
  <2>1. Performed(call.op, call.arg, {}, body, answer)
    BY <1>1 DEF Performed
  <2> QED BY <1>1, <1>3, <2>1, Quiet, ReplyStep
<1>4. CASE C!Reply(1, "Deleted", {<<"delete", f>>}) /\ queue' = queue
  <2>1. Performed(call.op, call.arg, {<<"delete", call.arg>>}, 1, "Deleted")
    BY <1>1 DEF Performed
  <2>2. {<<"delete", call.arg>>} \subseteq Deeds(call.arg) /\ queue' \subseteq Keys
    BY <1>4 DEF Deeds, WireInv, BoxInv
  <2> QED BY <1>1, <1>4, <2>1, <2>2, ReplyStep
<1>5. CASE C!Reply(3, "QbitUnavailable", {}) /\ UNCHANGED C!onbox
  BY <1>3, <1>5
<1>6. CASE C!Reply(2, "SkippedSeeding", {}) /\ UNCHANGED C!onbox
  BY <1>3, <1>6
<1>7. CASE C!Reply(4, "Deferred", {}) /\ UNCHANGED C!onbox
  BY <1>3, <1>7
<1> QED BY <1>2, <1>4, <1>5, <1>6, <1>7 DEF C!DeleteRemote

\* grab_apply and edge_apply say changed exactly when they applied.
LEMMA ApplyStep ==
  ASSUME WireInv, C!Apply
  PROVE  WireInv'
<1>1. call # None /\ call.op \in {"grab_apply", "edge_apply"} /\ result' = result /\ daemon' = daemon
  BY Asked DEF C!Apply
<1>2. CASE C!OpsFail
  BY <1>1, <1>2, OpsFailStep
<1>3. CASE C!Reply("noop", "noop", {}) /\ UNCHANGED C!onbox
  <2>1. Performed(call.op, call.arg, {}, "noop", "noop")
    BY <1>1 DEF Performed
  <2> QED BY <1>1, <1>3, <2>1, Quiet, ReplyStep
<1>4. CASE C!Reply("changed", "changed", {<<"apply">>}) /\ queue' = queue
  <2>1. Performed(call.op, call.arg, {<<"apply">>}, "changed", "changed")
    BY <1>1 DEF Performed
  <2>2. {<<"apply">>} \subseteq Deeds(call.arg) /\ queue' \subseteq Keys
    BY <1>4 DEF Deeds, WireInv, BoxInv
  <2> QED BY <1>1, <1>4, <2>1, <2>2, ReplyStep
<1> QED BY <1>2, <1>3, <1>4 DEF C!Apply

\* hold_list sends each hold, with its file and placement.
LEMMA HoldListStep ==
  ASSUME C!WireAssumption, WireInv, C!HoldList
  PROVE  WireInv'
<1> DEFINE items == IF box = "servarr" THEN C!HoldItems ELSE {}
<1>1. call # None /\ call.op = "hold_list" /\ result' = result /\ daemon' = daemon
  BY Asked DEF C!HoldList
<1>2. \A i \in items : IsItem(i)
  <2>1. daemon \in Releases /\ queue \subseteq Keys
    BY DEF WireInv, BoxInv
  <2>2. ASSUME NEW k \in queue, NEW remote
        PROVE  IsItem([key |-> k, remote |-> remote, placement |-> PlacementOf[daemon][k]])
    BY <2>1 DEF IsItem, C!WireAssumption
  <2> QED BY <2>2 DEF C!HoldItems
<1>3. CASE C!OpsFail
  BY <1>1, <1>3, OpsFailStep
<1>4. CASE C!Reply({C!HoldToWire(i) : i \in items}, items, {}) /\ UNCHANGED C!onbox
  <2>1. Performed(call.op, call.arg, {}, {C!HoldToWire(i) : i \in items}, items)
    BY <1>1, <1>2 DEF Performed
  <2> QED BY <1>1, <1>4, <2>1, Quiet, ReplyStep
<1> QED BY <1>3, <1>4 DEF C!HoldList

\* hold_reject names the key it was given.
LEMMA HoldRejectStep ==
  ASSUME WireInv, C!HoldReject
  PROVE  WireInv'
<1>1. call # None /\ call.op = "hold_reject" /\ result' = result /\ daemon' = daemon /\ call.wire.val = call.arg
  BY Asked DEF C!HoldReject
<1>2. CASE C!Fail("Usage")
  BY <1>1, <1>2, FailStep
<1>3. CASE C!OpsFail
  BY <1>1, <1>3, OpsFailStep
<1>4. CASE C!Reply(None, None, {<<"reject", call.wire.val>>}) /\ queue' = queue \ {call.wire.val}
  <2>1. Performed(call.op, call.arg, {<<"reject", call.arg>>}, None, None)
    BY <1>1 DEF Performed
  <2>2. {<<"reject", call.arg>>} \subseteq Deeds(call.arg) /\ queue' \subseteq Keys
    BY <1>4 DEF Deeds, WireInv, BoxInv
  <2> QED BY <1>1, <1>4, <2>1, <2>2, ReplyStep
<1> QED BY <1>2, <1>3, <1>4 DEF C!HoldReject

\* Files, one file and wanted titles are answered whole.
LEMMA ListingStep ==
  ASSUME WireInv, C!WantedMissing \/ C!ListFiles \/ C!Stat
  PROVE  WireInv'
<1>1. /\ call # None /\ result' = result /\ daemon' = daemon
      /\ call.op \in {"wanted_missing", "guard_preview", "list", "stat"}
  BY Asked DEF C!WantedMissing, C!ListFiles, C!Stat
<1>2. ASSUME NEW body, C!Reply(body, body, {}), UNCHANGED C!onbox
      PROVE  WireInv'
  <2>1. Performed(call.op, call.arg, {}, body, body)
    BY <1>1 DEF Performed
  <2> QED BY <1>1, <1>2, <2>1, Quiet, ReplyStep
<1>3. CASE C!OpsFail
  BY <1>1, <1>3, OpsFailStep
<1>4. CASE C!Fail("Runtime")
  BY <1>1, <1>4, FailStep
<1>5. CASE C!WantedMissing
  BY <1>2, <1>3, <1>5 DEF C!WantedMissing
<1>6. CASE C!ListFiles
  <2> DEFINE refs == IF call.op = "guard_preview" /\ box = "bare" THEN {} ELSE files
  <2>1. C!IsErr(C!RefsToWire(refs)) \/ C!RefsToWire(refs) = C!Val(refs)
    BY DEF C!RefsToWire, C!IsErr, C!Err
  <2>2. \/ C!OpsFail \/ C!Fail("Runtime")
        \/ ~C!IsErr(C!RefsToWire(refs)) /\ C!Reply(C!RefsToWire(refs).val, refs, {}) /\ UNCHANGED C!onbox
    BY <1>6 DEF C!ListFiles
  <2>3. ~C!IsErr(C!RefsToWire(refs)) => C!RefsToWire(refs).val = refs
    BY <2>1, ValOf
  <2> HIDE DEF refs
  <2> QED BY <1>2, <1>3, <1>4, <2>2, <2>3
<1>7. CASE C!Stat
  BY <1>2, <1>4, <1>7 DEF C!Stat
<1> QED BY <1>5, <1>6, <1>7

\* The box's own changes touch no call under way.
LEMMA BoxStep ==
  ASSUME WireInv, C!BoxChanges \/ UNCHANGED C!vars
  PROVE  WireInv'
<1>1. call' = call /\ result' = result /\ daemon' = daemon
  BY DEF C!BoxChanges, C!vars
<1>2. BoxInv'
  BY DEF WireInv, BoxInv, C!BoxChanges, C!vars, C!onbox
<1>3. CASE call = None
  BY <1>1, <1>2, <1>3, ResultKept DEF WireInv, CallInv
<1>4. CASE call # None
  <2>1. C!Package' = C!Package
    BY <1>1 DEF C!Package
  <2>2. \A body, answer : Performed(call.op, call.arg, call.did, body, answer)' <=> Performed(call.op, call.arg, call.did, body, answer)
    BY <1>1 DEF Performed
  <2>3. (Lost(call) => Lost(call)') /\ (Failed(call) => Failed(call)')
    BY <1>1 DEF Lost, Failed
  <2>4. Done(call) => Done(call)'
    BY <1>1, <2>1, <2>2 DEF Done
  <2>5. CallInv'
    BY <1>1, <1>4, <2>3, <2>4 DEF WireInv, CallInv, Deeds
  <2> QED BY <1>1, <1>2, <2>5, ResultKept DEF WireInv
<1> QED BY <1>3, <1>4

\* What the seedbox client returns to its caller is what the daemon did: OK only for
\* a call that was performed, the tool's own exit code, every hold and every file of
\* a listing; and what breaks on the way is an error, never an empty answer
\* (the conversions of ControlService on both sides of the connection).
THEOREM WireIsExact ==
  ASSUME C!WireAssumption
  PROVE  C!ControlSpec => [](C!OkMeansPerformed /\ C!ExitCodeSurvives /\ C!HoldsArriveWhole /\ C!ListingsArriveWhole)
<1>1. WireInv /\ [C!ControlNext]_C!vars => WireInv'
  BY CallStep, RelayStep, ReturnStep, ReportStep, UnmonitorStep, DeleteRemoteStep, ApplyStep, HoldListStep,
     HoldRejectStep, ListingStep, BoxStep DEF C!ControlNext
<1>2. WireInv => C!OkMeansPerformed /\ C!ExitCodeSurvives /\ C!HoldsArriveWhole /\ C!ListingsArriveWhole
  BY DEF WireInv, ResultInv
<1> QED BY <1>1, <1>2, WireInit, PTL DEF C!ControlSpec

=============================================================================
