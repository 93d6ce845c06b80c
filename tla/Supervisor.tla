----------------------------- MODULE Supervisor -----------------------------
(***************************************************************************)
(* mediaops-home: start the role binaries, respawn a dead one on a one     *)
(* second tick, and on SIGTERM or SIGINT pass the signal on, wait for a    *)
(* bounded time and kill what is left.  Roles die at any moment, binaries  *)
(* are missing or come back, a role may ignore SIGTERM, and the system     *)
(* gives the PID of a reaped child to an unrelated process.                *)
(***************************************************************************)
EXTENDS Integers, Sequences

CONSTANTS
    Roles,      \* the role binaries, in the order they are started
    Pids,       \* process IDs
    MaxEvents,  \* bound: deaths, foreign processes and changes of binaries
    NoPid

\* Each role is named once in ROLES; no role is called what the model calls a
\* PID nobody uses or an unrelated process.
SupervisorAssumption ==
    /\ Roles \in Seq(STRING) /\ Roles # <<>>
    /\ \A i \in DOMAIN Roles : Roles[i] \notin {"free", "foreign"}
    /\ \A i, j \in DOMAIN Roles : Roles[i] = Roles[j] => i = j
    /\ NoPid \notin Pids

VARIABLES
    sup,      \* supervisor: [pc, role: next position of the loop it is in]
    child,    \* position -> [pid, reaped]: the Child handles
    proc,     \* pid -> [role, alive, stubborn, term, kill], or FreePid
    signalled,\* whether SIGTERM or SIGINT is pending
    binary,   \* role -> whether spawn finds its binary
    events

vars == <<sup, child, proc, signalled, binary, events>>

Positions == DOMAIN Roles
FreePid == [role |-> "free", alive |-> FALSE, stubborn |-> FALSE, term |-> FALSE, kill |-> FALSE]
NoChild == [pid |-> NoPid, reaped |-> TRUE]

SupervisorInit ==
    /\ sup = [pc |-> "start", role |-> 1]
    /\ child = [i \in Positions |-> NoChild]
    /\ proc = [p \in Pids |-> FreePid]
    /\ signalled = FALSE
    /\ binary \in [Positions -> BOOLEAN]
    /\ events = 0

Handles == {i \in Positions : child[i] # NoChild}
Unreaped(i) == child[i] # NoChild /\ ~child[i].reaped

\* Child::id is None once the child was reaped.
Signalled == {child[i].pid : i \in {j \in Positions : Unreaped(j)}}

\* SIGKILL: after the grace period, and by kill_on_drop when handles are dropped.
KillAll == proc' = [p \in Pids |-> IF p \in Signalled THEN [proc[p] EXCEPT !.kill = TRUE] ELSE proc[p]]

Goto(pc) == sup' = [pc |-> pc, role |-> 1]

\* spawn_role: a new process under a PID nobody uses.
SpawnRole(i) ==
    \E p \in Pids, stubborn \in BOOLEAN :
        /\ proc[p] = FreePid
        /\ proc' = [proc EXCEPT ![p] =
               [FreePid EXCEPT !.role = Roles[i], !.alive = TRUE, !.stubborn = stubborn]]
        /\ child' = [child EXCEPT ![i] = [pid |-> p, reaped |-> FALSE]]

\* spawn_children: the first failure terminates those already started.
SpawnChildren ==
    /\ sup.pc = "start"
    /\ LET i == sup.role
       IN  IF ~binary[i] THEN Goto("term") /\ UNCHANGED <<child, proc>>
           ELSE /\ SpawnRole(i)
                /\ IF i = Len(Roles) THEN Goto("loop") ELSE sup' = [sup EXCEPT !.role = i + 1]
    /\ UNCHANGED <<signalled, binary, events>>

\* select!: the pending signal, or the tick.
TakeSignal ==
    /\ sup.pc = "loop" /\ signalled /\ Goto("term") /\ signalled' = FALSE
    /\ UNCHANGED <<child, proc, binary, events>>
Tick ==
    /\ sup.pc = "loop" /\ Goto("tick")
    /\ UNCHANGED <<child, proc, signalled, binary, events>>

\* Reaping frees the PID.
Reap(i) ==
    /\ proc' = [proc EXCEPT ![child[i].pid] = FreePid]
    /\ child' = [child EXCEPT ![i].reaped = TRUE]
Gone(i) == ~child[i].reaped /\ ~proc[child[i].pid].alive
NextTick == IF sup.role = Len(Roles) THEN Goto("loop") ELSE sup' = [sup EXCEPT !.role = @ + 1]

\* try_wait: still running.
CheckRunning ==
    /\ sup.pc = "tick" /\ ~child[sup.role].reaped /\ ~Gone(sup.role) /\ NextTick
    /\ UNCHANGED <<child, proc, signalled, binary, events>>

\* try_wait: exited, which reaps it.
CheckExited ==
    /\ sup.pc = "tick" /\ Gone(sup.role) /\ Reap(sup.role)
    /\ UNCHANGED <<sup, signalled, binary, events>>

\* The exited child is replaced; a failed respawn keeps it for the next tick.
Respawn ==
    /\ sup.pc = "tick" /\ child[sup.role].reaped
    /\ IF binary[sup.role] THEN SpawnRole(sup.role) ELSE UNCHANGED <<child, proc>>
    /\ NextTick
    /\ UNCHANGED <<signalled, binary, events>>

---------------------------------------------------------------------------
(* terminate_with_grace                                                    *)

\* SIGTERM to every child that was not reaped.
SendTerm ==
    /\ sup.pc = "term" /\ Goto("grace")
    /\ proc' = [p \in Pids |-> IF p \in Signalled THEN [proc[p] EXCEPT !.term = TRUE] ELSE proc[p]]
    /\ UNCHANGED <<child, signalled, binary, events>>

\* wait on the children in order, within the grace period or after it.
WaitChild ==
    /\ sup.pc \in {"grace", "wait"}
    /\ \E i \in Handles :
          /\ \A j \in Handles : j < i => child[j].reaped
          /\ Gone(i) /\ Reap(i)
    /\ UNCHANGED <<sup, signalled, binary, events>>

AllReaped == \A i \in Handles : child[i].reaped

\* The grace period is over: SIGKILL.
GraceExpires ==
    /\ sup.pc = "grace" /\ ~AllReaped /\ Goto("wait")
    /\ KillAll
    /\ UNCHANGED <<child, signalled, binary, events>>

Finish ==
    /\ sup.pc \in {"grace", "wait"} /\ AllReaped /\ Goto("exit")
    /\ UNCHANGED <<child, proc, signalled, binary, events>>

SupervisorStep ==
    \/ SpawnChildren \/ TakeSignal \/ Tick \/ CheckRunning \/ CheckExited \/ Respawn
    \/ SendTerm \/ WaitChild \/ GraceExpires \/ Finish

---------------------------------------------------------------------------
(* Processes and the operator                                              *)

Event == events < MaxEvents /\ events' = events + 1

\* A role fails, or obeys SIGTERM, or is killed.
Dies(p) == proc' = [proc EXCEPT ![p].alive = FALSE]
RoleFails(p) ==
    /\ Event /\ proc[p].alive /\ proc[p].role # "foreign" /\ Dies(p)
    /\ UNCHANGED <<sup, child, signalled, binary>>
RoleObeys(p) ==
    /\ proc[p].alive /\ proc[p].role # "foreign"
    /\ (proc[p].term /\ ~proc[p].stubborn) \/ proc[p].kill
    /\ Dies(p)
    /\ UNCHANGED <<sup, child, signalled, binary, events>>

\* An unrelated process gets a free PID; one at a time, so that PIDs do not run out.
ForeignStarts(p) ==
    /\ Event /\ proc[p] = FreePid /\ \A q \in Pids : proc[q].role # "foreign"
    /\ proc' = [proc EXCEPT ![p] = [FreePid EXCEPT !.role = "foreign", !.alive = TRUE]]
    /\ UNCHANGED <<sup, child, signalled, binary>>

\* The operator stops the service, or replaces binaries.
Stop ==
    /\ Event /\ ~signalled /\ signalled' = TRUE
    /\ UNCHANGED <<sup, child, proc, binary>>
ReplaceBinary ==
    /\ Event
    /\ \E i \in Positions : binary' = [binary EXCEPT ![i] = ~@]
    /\ UNCHANGED <<sup, child, proc, signalled>>

SupervisorNext ==
    \/ SupervisorStep \/ Stop \/ ReplaceBinary
    \/ \E p \in Pids : RoleFails(p) \/ RoleObeys(p) \/ ForeignStarts(p)

Spec == SupervisorInit /\ [][SupervisorNext]_vars

\* The supervisor runs, the runtime's select! does not starve the signal for
\* ever, and a process that was told to stop is scheduled.
FairSpec ==
    /\ Spec /\ WF_vars(SupervisorStep) /\ SF_vars(TakeSignal)
    /\ \A p \in Pids : WF_vars(RoleObeys(p))

---------------------------------------------------------------------------
(* Properties                                                              *)

\* Every variable has its type.
SupervisorTypeOK ==
    /\ sup.role \in Positions
    /\ \A i \in Positions : child[i] = NoChild \/ child[i].pid \in Pids
    /\ \A i \in Positions : Unreaped(i) => proc[child[i].pid].role = Roles[i]

\* A role never runs twice at a time, across respawns and failed respawns.
OneProcessPerRole ==
    \A p, q \in Pids : proc[p].alive /\ proc[q].alive /\ p # q /\ proc[p].role = proc[q].role
                          => proc[p].role = "foreign"

\* When the supervisor ends, by a signal or because a role could not be
\* started, no role is left running.
NoOrphans ==
    sup.pc = "exit" => \A p \in Pids : proc[p].alive => proc[p].role = "foreign"

\* Shutdown signals only its own children: never a process that was given
\* the PID of a child reaped before.
ForeignNeverSignalled ==
    \A p \in Pids : proc[p].role = "foreign" => ~proc[p].term /\ ~proc[p].kill

(* Why they hold: the inductive invariant. *)

Process == [role : {Roles[i] : i \in Positions} \cup {"free", "foreign"},
            alive : BOOLEAN, stubborn : BOOLEAN, term : BOOLEAN, kill : BOOLEAN]
StateTyped ==
    /\ sup \in [pc : {"start", "loop", "tick", "term", "grace", "wait", "exit"}, role : Positions]
    /\ child \in [Positions -> [pid : Pids, reaped : BOOLEAN] \cup {NoChild}]
    /\ proc \in [Pids -> Process]
    /\ binary \in [Positions -> BOOLEAN]

\* An unreaped handle names a process of its role, and each process of a role is
\* named by such a handle.
HandlesName == \A i \in Positions : Unreaped(i) => proc[child[i].pid].role = Roles[i]
RolesAreHeld ==
    \A p \in Pids : proc[p].role \notin {"free", "foreign"} => p \in Signalled
FreeIsBlank == \A p \in Pids : proc[p].role = "free" => proc[p] = FreePid

\* spawn_children pushes in order; supervise ends with every child waited for.
NotStarted == sup.pc = "start" => \A i \in Positions : i >= sup.role => child[i] = NoChild
EndsReaped == sup.pc = "exit" => AllReaped

SupervisorInv ==
    /\ StateTyped /\ HandlesName /\ RolesAreHeld /\ FreeIsBlank
    /\ NotStarted /\ EndsReaped /\ ForeignNeverSignalled

---------------------------------------------------------------------------
(* Progress                                                                *)

\* SIGTERM or SIGINT ends the supervisor, whatever the roles do.
StopEnds == signalled ~> sup.pc = "exit"

\* A role whose binary is there is running again, or the supervisor is ending.
Lacks(i) ==
    /\ sup.pc \in {"loop", "tick"} /\ binary[i]
    /\ ~\E p \in Pids : proc[p].role = Roles[i] /\ proc[p].alive
RolesComeBack == \A i \in Positions : Lacks(i) ~> ~Lacks(i)
=============================================================================
