------------------------------ MODULE Daemons ------------------------------
(***************************************************************************)
(* The processes that mediaops-home keeps running beside the workers: the  *)
(* supervisor itself, the gateway's startup and supervision, and the       *)
(* channel pool of a serving gateway.  They share no state, so one         *)
(* behaviour is about one of them.                                         *)
(***************************************************************************)
EXTENDS Slots

CONSTANTS
    Gateways,       \* gateway processes
    MaxVer,         \* bound: bundles minted
    GatewayEvents,  \* bound: crashes, restarts and edits around a gateway
    NoSecret, NoSocket,
    Callers,        \* pulls that may run at the same time
    Want,           \* caller -> concurrency it asks for
    Ranges,         \* Range requests one attempt needs
    PoolCap,        \* largest pool accepted
    MaxGen,         \* bound: pools built
    NoCaller,
    Roles,          \* the role binaries, in the order they are started
    Pids,           \* process IDs
    RoleEvents,     \* bound: deaths, foreign processes and changes of binaries
    NoPid

G == INSTANCE Gateway WITH
    disk <- s1, minting <- s2, secret <- s3, api <- s4, box <- s5, sock <- s6, gw <- s7, events <- s8,
    Procs <- Gateways, MaxEvents <- GatewayEvents

O == INSTANCE GatewayPool WITH
    pool <- s1, locked <- s2, streams <- s3, call <- s4, built <- s5, control <- s6, why <- s7

R == INSTANCE Supervisor WITH
    sup <- s1, child <- s2, proc <- s3, signalled <- s4, binary <- s5, events <- s6,
    MaxEvents <- RoleEvents

ASSUME DaemonsAssumption == G!GatewayAssumption /\ O!PoolAssumption /\ R!SupervisorAssumption

DaemonsInit ==
    \/ Chosen("gateway", 8) /\ G!GatewayInit
    \/ Chosen("pool", 7) /\ O!PoolInit
    \/ Chosen("supervisor", 6) /\ R!SupervisorInit

DaemonsNext ==
    \/ Moves("gateway", 8) /\ G!GatewayNext
    \/ Moves("pool", 7) /\ O!PoolNext
    \/ Moves("supervisor", 6) /\ R!SupervisorNext

DaemonsSpec == DaemonsInit /\ [][DaemonsNext]_slots

\* The daemons keep what they own apart.  A gateway that offers its socket under
\* pinned Secrets holds the whole bundle those pins name (load_bundle,
\* verify_pins); a channel carries one stream, however pools are replaced under
\* it, and a pull is refused for the stream limit only with a cause
\* (get_range, configure); a role never runs twice, none is left running when the
\* supervisor ends, and shutdown signals no process that was given the PID of a
\* reaped child (supervise, shutdown).  Each conjunct is defined, with a comment,
\* in the daemon's module; the type invariants go with them.
DaemonsAreApart ==
    /\ part = "gateway" => G!GatewayTypeOK /\ G!OffersWholeBundle
    /\ part = "pool" => O!PoolTypeOK /\ O!OneStreamPerChannel /\ O!ExhaustedHasCause
    /\ part = "supervisor" =>
         R!SupervisorTypeOK /\ R!OneProcessPerRole /\ R!NoOrphans /\ R!ForeignNeverSignalled

=============================================================================
